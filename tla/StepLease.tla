------------------------------ MODULE StepLease ------------------------------
(***************************************************************************)
(* MemoryLease (backend/go/internal/stepLease/memory.go): the step leases  *)
(* of a single-process deployment.  Every method runs under one mutex and  *)
(* is one action, except expire, which unlocks between deleting the holder *)
(* and sending the event to the watchers, and the end of a watch, which    *)
(* unlocks between leaving the list of watchers and closing the channel.   *)
(* A timer that has fired is a goroutine waiting for the mutex: Stop does  *)
(* not reach it any more, and it knows its step but not its holder.        *)
(***************************************************************************)
EXTENDS Naturals, Sequences, FiniteSets

CONSTANTS
    Steps, Clients, Watchers,
    NoHolder, NoHandle,
    TTL,                \* the ttl of every Acquire and Keepalive, in ticks
    Buffer,             \* the capacity of a watcher's channel
    MaxTime, MaxTickets \* bounds: how long the clock runs, how many leases are granted

ASSUME LeaseAssumption ==
    /\ TTL \in Nat \ {0} /\ Buffer \in Nat \ {0}
    /\ MaxTime \in Nat /\ MaxTickets \in Nat

VARIABLES
    now,
    holders,    \* [Steps -> memHolder]: its ticket (the pointer), node, expiry, timer
    firing,     \* [Steps -> expire goroutines waiting for the mutex]
    handles,    \* [Clients -> the Handle last returned to it]
    issued,     \* tickets handed out so far
    watches,    \* [Watchers -> the life of the watch]
    inbox,      \* [Watchers -> events buffered in its channel]
    sending,    \* events expire is sending, each with the watchers still to come
    closed

leaseTable == <<holders, firing, handles, issued>>
delivery == <<watches, inbox, sending>>
vars == <<now, holders, firing, handles, issued, watches, inbox, sending, closed>>

Tickets == 1..MaxTickets

Holder == [ticket : Tickets, node : Clients, expiresAt : Nat, armed : BOOLEAN]
Handle == [step : Steps, ticket : Tickets, expiresAt : Nat, released : BOOLEAN]

ASSUME NullAssumption ==
    NoHolder \notin Holder /\ NoHandle \notin Handle \union [of : Steps, until : Nat]

TypeOK ==
    /\ now \in 0..MaxTime
    /\ holders \in [Steps -> Holder \union {NoHolder}]
    /\ firing \in [Steps -> Nat]
    /\ handles \in [Clients -> Handle \union {NoHandle}]
    /\ issued \in 0..MaxTickets
    /\ watches \in [Watchers -> {"off", "on", "leaving", "closed"}]
    /\ inbox \in [Watchers -> Seq(Steps)]
    /\ sending \subseteq [step : Steps, ticket : Tickets, to : SUBSET Watchers]
    /\ closed \in BOOLEAN

Held(s) == holders[s] # NoHolder
Lapsed(s) == Held(s) /\ now >= holders[s].expiresAt

-----------------------------------------------------------------------------
(* A lapsed holder is overwritten where it stands; its timer is not        *)
(* stopped, so one that had not fired yet is a goroutine to come.          *)
Acquire(c, s) ==
    /\ ~closed
    /\ Held(s) => Lapsed(s)
    /\ issued < MaxTickets
    /\ issued' = issued + 1
    /\ holders' = [holders EXCEPT ![s] = [ticket |-> issued + 1, node |-> c,
                                          expiresAt |-> now + TTL, armed |-> TRUE]]
    /\ firing' = [firing EXCEPT ![s] = IF Held(s) /\ holders[s].armed THEN @ + 1 ELSE @]
    /\ handles' = [handles EXCEPT ![c] = [step |-> s, ticket |-> issued + 1,
                                          expiresAt |-> now + TTL, released |-> FALSE]]
    /\ UNCHANGED <<now, watches, inbox, sending, closed>>

(* Mutant: any handle on a held step will do.                              *)
OwnsSomething(c) == handles[c] # NoHandle /\ Held(handles[c].step)

(* existing == h.opaque                                                    *)
Owns(c) ==
    /\ handles[c] # NoHandle
    /\ Held(handles[c].step)
    /\ holders[handles[c].step].ticket = handles[c].ticket

(* Mutant: the old timer is stopped and no new one is armed.               *)
KeepaliveWithoutTimer(c) ==
    LET s == handles[c].step
    IN  /\ Owns(c)
        /\ now <= holders[s].expiresAt
        /\ holders' = [holders EXCEPT ![s].expiresAt = now + TTL, ![s].armed = FALSE]
        /\ handles' = [handles EXCEPT ![c].expiresAt = now + TTL]
        /\ UNCHANGED <<now, firing, issued, delivery, closed>>

(* ErrLeaseExpired changes nothing.                                        *)
Keepalive(c) ==
    LET s == handles[c].step
    IN  /\ Owns(c)
        /\ now <= holders[s].expiresAt
        /\ holders' = [holders EXCEPT ![s].expiresAt = now + TTL, ![s].armed = TRUE]
        /\ handles' = [handles EXCEPT ![c].expiresAt = now + TTL]
        /\ UNCHANGED <<now, firing, issued, delivery, closed>>

(* Mutant: the timer is left to remove the holder.                         *)
ReleaseLazily(c) ==
    /\ handles[c] # NoHandle
    /\ handles' = [handles EXCEPT ![c].released = TRUE]
    /\ UNCHANGED <<now, holders, firing, issued, delivery, closed>>

(* Idempotent: a handle whose lease is gone releases nothing.              *)
Release(c) ==
    /\ handles[c] # NoHandle
    /\ handles' = [handles EXCEPT ![c].released = TRUE]
    /\ holders' = IF Owns(c) THEN [holders EXCEPT ![handles[c].step] = NoHolder] ELSE holders
    /\ UNCHANGED <<now, firing, issued, delivery, closed>>

TimerFires(s) ==
    /\ Lapsed(s) /\ holders[s].armed
    /\ holders' = [holders EXCEPT ![s].armed = FALSE]
    /\ firing' = [firing EXCEPT ![s] = @ + 1]
    /\ UNCHANGED <<now, handles, issued, delivery, closed>>

Listening == {w \in Watchers : watches[w] = "on"}

(* Mutant: expire does not look at the clock again.                        *)
ExpireBlindly(s) ==
    /\ firing[s] > 0 /\ Held(s)
    /\ firing' = [firing EXCEPT ![s] = @ - 1]
    /\ holders' = [holders EXCEPT ![s] = NoHolder]
    /\ UNCHANGED <<now, handles, issued, delivery, closed>>

(* Mutant: a timer runs expire although it has been stopped.               *)
ExpireUnasked(s) ==
    /\ firing' = [firing EXCEPT ![s] = @ - 1]
    /\ UNCHANGED <<now, holders, handles, issued, delivery, closed>>

(* expire, up to its Unlock, for whoever holds the step by now.            *)
Expire(s) ==
    /\ firing[s] > 0
    /\ firing' = [firing EXCEPT ![s] = @ - 1]
    /\ \/ /\ Lapsed(s)
          /\ holders' = [holders EXCEPT ![s] = NoHolder]
          /\ sending' = sending \union {[step |-> s, ticket |-> holders[s].ticket, to |-> t] :
                                            t \in {Listening} \ {{}}}
       \/ ~Lapsed(s) /\ UNCHANGED <<holders, sending>>
    /\ UNCHANGED <<now, handles, issued, watches, inbox, closed>>

(* One send of expire's loop; a full channel drops the event.  The send on *)
(* a closed channel would panic: such a delivery gets no further.          *)
Send(d, w) ==
    /\ w \in d.to
    /\ watches[w] # "closed"
    /\ sending' = (sending \ {d}) \union
                  (IF d.to = {w} THEN {} ELSE {[d EXCEPT !.to = @ \ {w}]})
    /\ inbox' = [inbox EXCEPT ![w] = IF Len(@) < Buffer THEN Append(@, d.step) ELSE @]
    /\ UNCHANGED <<now, leaseTable, watches, closed>>

-----------------------------------------------------------------------------
Watch(w) ==
    /\ watches[w] = "off"
    /\ watches' = [watches EXCEPT ![w] = "on"]
    /\ UNCHANGED <<now, leaseTable, inbox, sending, closed>>

Receive(w) ==
    /\ inbox[w] # <<>>
    /\ inbox' = [inbox EXCEPT ![w] = Tail(@)]
    /\ UNCHANGED <<now, leaseTable, watches, sending, closed>>

(* ctx ends: out of the list under the mutex, then close(ch) without it.   *)
LeaveWatchers(w) ==
    /\ watches[w] = "on"
    /\ watches' = [watches EXCEPT ![w] = "leaving"]
    /\ UNCHANGED <<now, leaseTable, inbox, sending, closed>>

CloseChannel(w) ==
    /\ watches[w] = "leaving"
    /\ watches' = [watches EXCEPT ![w] = "closed"]
    /\ UNCHANGED <<now, leaseTable, inbox, sending, closed>>

Close ==
    /\ ~closed
    /\ closed' = TRUE
    /\ holders' = [s \in Steps |-> NoHolder]
    /\ UNCHANGED <<now, firing, handles, issued, delivery>>

Clock ==
    /\ now < MaxTime
    /\ now' = now + 1
    /\ UNCHANGED <<leaseTable, delivery, closed>>

-----------------------------------------------------------------------------
Init ==
    /\ now = 0
    /\ holders = [s \in Steps |-> NoHolder]
    /\ firing = [s \in Steps |-> 0]
    /\ handles = [c \in Clients |-> NoHandle]
    /\ issued = 0
    /\ watches = [w \in Watchers |-> "off"]
    /\ inbox = [w \in Watchers |-> <<>>]
    /\ sending = {}
    /\ closed = FALSE

Runtime == \E s \in Steps : TimerFires(s) \/ Expire(s)

Next ==
    \/ \E c \in Clients : Keepalive(c) \/ Release(c) \/ \E s \in Steps : Acquire(c, s)
    \/ Runtime
    \/ \E d \in sending, w \in Watchers : Send(d, w)
    \/ \E w \in Watchers : Watch(w) \/ Receive(w) \/ LeaveWatchers(w) \/ CloseChannel(w)
    \/ Close \/ Clock

Spec == Init /\ [][Next]_vars

(* A due timer fires and its goroutine gets the mutex (which Go grants     *)
(* first come first served once somebody waits); clients owe nothing.      *)
FairSpec == Spec /\ \A s \in Steps : WF_vars(TimerFires(s)) /\ WF_vars(Expire(s))

-----------------------------------------------------------------------------
(* Properties.                                                             *)

(* What a client concludes from its Handle (it has not released it and     *)
(* ExpiresAt is ahead) is honoured: the table holds the step for that very *)
(* handle, whichever late timers, stale releases or re-acquisitions are on *)
(* their way.  So two clients never both believe they hold a step.         *)
Believes(c, s) ==
    /\ handles[c] # NoHandle
    /\ handles[c].step = s /\ ~handles[c].released
    /\ now < handles[c].expiresAt

BelieverHolds ==
    ~closed => \A c \in Clients : (\E s \in Steps : Believes(c, s)) => Owns(c)

(* The silence of a release (memory_test.go, TestMemoryLease_ReleaseIs-    *)
(* Silent): no event is under way for a lease its owner has released, and  *)
(* none for a lease that is still held.                                    *)
SilentRelease ==
    [][\A d \in sending', c \in Clients :
          (\A e \in sending : e.ticket # d.ticket)
          /\ handles[c] # NoHandle /\ handles[c].ticket = d.ticket
              => ~handles[c].released /\ now >= handles[c].expiresAt]_vars

(* A lapsed lease is always cleared in the end: however Keepalive, Release *)
(* and re-acquisition stop and re-arm timers, one is left to do it.        *)
LapseCleared ==
    \A s \in Steps : Lapsed(s) ~> ~Lapsed(s)

(* Watch: an event is never sent on the channel of a watch that has ended  *)
(* (the send would panic and take the process down).                       *)
NoSendAfterClose ==
    \A d \in sending : \A w \in d.to : watches[w] # "closed"

-----------------------------------------------------------------------------
(* The table implements the contract of the interface (ExclusiveLease).    *)
Contract == INSTANCE ExclusiveLease
    WITH Leasables <- Steps, Owners <- Clients, Duration <- TTL, NoClaim <- NoHandle,
         clock <- now,
         claims <- [c \in Clients |->
                       IF handles[c] = NoHandle \/ handles[c].released THEN NoHandle
                       ELSE [of |-> handles[c].step, until |-> handles[c].expiresAt]]

ImplementsContract == Contract!ExclusiveSpec
=============================================================================
