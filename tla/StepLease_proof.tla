-------------------------- MODULE StepLease_proof --------------------------
(***************************************************************************)
(* The in-memory step lease for any number of steps, clients and watchers, *)
(* any TTL and any channel capacity.                                       *)
(***************************************************************************)
EXTENDS StepLease, TLAPS

USE LeaseAssumption, NullAssumption

(* The part of the type invariant the argument uses.                       *)
TableOK ==
    /\ now \in Nat
    /\ holders \in [Steps -> Holder \union {NoHolder}]
    /\ firing \in [Steps -> Nat]
    /\ handles \in [Clients -> Handle \union {NoHandle}]
    /\ issued \in 0..MaxTickets
    /\ closed \in BOOLEAN

(* The inductive invariant.  A ticket (a pointer in the code) is given to  *)
(* one client for one step; while table and handle agree on the ticket     *)
(* they agree on the deadline, and the handle has not been released.       *)
Matched ==
    /\ \A c \in Clients : handles[c] # NoHandle => handles[c].ticket <= issued
    /\ \A s \in Steps : Held(s) => holders[s].ticket <= issued
    /\ \A b, c \in Clients :
          handles[b] # NoHandle /\ handles[c] # NoHandle /\ handles[b].ticket = handles[c].ticket
              => b = c
    /\ \A c \in Clients, s \in Steps :
          handles[c] # NoHandle /\ Held(s) /\ holders[s].ticket = handles[c].ticket
              => /\ handles[c].step = s /\ ~handles[c].released
                 /\ handles[c].expiresAt = holders[s].expiresAt

Emptied == closed => \A s \in Steps : ~Held(s)

LeaseSound == TableOK /\ Matched /\ Emptied /\ BelieverHolds

LEMMA LeaseInit == Init => LeaseSound
<1> SUFFICES ASSUME Init PROVE LeaseSound
    OBVIOUS
<1>0. ~closed /\ closed \in BOOLEAN
    BY Zenon DEF Init
<1>1. /\ now = 0 /\ issued = 0
      /\ holders = [s \in Steps |-> NoHolder]
      /\ firing = [s \in Steps |-> 0]
      /\ handles = [c \in Clients |-> NoHandle]
    BY DEF Init
<1>2. TableOK
    BY <1>0, <1>1 DEF TableOK
<1>h. \A c \in Clients : handles[c] = NoHandle
    BY <1>1
<1>t. \A s \in Steps : ~Held(s)
    BY <1>1 DEF Held
<1>3. Matched
    BY <1>h, <1>t DEF Matched
<1>4. Emptied /\ BelieverHolds
    BY <1>h, <1>t DEF Emptied, BelieverHolds, Believes
<1> QED BY <1>2, <1>3, <1>4 DEF LeaseSound

LEMMA LeaseNext == LeaseSound /\ [Next]_vars => LeaseSound'
<1> SUFFICES ASSUME LeaseSound, [Next]_vars PROVE LeaseSound'
    OBVIOUS
<1> USE DEF LeaseSound
<1>1. ASSUME NEW c \in Clients, NEW s \in Steps, Acquire(c, s) PROVE LeaseSound'
  <2> DEFINE holder == [ticket |-> issued + 1, node |-> c, expiresAt |-> now + TTL, armed |-> TRUE]
             handle == [step |-> s, ticket |-> issued + 1, expiresAt |-> now + TTL,
                        released |-> FALSE]
  <2>1. holder \in Holder /\ handle \in Handle
    BY <1>1 DEF Acquire, TableOK, Holder, Handle, Tickets
  <2>2. /\ holders' = [holders EXCEPT ![s] = holder]
        /\ handles' = [handles EXCEPT ![c] = handle]
        /\ issued' = issued + 1 /\ UNCHANGED <<now, closed>>
    BY <1>1 DEF Acquire
  <2>3. TableOK'
    BY <1>1, <2>1, <2>2 DEF Acquire, TableOK
  <2>4. \A b \in Clients : handles[b] # NoHandle => handles[b].ticket \in Nat
    BY DEF TableOK, Handle, Tickets
  <2>5. \A t \in Steps : Held(t) => holders[t].ticket \in Nat
    BY DEF TableOK, Holder, Tickets, Held
  <2>a. /\ handles'[c] = handle /\ holders'[s] = holder
        /\ \A b \in Clients \ {c} : handles'[b] = handles[b]
        /\ \A t \in Steps \ {s} : holders'[t] = holders[t]
    BY <2>2 DEF TableOK
  <2>b. /\ handle.ticket = issued + 1 /\ holder.ticket = issued + 1 /\ issued \in Nat
        /\ handle # NoHandle /\ holder # NoHolder
        /\ handle.step = s /\ ~handle.released /\ handle.expiresAt = holder.expiresAt
    <3>1. handle # NoHandle /\ holder # NoHolder
        BY <2>1
    <3> HIDE NullAssumption
    <3> QED BY <3>1 DEF TableOK
  <2> HIDE DEF handle, holder
  <2>6. Matched'
    <3>1. \A b \in Clients : handles'[b] # NoHandle => handles'[b].ticket <= issued'
        BY <2>2, <2>4, <2>a, <2>b DEF Matched
    <3>2. \A t \in Steps : Held(t)' => holders'[t].ticket <= issued'
        BY <2>2, <2>5, <2>a, <2>b DEF Matched, Held
    <3>3. \A a, b \in Clients :
             handles'[a] # NoHandle /\ handles'[b] # NoHandle
                 /\ handles'[a].ticket = handles'[b].ticket => a = b
        BY <2>4, <2>a, <2>b DEF Matched
    <3>4. \A b \in Clients, t \in Steps :
             handles'[b] # NoHandle /\ Held(t)' /\ holders'[t].ticket = handles'[b].ticket
                 => /\ handles'[b].step = t /\ ~handles'[b].released
                    /\ handles'[b].expiresAt = holders'[t].expiresAt
        BY <2>4, <2>5, <2>a, <2>b DEF Matched, Held
    <3> QED BY <3>1, <3>2, <3>3, <3>4 DEF Matched
  <2>7. Emptied'
    BY <1>1, <2>2 DEF Acquire, Emptied
  <2>8. \A b \in Clients : (\E t \in Steps : Believes(b, t))' => Owns(b)'
    <3> SUFFICES ASSUME NEW b \in Clients, NEW t \in Steps, Believes(b, t)' PROVE Owns(b)'
        OBVIOUS
    <3>1. CASE b = c
        BY <2>a, <2>b, <3>1 DEF Owns, Held
    <3>2. CASE b # c
      <4>1. Believes(b, t) /\ Owns(b) /\ handles'[b] = handles[b]
        BY <1>1, <2>2, <3>2 DEF Acquire, Believes, BelieverHolds, TableOK
      <4>2. t # s
        BY <1>1, <4>1 DEF Acquire, Owns, Believes, Matched, Lapsed, Held, TableOK, Handle
      <4> QED BY <2>2, <4>1, <4>2 DEF Owns, Believes, Held, TableOK
    <3> QED BY <3>1, <3>2
  <2> QED BY <2>3, <2>6, <2>7, <2>8 DEF BelieverHolds
<1>2. ASSUME NEW c \in Clients, Keepalive(c) PROVE LeaseSound'
  <2> DEFINE s == handles[c].step
  <2>1. /\ s \in Steps /\ handles[c] \in Handle /\ holders[s] \in Holder
        /\ holders[s].ticket = handles[c].ticket
    BY <1>2 DEF Keepalive, Owns, Held, TableOK, Handle
  <2>2. /\ holders' = [holders EXCEPT ![s] = [holders[s] EXCEPT !.expiresAt = now + TTL,
                                                               !.armed = TRUE]]
        /\ handles' = [handles EXCEPT ![c] = [handles[c] EXCEPT !.expiresAt = now + TTL]]
        /\ UNCHANGED <<now, firing, issued, closed>>
    BY <1>2 DEF Keepalive
  <2>3. /\ [holders[s] EXCEPT !.expiresAt = now + TTL, !.armed = TRUE] \in Holder
        /\ [handles[c] EXCEPT !.expiresAt = now + TTL] \in Handle
    <3>1. now + TTL \in Nat
        BY DEF TableOK
    <3> QED BY <2>1, <3>1 DEF Holder, Handle
  <2>4. TableOK'
    BY <2>1, <2>2, <2>3 DEF TableOK
  <2>5. /\ \A b \in Clients : /\ handles'[b] # NoHandle <=> handles[b] # NoHandle
                              /\ handles[b] # NoHandle =>
                                    /\ handles'[b].ticket = handles[b].ticket
                                    /\ handles'[b].step = handles[b].step
                                    /\ handles'[b].released = handles[b].released
                              /\ b # c => handles'[b] = handles[b]
        /\ handles'[c].expiresAt = now + TTL
    BY <2>1, <2>2, <2>3 DEF TableOK, Handle
  <2>6. /\ \A t \in Steps : /\ Held(t)' <=> Held(t)
                            /\ Held(t) => holders'[t].ticket = holders[t].ticket
                            /\ t # s => holders'[t] = holders[t]
        /\ holders'[s].expiresAt = now + TTL
    BY <2>1, <2>2, <2>3 DEF TableOK, Holder, Held
  <2>7. Matched'
    BY <2>1, <2>2, <2>5, <2>6 DEF Matched
  <2>8. Emptied'
    BY <2>2, <2>6 DEF Emptied
  <2>9. BelieverHolds'
    <3> SUFFICES ASSUME ~closed, NEW b \in Clients, NEW t \in Steps, Believes(b, t)' PROVE Owns(b)'
        BY <2>2 DEF BelieverHolds
    <3>1. Owns(b)
        BY <1>2, <2>2, <2>5 DEF Keepalive, BelieverHolds, Believes
    <3> QED BY <2>5, <2>6, <3>1 DEF Owns, TableOK, Handle
  <2> QED BY <2>4, <2>7, <2>8, <2>9
<1>3. ASSUME NEW c \in Clients, Release(c) PROVE LeaseSound'
  <2>1. handles[c] \in Handle /\ handles[c].step \in Steps
    BY <1>3 DEF Release, TableOK, Handle
  <2>2. /\ handles' = [handles EXCEPT ![c] = [handles[c] EXCEPT !.released = TRUE]]
        /\ UNCHANGED <<now, firing, issued, closed>>
    BY <1>3 DEF Release
  <2>3. [handles[c] EXCEPT !.released = TRUE] \in Handle
    BY <2>1 DEF Handle
  <2>4. TableOK'
    BY <1>3, <2>1, <2>2, <2>3 DEF Release, TableOK
  <2>5. /\ \A b \in Clients : /\ handles'[b] # NoHandle <=> handles[b] # NoHandle
                              /\ handles[b] # NoHandle => handles'[b].ticket = handles[b].ticket
                              /\ b # c => handles'[b] = handles[b]
        /\ handles'[c].released
    BY <2>1, <2>2, <2>3 DEF TableOK, Handle
  <2>6. \A t \in Steps : /\ Held(t)' => Held(t) /\ holders'[t] = holders[t]
                         /\ Held(t) /\ ~Held(t)' => holders[t].ticket = handles[c].ticket
    BY <1>3, <2>1 DEF Release, Owns, Held, TableOK
  <2>7. \A t \in Steps : Held(t)' => holders[t].ticket # handles[c].ticket
    BY <1>3, <2>1 DEF Release, Owns, Held, TableOK, Matched
  <2>8. Matched'
    BY <2>1, <2>2, <2>5, <2>6, <2>7 DEF Matched
  <2>9. Emptied'
    BY <2>2, <2>6 DEF Emptied
  <2>10. BelieverHolds'
    <3> SUFFICES ASSUME ~closed, NEW b \in Clients, NEW s \in Steps, Believes(b, s)' PROVE Owns(b)'
        BY <2>2 DEF BelieverHolds
    <3>1. b # c /\ Believes(b, s) /\ Owns(b)
        BY <2>2, <2>5 DEF Believes, BelieverHolds
    <3>2. holders[s].ticket # handles[c].ticket
        BY <1>3, <3>1 DEF Release, Matched, Owns, Believes
    <3> QED BY <2>5, <2>6, <3>1, <3>2 DEF Owns, Believes
  <2> QED BY <2>4, <2>8, <2>9, <2>10
<1>4. ASSUME NEW s \in Steps, TimerFires(s) PROVE LeaseSound'
  <2>1. /\ holders' = [holders EXCEPT ![s] = [holders[s] EXCEPT !.armed = FALSE]]
        /\ UNCHANGED <<now, handles, issued, closed>>
    BY <1>4 DEF TimerFires
  <2>2. holders[s] \in Holder /\ [holders[s] EXCEPT !.armed = FALSE] \in Holder
    BY <1>4 DEF TimerFires, Lapsed, Held, TableOK, Holder
  <2>3. TableOK'
    BY <1>4, <2>1, <2>2 DEF TimerFires, TableOK
  <2>4. \A t \in Steps : /\ Held(t)' <=> Held(t)
                         /\ Held(t) => /\ holders'[t].ticket = holders[t].ticket
                                       /\ holders'[t].expiresAt = holders[t].expiresAt
    BY <2>1, <2>2 DEF TableOK, Holder, Held
  <2>5. Matched' /\ Emptied'
    BY <2>1, <2>4 DEF Matched, Emptied
  <2>6. BelieverHolds'
    BY <2>1, <2>4 DEF BelieverHolds, Believes, Owns, TableOK, Handle
  <2> QED BY <2>3, <2>5, <2>6
<1>5. ASSUME NEW s \in Steps, Expire(s) PROVE LeaseSound'
  <2>1. UNCHANGED <<now, handles, issued, closed>>
    BY <1>5 DEF Expire
  <2>2. TableOK'
    BY <1>5 DEF Expire, TableOK
  <2>3. \A t \in Steps : /\ Held(t)' => Held(t) /\ holders'[t] = holders[t]
                         /\ Held(t) /\ ~Held(t)' => Lapsed(t)
    BY <1>5 DEF Expire, Lapsed, Held, TableOK
  <2>4. Matched' /\ Emptied'
    BY <2>1, <2>3 DEF Matched, Emptied
  <2>5. BelieverHolds'
    <3> SUFFICES ASSUME ~closed, NEW b \in Clients, NEW t \in Steps, Believes(b, t) PROVE Owns(b)'
        BY <2>1 DEF BelieverHolds, Believes
    <3>1. Owns(b) /\ ~Lapsed(t)
        BY DEF BelieverHolds, Believes, Owns, Matched, Lapsed, TableOK, Handle
    <3> QED BY <2>1, <2>3, <3>1 DEF Owns, Believes
  <2> QED BY <2>2, <2>4, <2>5
<1>6. CASE Close
    BY <1>6 DEF Close, TableOK, Matched, Emptied, BelieverHolds, Held, delivery
<1>7. CASE Clock
  <2>1. UNCHANGED <<holders, firing, handles, issued, closed>> /\ now' = now + 1
    BY <1>7 DEF Clock, leaseTable
  <2>2. TableOK' /\ Matched' /\ Emptied'
    BY <2>1 DEF TableOK, Matched, Emptied, Held
  <2>3. BelieverHolds'
    <3> SUFFICES ASSUME ~closed, NEW b \in Clients, NEW t \in Steps, Believes(b, t)' PROVE Owns(b)'
        BY <2>1 DEF BelieverHolds
    <3>1. Believes(b, t)
        BY <2>1 DEF Believes, TableOK, Handle
    <3> QED BY <2>1, <3>1 DEF BelieverHolds, Owns, Held
  <2> QED BY <2>2, <2>3
<1>8. CASE UNCHANGED <<now, leaseTable, closed>>
    BY <1>8 DEF leaseTable, TableOK, Matched, Emptied, BelieverHolds, Believes, Owns, Held
<1> QED
    BY <1>1, <1>2, <1>3, <1>4, <1>5, <1>6, <1>7, <1>8
       DEF Next, Runtime, Send, Watch, Receive, LeaveWatchers, CloseChannel, vars, leaseTable

LEMMA AlwaysLeaseSound == Spec => []LeaseSound
BY LeaseInit, LeaseNext, PTL DEF Spec

(* Whoever concludes from its handle that it holds a step does hold it.    *)
THEOREM BelieversHold == Spec => []BelieverHolds
BY AlwaysLeaseSound, PTL DEF LeaseSound

-----------------------------------------------------------------------------
(* The memory backend keeps what the Lease interface promises: no grant or *)
(* extension while another client's claim is good.                         *)
THEOREM ImplementsExclusiveLease == Spec => ImplementsContract
<1> DEFINE claim(c) == IF handles[c] = NoHandle \/ handles[c].released THEN NoHandle
                       ELSE [of |-> handles[c].step, until |-> handles[c].expiresAt]
           claims == [c \in Clients |-> claim(c)]
<1>1. Init => Contract!ExclusiveInit
  <2> SUFFICES ASSUME Init PROVE Contract!ExclusiveInit
    OBVIOUS
  <2>1. now = 0 /\ \A c \in Clients : handles[c] = NoHandle
    BY DEF Init
  <2> QED BY <2>1 DEF Contract!ExclusiveInit
<1>2. LeaseSound /\ [Next]_vars => [Contract!ExclusiveNext]_(Contract!leaseVars)
  <2> SUFFICES ASSUME LeaseSound, [Next]_vars
               PROVE  Contract!ExclusiveNext \/ UNCHANGED <<now, claims>>
    BY DEF Contract!leaseVars
  <2> USE DEF LeaseSound
  <2>0. /\ \A c \in Clients : handles[c] # NoHandle => handles[c] \in Handle
        /\ now \in Nat /\ TTL \in Nat
    BY DEF TableOK
  <2>1. ASSUME NEW b \in Clients, NEW s \in Steps, Contract!Good(b, s), ~closed
        PROVE  Believes(b, s) /\ Owns(b)
    <3>1. Believes(b, s)
        BY <2>1 DEF Contract!Good, Believes
    <3> QED BY <2>1, <3>1 DEF BelieverHolds
  <2>2. ASSUME NEW c \in Clients, NEW s \in Steps, Acquire(c, s) PROVE Contract!ExclusiveNext
    <3>1. \A b \in Clients : ~Contract!Good(b, s)
        BY <2>0, <2>1, <2>2 DEF Acquire, Believes, Owns, Lapsed, Held, Matched, TableOK, Handle
    <3>2. /\ \A b \in Clients \ {c} : handles'[b] = handles[b]
          /\ handles'[c] = [step |-> s, ticket |-> issued + 1, expiresAt |-> now + TTL,
                            released |-> FALSE]
          /\ UNCHANGED now
        BY <2>2 DEF Acquire, TableOK
    <3>3. handles'[c] # NoHandle
      <4>1. issued + 1 \in Tickets /\ now + TTL \in Nat
        BY <2>0, <2>2 DEF Acquire, TableOK, Tickets
      <4>2. handles'[c] \in Handle
        BY <3>2, <4>1 DEF Handle
      <4> QED BY <4>2
    <3>4. claims' = [claims EXCEPT ![c] = [of |-> s, until |-> now + TTL]]
      <4>1. claim(c)' = [of |-> s, until |-> now + TTL]
        BY <3>2, <3>3
      <4>2. \A b \in Clients \ {c} : claim(b)' = claim(b)
        BY <3>2
      <4> QED BY <4>1, <4>2
    <3> QED BY <3>1, <3>2, <3>4 DEF Contract!ExclusiveNext, Contract!Grant, Contract!Unclaimed
  <2>3. ASSUME NEW c \in Clients, Keepalive(c) PROVE Contract!ExclusiveNext
    <3> DEFINE s == handles[c].step
    <3>1. /\ Owns(c) /\ now <= holders[s].expiresAt /\ UNCHANGED now
          /\ handles' = [handles EXCEPT ![c].expiresAt = now + TTL]
        BY <2>3 DEF Keepalive
    <3>2. handles[c] \in Handle /\ s \in Steps /\ ~closed
        BY <2>0, <3>1 DEF Owns, Handle, Emptied
    <3>3. ~handles[c].released /\ handles[c].expiresAt = holders[s].expiresAt
        BY <3>1, <3>2 DEF Owns, Matched
    <3>4. \A b \in Clients \ {c} : ~Contract!Good(b, s)
        BY <2>1, <3>1, <3>2 DEF Believes, Owns, Matched
    <3>5. claims[c] = [of |-> s, until |-> handles[c].expiresAt] /\ claims[c] # NoHandle
        BY <3>1, <3>2, <3>3 DEF Handle, Owns
    <3>6. claims' = [claims EXCEPT ![c].until = now + TTL]
      <4>1. /\ handles'[c] = [handles[c] EXCEPT !.expiresAt = now + TTL]
            /\ \A b \in Clients \ {c} : handles'[b] = handles[b]
        BY <3>1 DEF TableOK
      <4>2. [handles[c] EXCEPT !.expiresAt = now + TTL] \in Handle
        BY <2>0, <3>2 DEF Handle
      <4>3. claim(c)' = [of |-> s, until |-> now + TTL]
        BY <3>2, <3>3, <4>1, <4>2 DEF Handle
      <4>4. \A b \in Clients \ {c} : claim(b)' = claim(b)
        BY <4>1
      <4>5. claims' = [claims EXCEPT ![c] = [of |-> s, until |-> now + TTL]]
        BY <4>3, <4>4
      <4> QED BY <3>5, <4>5
    <3> QED BY <3>1, <3>3, <3>4, <3>5, <3>6
            DEF Contract!ExclusiveNext, Contract!Extend, Contract!Unclaimed
  <2>4. ASSUME NEW c \in Clients, Release(c) PROVE Contract!ExclusiveNext
    <3>1. UNCHANGED now /\ handles' = [handles EXCEPT ![c] = [handles[c] EXCEPT !.released = TRUE]]
        BY <2>4 DEF Release
    <3>2. handles[c] \in Handle
        BY <2>0, <2>4 DEF Release
    <3>3. claim(c)' = NoHandle /\ \A b \in Clients \ {c} : claim(b)' = claim(b)
        BY <3>1, <3>2 DEF TableOK, Handle
    <3>4. claims' = [claims EXCEPT ![c] = NoHandle]
        BY <3>3
    <3> QED BY <3>1, <3>4 DEF Contract!ExclusiveNext, Contract!GiveUp
  <2>5. CASE Clock
    BY <2>5 DEF Clock, leaseTable, Contract!ExclusiveNext, Contract!Pass
  <2>6. CASE UNCHANGED <<now, handles>>
    BY <2>6
  <2> QED
    BY <2>2, <2>3, <2>4, <2>5, <2>6
       DEF Next, Runtime, TimerFires, Expire, Send, Watch, Receive, LeaveWatchers,
           CloseChannel, Close, vars, leaseTable
<1> QED BY <1>1, <1>2, AlwaysLeaseSound, PTL DEF Spec, ImplementsContract, Contract!ExclusiveSpec

-----------------------------------------------------------------------------
LEMMA TypeInit == Init => TypeOK
<1> SUFFICES ASSUME Init PROVE TypeOK
    OBVIOUS
<1>1. <<>> \in Seq(Steps)
    OBVIOUS
<1>2. closed \in BOOLEAN
    BY Zenon DEF Init
<1> QED BY <1>1, <1>2 DEF Init, TypeOK

LEMMA TypeNext == TypeOK /\ [Next]_vars => TypeOK'
<1> SUFFICES ASSUME TypeOK, [Next]_vars PROVE TypeOK'
    OBVIOUS
<1> USE DEF TypeOK
<1>1. ASSUME NEW c \in Clients, NEW s \in Steps, Acquire(c, s) PROVE TypeOK'
  <2>1. /\ issued + 1 \in Tickets /\ issued + 1 \in 0..MaxTickets
        /\ now + TTL \in Nat /\ firing[s] + 1 \in Nat
    BY <1>1 DEF Acquire, Tickets
  <2>2. /\ [ticket |-> issued + 1, node |-> c, expiresAt |-> now + TTL, armed |-> TRUE] \in Holder
        /\ [step |-> s, ticket |-> issued + 1, expiresAt |-> now + TTL, released |-> FALSE] \in Handle
    BY <2>1 DEF Holder, Handle
  <2> QED BY <1>1, <2>1, <2>2 DEF Acquire
<1>2. ASSUME NEW c \in Clients, Keepalive(c) PROVE TypeOK'
  <2> DEFINE s == handles[c].step
  <2>1. handles[c] \in Handle /\ s \in Steps /\ holders[s] \in Holder /\ now + TTL \in Nat
    BY <1>2 DEF Keepalive, Owns, Held, Handle
  <2>2. /\ [holders[s] EXCEPT !.expiresAt = now + TTL, !.armed = TRUE] \in Holder
        /\ [handles[c] EXCEPT !.expiresAt = now + TTL] \in Handle
    BY <2>1 DEF Holder, Handle
  <2>3. /\ holders' = [holders EXCEPT ![s] = [holders[s] EXCEPT !.expiresAt = now + TTL,
                                                               !.armed = TRUE]]
        /\ handles' = [handles EXCEPT ![c] = [handles[c] EXCEPT !.expiresAt = now + TTL]]
        /\ UNCHANGED <<now, firing, issued, delivery, closed>>
    BY <1>2 DEF Keepalive
  <2> QED BY <2>2, <2>3 DEF delivery
<1>3. ASSUME NEW c \in Clients, Release(c) PROVE TypeOK'
  <2>1. handles[c] \in Handle
    BY <1>3 DEF Release
  <2>2. [handles[c] EXCEPT !.released = TRUE] \in Handle
    BY <2>1 DEF Handle
  <2>3. handles' = [handles EXCEPT ![c] = [handles[c] EXCEPT !.released = TRUE]]
    BY <1>3 DEF Release
  <2> QED BY <1>3, <2>2, <2>3 DEF Release, delivery
<1>4. ASSUME NEW s \in Steps, TimerFires(s) PROVE TypeOK'
  <2>1. holders[s] \in Holder
    BY <1>4 DEF TimerFires, Lapsed, Held
  <2>2. [holders[s] EXCEPT !.armed = FALSE] \in Holder
    BY <2>1 DEF Holder
  <2>3. holders' = [holders EXCEPT ![s] = [holders[s] EXCEPT !.armed = FALSE]]
    BY <1>4 DEF TimerFires
  <2> QED BY <1>4, <2>2, <2>3 DEF TimerFires, delivery
<1>5. ASSUME NEW s \in Steps, Expire(s) PROVE TypeOK'
  <2>1. firing' \in [Steps -> Nat]
    BY <1>5 DEF Expire
  <2>2. holders' \in [Steps -> Holder \union {NoHolder}]
    BY <1>5 DEF Expire
  <2>3. sending' \subseteq [step : Steps, ticket : Tickets, to : SUBSET Watchers]
    BY <1>5 DEF Expire, Listening, Lapsed, Held, Holder
  <2> QED BY <1>5, <2>1, <2>2, <2>3 DEF Expire
<1>6. ASSUME NEW d \in sending, NEW w \in Watchers, Send(d, w) PROVE TypeOK'
  <2>1. d \in [step : Steps, ticket : Tickets, to : SUBSET Watchers]
    OBVIOUS
  <2>2. [d EXCEPT !.to = @ \ {w}] \in [step : Steps, ticket : Tickets, to : SUBSET Watchers]
    BY <2>1
  <2>3. sending' \subseteq [step : Steps, ticket : Tickets, to : SUBSET Watchers]
    BY <1>6, <2>2 DEF Send
  <2>4. Append(inbox[w], d.step) \in Seq(Steps)
    BY <2>1
  <2>5. inbox' \in [Watchers -> Seq(Steps)]
    BY <1>6, <2>4 DEF Send
  <2> QED BY <1>6, <2>3, <2>5 DEF Send, leaseTable
<1>7. ASSUME NEW w \in Watchers, Receive(w) PROVE TypeOK'
  <2>1. Tail(inbox[w]) \in Seq(Steps)
    BY <1>7 DEF Receive
  <2> QED BY <1>7, <2>1 DEF Receive, leaseTable
<1>8. ASSUME NEW w \in Watchers, Watch(w) \/ LeaveWatchers(w) \/ CloseChannel(w) PROVE TypeOK'
    BY <1>8 DEF Watch, LeaveWatchers, CloseChannel, leaseTable
<1>9. CASE Close
    BY <1>9 DEF Close, delivery
<1>10. CASE Clock
    BY <1>10 DEF Clock, leaseTable, delivery
<1>11. CASE UNCHANGED vars
    BY <1>11 DEF vars
<1> QED
    BY <1>1, <1>2, <1>3, <1>4, <1>5, <1>6, <1>7, <1>8, <1>9, <1>10, <1>11 DEF Next, Runtime

(* Every variable of the lease has its type.                               *)
THEOREM LeaseTypeCorrect == Spec => []TypeOK
BY TypeInit, TypeNext, PTL DEF Spec

(* Only expire puts a new lease among the events, the one it has just      *)
(* removed for being past its deadline; the ticket ties it to the handle.  *)
THEOREM ReleaseIsSilent == Spec => SilentRelease
<1> DEFINE Silent == \A d \in sending', c \in Clients :
                        (\A e \in sending : e.ticket # d.ticket)
                        /\ handles[c] # NoHandle /\ handles[c].ticket = d.ticket
                            => ~handles[c].released /\ now >= handles[c].expiresAt
<1>1. TypeOK /\ LeaseSound /\ [Next]_vars => [Silent]_vars
  <2> SUFFICES ASSUME TypeOK, LeaseSound, [Next]_vars,
                      NEW d \in sending', NEW c \in Clients,
                      \A e \in sending : e.ticket # d.ticket,
                      handles[c] # NoHandle, handles[c].ticket = d.ticket
               PROVE  ~handles[c].released /\ now >= handles[c].expiresAt
    OBVIOUS
  <2>1. ASSUME NEW s \in Steps, Expire(s)
        PROVE  ~handles[c].released /\ now >= handles[c].expiresAt
    <3>1. Lapsed(s) /\ d.ticket = holders[s].ticket
        BY <2>1 DEF Expire
    <3> QED BY <3>1 DEF LeaseSound, Matched, Lapsed
  <2>2. ASSUME NEW a \in sending, NEW w \in Watchers, Send(a, w) PROVE FALSE
    <3>1. a \in [step : Steps, ticket : Tickets, to : SUBSET Watchers]
        BY DEF TypeOK
    <3>2. d \in sending \/ d = [a EXCEPT !.to = @ \ {w}]
        BY <2>2 DEF Send
    <3> QED BY <3>1, <3>2
  <2>3. CASE UNCHANGED sending
    BY <2>3
  <2> QED
    BY <2>1, <2>2, <2>3
       DEF Next, Runtime, Acquire, Keepalive, Release, TimerFires, Watch, Receive, LeaveWatchers,
           CloseChannel, Close, Clock, vars, delivery
<1> QED BY <1>1, LeaseTypeCorrect, AlwaysLeaseSound, PTL DEF Spec, SilentRelease
=============================================================================
