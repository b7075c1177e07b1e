---------------------------- MODULE TerminalPanel ----------------------------
(***************************************************************************)
(* The terminal panel: features/terminal/terminal-store.ts driven by       *)
(* pages/terminal/terminal-runtime.ts, over POST attach and the events of  *)
(* the websocket.                                                          *)
(*                                                                         *)
(* The output of a session is its chunks 1, 2, ...; page.text holds the    *)
(* chunks that the panel shows, in order, each with how it came: in the    *)
(* snapshot of an HTTP answer or as a delta, which say their sequence, or  *)
(* in a websocket snapshot, which does not.  A session is selected by its  *)
(* terminal id.  Cols, rows, follow mode, the process and intelligence     *)
(* status are display only.                                                *)
(***************************************************************************)
EXTENDS WebTab

CONSTANTS Sessions,
          Talking,          \* the sessions that write output (bound)
          MaxOut,           \* bound on the chunks of a session
          MaxInbox          \* bound on the websocket events in flight

ASSUME TerminalAssumption ==
  {MaxOut, MaxInbox} \subseteq Nat /\ Talking \subseteq Sessions /\ Nil \notin Sessions

Chunks == [t : Sessions, n : 1..MaxOut, by : {"seq", "ws"}]

TerminalState ==
  [ active : Sessions \cup {Nil}, session : Sessions \cup {Nil},
    text : Seq(Chunks), lastSeq : 0..MaxOut,
    conn : {"idle", "connecting", "attached", "error"} ]

\* attachSession: the answer tells the output that the session has by then.
Attach(t, for) == [op |-> "attach", stage |-> "sent", t |-> t, for |-> for]

NoOutput == [active |-> Nil, session |-> Nil, text |-> <<>>, lastSeq |-> 0,
             conn |-> "idle"]

\* The boot terminal is attached when the page is mounted.
TerminalMounted(t) ==
  Mounting("terminal",
           [NoOutput EXCEPT !.active = t, !.conn = "connecting"],
           [out |-> [s \in Sessions |-> 0], filter |-> Nil, relay |-> TRUE,
            inbox |-> <<>>, asks |-> <<>>],
           SetToBag({Attach(t, "panel")}))

-----------------------------------------------------------------------------
(* The store: one operator per transition of the panel state.               *)

Buffer(t, seq, by) == [n \in 1..seq |-> [t |-> t, n |-> n, by |-> by]]

BeginAttach(p, t) == [p EXCEPT !.active = t, !.conn = "connecting"]

SupportsTerminal(p, t) == p.active \in {Nil, t}

\* covers is what the buffer holds, seq what the message says of it.
ApplySnapshot(p, t, seq, covers, by) ==
  IF SupportsTerminal(p, t) /\ seq >= p.lastSeq
  THEN [p EXCEPT !.active = t, !.conn = "attached", !.lastSeq = seq,
                 !.text = Buffer(t, covers, by)]
  ELSE p

\* The output of another terminal is dropped only if that one is still the
\* active terminal when the answer arrives.
ResolveAttach(p, t, seq) ==
  LET base == IF p.active \in {Nil, t} THEN p
              ELSE NoOutput
      met  == [base EXCEPT !.active = t, !.session = t, !.conn = "attached"]
  IN ApplySnapshot(met, t, seq, seq, "seq")

FailAttach(p) == [p EXCEPT !.conn = "error"]

\* Mutant: a delta that is replayed is shown again.
ApplyEachDelta(p, t, n) ==
  IF SupportsTerminal(p, t)
  THEN [p EXCEPT !.active = t, !.conn = "attached", !.lastSeq = n,
                 !.text = Append(@, [t |-> t, n |-> n, by |-> "seq"])]
  ELSE p

ApplyDelta(p, t, n) ==
  IF SupportsTerminal(p, t) /\ n > p.lastSeq
  THEN [p EXCEPT !.active = t, !.conn = "attached", !.lastSeq = n,
                 !.text = Append(@, [t |-> t, n |-> n, by |-> "seq"])]
  ELSE p

\* A status that names any terminal sets the connection of the panel.
ApplyStatus(p) == [p EXCEPT !.conn = "attached"]

\* Mutant: the sequence is set to what stands for none elsewhere.
ClearToNone(p) == [p EXCEPT !.text = <<>>, !.lastSeq = -1]

ClearOutput(p) == [p EXCEPT !.text = <<>>, !.lastSeq = 0]

-----------------------------------------------------------------------------
(* The user.                                                                *)

AttachTo(t, p) ==
  /\ Room(1)
  /\ page' = BeginAttach(p, t)
  /\ Ask(Attach(t, "panel"))

SelectSession(t) ==
  /\ AttachTo(t, page)
  /\ UNCHANGED <<route, server>>

\* The button attaches again, or retries after an error: both to active.
AttachAgain ==
  /\ page.active # Nil
  /\ AttachTo(page.active, page)
  /\ UNCHANGED <<route, server>>

ClickClear ==
  /\ page.text # <<>>
  /\ page' = ClearOutput(page)
  /\ UNCHANGED <<route, server, wire>>

InputShown == page.text # <<>> \/ page.conn = "attached"

SendInput ==
  /\ InputShown /\ page.session # Nil /\ Room(1)
  /\ Ask([op |-> "input", stage |-> "sent", t |-> page.session, for |-> "input"])
  /\ UNCHANGED <<route, page, server>>

\* 350 ms after a line of input was accepted, the session it was for is attached
\* again, whatever session is selected by then.
InputSent(r, ok) ==
  /\ r.op = "input" /\ Ends(r, ok)
  /\ page' = IF ok THEN BeginAttach(page, r.t) ELSE page
  /\ wire' = IF ok THEN BagAdd(Settled(r), Attach(r.t, "panel")) ELSE Settled(r)
  /\ UNCHANGED <<route, server>>

-----------------------------------------------------------------------------
(* Answers.                                                                 *)

\* The stream is asked for all it holds (afterSeq is 0).
AttachAnswered(r, ok) ==
  /\ r.for = "panel" /\ Ends(r, ok)
  /\ IF ok THEN /\ server.asks = <<>>
                /\ server' = [server EXCEPT !.asks = <<[t |-> r.t, after |-> 0]>>]
                /\ page' = ResolveAttach(page, r.t, r.seq)
           ELSE /\ page' = FailAttach(page)
                /\ UNCHANGED server
  /\ wire' = Settled(r)
  /\ UNCHANGED route

\* requestResync resolves into a fresh state, whatever is shown by then.
ResyncAnswered(r, ok) ==
  /\ r.for = "resync" /\ Ends(r, ok)
  /\ page' = IF ok THEN ResolveAttach(NoOutput, r.t, r.seq) ELSE page
  /\ wire' = Settled(r)
  /\ UNCHANGED <<route, server>>

-----------------------------------------------------------------------------
(* Events.                                                                  *)

\* The status of some terminal, one that is not shown included.
StatusEvent ==
  /\ page.conn # "attached"
  /\ page' = ApplyStatus(page)
  /\ UNCHANGED <<route, server, wire>>

DeltaGap(e) ==
  /\ e.type = "delta" /\ page.active = e.t
  /\ page.lastSeq > 0 /\ e.n > page.lastSeq + 1

NeedsResync(e) == DeltaGap(e) \/ (e.type = "handshake" /\ e.resync)

\* A snapshot event does not carry the sequence it covers: it counts as 0.
HandleTerminalEvent ==
  /\ server.inbox # <<>>
  /\ LET e == Head(server.inbox)
         rest == [server EXCEPT !.inbox = Tail(@)]
     IN IF NeedsResync(e) /\ page.active # Nil
        THEN /\ Room(1)
             /\ Ask(Attach(IF e.type = "delta" THEN e.t ELSE page.active, "resync"))
             /\ server' = rest
             /\ UNCHANGED page
        ELSE /\ server' = IF e.type = "handshake" /\ page.active \in Sessions
                          THEN [rest EXCEPT !.asks =
                                  <<[t |-> page.active, after |-> page.lastSeq]>>]
                          ELSE rest
             /\ page' = CASE e.type = "snapshot" ->
                               ApplySnapshot(page, e.t, 0, e.n, "ws")
                          [] e.type = "delta" -> ApplyDelta(page, e.t, e.n)
                          [] OTHER -> page
             /\ UNCHANGED wire
  /\ UNCHANGED route

-----------------------------------------------------------------------------
(* The backend.                                                             *)

Event(type, t, n) == [type |-> type, t |-> t, n |-> n]
InboxRoom(n) == Len(server.inbox) + n <= MaxInbox

\* A chunk that comes between two relays of the connection is not delivered.
Produce(t) ==
  LET n == server.out[t] + 1
      live == server.relay /\ server.filter \in {Nil, t}
  IN /\ server.out[t] < MaxOut /\ InboxRoom(1)
     /\ server' = [server EXCEPT !.out[t] = n,
          !.inbox = IF live THEN Append(@, Event("delta", t, n)) ELSE @]
     /\ UNCHANGED <<route, page, wire>>

\* terminal.attach on the websocket: the relay stops, the buffer and the chunks
\* after the one asked for are written.
ServeStream ==
  /\ server.asks # <<>>
  /\ LET a == Head(server.asks)
         n == server.out[a.t]
         replay == [i \in 1..(IF n > a.after THEN n - a.after ELSE 0) |->
                      Event("delta", a.t, a.after + i)]
         sent == <<Event("snapshot", a.t, n)>> \o replay
     IN /\ InboxRoom(Len(sent))
        /\ server' = [server EXCEPT !.asks = Tail(@), !.relay = FALSE,
                        !.filter = a.t, !.inbox = @ \o sent]
  /\ UNCHANGED <<route, page, wire>>

\* ... then the connection subscribes again, from the head of the hub.
Resubscribe ==
  /\ ~server.relay
  /\ server' = [server EXCEPT !.relay = TRUE]
  /\ UNCHANGED <<route, page, wire>>

\* The socket is replaced: inside the window of the hub the deltas under way
\* are replayed, outside it they are lost and the handshake says so.
Reconnected(resync) ==
  /\ LET kept == IF resync THEN <<>>
                 ELSE Selected(server.inbox,
                               {i \in DOMAIN server.inbox : server.inbox[i].type = "delta"})
         hello == [type |-> "handshake", resync |-> resync]
     IN /\ \A i \in DOMAIN server.inbox : server.inbox[i].type # "handshake"
        /\ server' = [server EXCEPT !.relay = TRUE, !.filter = Nil, !.asks = <<>>,
                                    !.inbox = <<hello>> \o kept]
  /\ InboxRoom(1)
  /\ UNCHANGED <<route, page, wire>>

ServeTerminal(r) ==
  /\ r.stage = "sent"
  /\ Reply(r, IF r.op = "input" THEN Answered(r)
              ELSE AnsweredWith(r, [seq |-> server.out[r.t]]))
  /\ UNCHANGED <<route, page, server>>

TerminalAnswer(r) ==
  \E ok \in BOOLEAN : \/ InputSent(r, ok) \/ AttachAnswered(r, ok)
                      \/ ResyncAnswered(r, ok)

TerminalNext ==
  \/ \E t \in Sessions : SelectSession(t)
  \/ \E t \in Talking : Produce(t)
  \/ AttachAgain \/ ClickClear \/ SendInput
  \/ StatusEvent \/ HandleTerminalEvent
  \/ ServeStream \/ Resubscribe
  \/ \E b \in BOOLEAN : Reconnected(b)
  \/ \E r \in Open : ServeTerminal(r) \/ TerminalAnswer(r)

-----------------------------------------------------------------------------
\* The panel says "connecting" only while an attach is under way, however
\* attaches of several terminals, resyncs, failures and events overlap.
TerminalBusyMeansWaiting ==
  page.conn = "connecting" => \E r \in Open : r.for = "panel"

\* A live delta follows what it is shown after without a hole and without a
\* repetition, unless that came in a websocket snapshot: although chunks are
\* lost while the stream changes over, replayed from the first one on, and
\* sent again after a reconnect.
DeltasFollowOn ==
  route = "terminal" =>
    \A i \in 1..Len(page.text) - 1 :
      LET a == page.text[i] b == page.text[i + 1]
      IN (a.t = b.t /\ a.by # "ws") => b.n = a.n + 1
=============================================================================
