--------------------------- MODULE RealtimeSocket ---------------------------
(***************************************************************************)
(* The websocket of the tab: the transport in app/providers/               *)
(* AppProviders.tsx with realtime/realtime-client.ts and the subscription  *)
(* of features/notifications/useNotificationRealtime.ts, against the hub   *)
(* of backend/go/internal/realtime and its handler.                        *)
(*                                                                         *)
(* wire holds the sockets, each with the frames on their way to the        *)
(* browser.  A socket that was closed, or dropped, delivers nothing more,  *)
(* and reports it in a later task.  The families of the subscription are   *)
(* the only events modelled.                                               *)
(***************************************************************************)
EXTENDS ChatStore

CONSTANTS SocketIds, Pathnames,
          MaxSockets,     \* bound on the sockets that are not gone
          MaxPublished,      \* bound on the events published
          ReplayCapacity  \* of the hub

ASSUME SocketAssumption == Nil \notin SocketIds

Listeners == {"notifications", "page"}
Numbers == 0 .. MaxPublished

SocketState ==
  [ path : Pathnames, listeners : SUBSET Listeners,
    current : SocketIds \cup {Nil},                        \* wsRef
    timer : BOOLEAN, intentional : BOOLEAN,                \* reconnectTimerRef
    status : {"connecting", "connected", "reconnecting"},  \* of RealtimeClient
    cursor : Numbers \cup {Nil}, outbound : BOOLEAN,       \* pendingOutbound
    items : SUBSET Convs ]                                 \* of the notification store

Socket(id, cursor) ==
  [op |-> "socket", id |-> id, stage |-> "connecting", from |-> cursor, frames |-> <<>>]
FreeIds == SocketIds \ {s.id : s \in Open}

SocketMounted(p, id) ==
  Mounting("socket",
           [path |-> p, listeners |-> Listeners, current |-> id, timer |-> FALSE,
            intentional |-> FALSE, status |-> "connecting", cursor |-> Nil,
            outbound |-> FALSE, items |-> {}],
           [log |-> <<>>],
           SetToBag({Socket(id, Nil)}))

-----------------------------------------------------------------------------
\* Mutant: the socket that wsRef holds is left open.
LeftOpen == wire

\* transport.close and the first steps of transport.open: what wsRef holds is
\* closed, which it reports later.
Closing == Become(wire, [s \in {x \in Open : x.id = page.current} |->
                           [s EXCEPT !.stage = "closing", !.frames = <<>>]])

\* transport.open(cursor) of a state p of the client.
Opening(p) ==
  \E id \in FreeIds :
     /\ page' = [p EXCEPT !.intentional = FALSE, !.timer = FALSE, !.current = id]
     /\ wire' = BagAdd(Closing, Socket(id, p.cursor))

\* Another pathname: the effect disconnects the client, which forgets every
\* listener and what it had to send, and connects it again; the new page
\* subscribes when it is mounted.
Navigate(p) ==
  /\ p # page.path /\ BagCardinality(wire) < MaxSockets
  /\ Opening([page EXCEPT !.path = p, !.listeners = {"page"}, !.outbound = FALSE,
                          !.status = "connecting"])
  /\ UNCHANGED <<route, server>>

\* RealtimeClient.reconnect, from the timer of scheduleReconnect.
TimerFires ==
  /\ page.timer /\ BagCardinality(wire) < MaxSockets
  /\ Opening([page EXCEPT !.status = "reconnecting"])
  /\ UNCHANGED <<route, server>>

\* RealtimeClient.send.
SendFrame ==
  /\ page' = [page EXCEPT !.outbound =
                @ \/ ~\E s \in Open : s.id = page.current /\ s.stage = "open"]
  /\ UNCHANGED <<route, server, wire>>

EventFrame(n) == [n |-> n, conv |-> server.log[n]]
LastEvent == Len(server.log)
Oldest == IF LastEvent <= ReplayCapacity THEN 1 ELSE LastEvent - ReplayCapacity + 1
Replayed(cursor) == [i \in 1 .. (LastEvent - cursor) |-> EventFrame(cursor + i)]

\* Subscribe: a cursor in the window replays what is after it; the handshake
\* goes first and carries the cursor of the last event of the backlog.
InWindow(cursor) == cursor # Nil /\ cursor > 0 /\ LastEvent > 0 /\ cursor >= Oldest - 1
Handshake == [n |-> LastEvent, conv |-> Nil]
Accepted(s) == [s EXCEPT !.stage = "open",
                         !.frames = <<Handshake>> \o (IF InWindow(s.from) THEN Replayed(s.from)
                                                                         ELSE <<>>)]

\* The hub accepts the subscription and the browser reports the socket open.
SocketOpens(s) ==
  /\ s.stage = "connecting"
  /\ page' = [page EXCEPT !.status = "connected", !.outbound = FALSE]
  /\ wire' = BagAdd(Settled(s), Accepted(s))
  /\ UNCHANGED <<route, server>>

\* RealtimeClient.dispatch.
SocketMessage(s) ==
  /\ s.stage = "open" /\ s.frames # <<>>
  /\ LET f == Head(s.frames)
     IN page' = [page EXCEPT !.status = "connected", !.cursor = f.n,
                             !.items = IF f.conv # Nil /\ "notifications" \in page.listeners
                                       THEN @ \cup {f.conv} ELSE @]
  /\ wire' = BagAdd(Settled(s), [s EXCEPT !.frames = Tail(@)])
  /\ UNCHANGED <<route, server>>

\* The network or the backend ends a connection, or refuses it.
SocketDrops(s) ==
  /\ s.stage # "closing"
  /\ wire' = BagAdd(Settled(s), [s EXCEPT !.stage = "closing", !.frames = <<>>])
  /\ UNCHANGED <<route, page, server>>

\* The listener of close: it schedules a reconnect unless the close was meant,
\* which is no longer known of a socket that was replaced.
SocketClosed(s) ==
  /\ s.stage = "closing"
  /\ page' = [page EXCEPT !.current = IF @ = s.id THEN Nil ELSE @,
                          !.timer = @ \/ ~page.intentional]
  /\ wire' = Settled(s)
  /\ UNCHANGED <<route, server>>

\* Publish: into the history, and to every subscription.
Publish(c) ==
  /\ LastEvent < MaxPublished
  /\ server' = [log |-> Append(server.log, c)]
  /\ wire' = Become(wire, [s \in {x \in Open : x.stage = "open"} |->
                          [s EXCEPT !.frames = Append(@, [n |-> LastEvent + 1, conv |-> c])]])
  /\ UNCHANGED <<route, page>>

SocketNext ==
  \/ TimerFires \/ SendFrame
  \/ \E p \in Pathnames : Navigate(p)
  \/ Publish(FirstConv)
  \/ \E s \in Open : SocketOpens(s) \/ SocketMessage(s) \/ SocketDrops(s) \/ SocketClosed(s)

-----------------------------------------------------------------------------
Live == {s \in Open : s.stage # "closing"}

\* The tab has one socket at most that is not closed, and it is the one it
\* would send on and close next.
OneLiveSocket == route = "socket" => \A s \in Live : s.id = page.current

\* The tab is never without a socket and without a timer that opens one.
NeverGivesUp == route = "socket" => page.current # Nil \/ page.timer
=============================================================================
