------------------------------ MODULE ChatPage ------------------------------
(***************************************************************************)
(* The conversations: pages/chat/ChatPage.tsx over its REST calls and the  *)
(* events of the "chat" subscription.                                      *)
(*                                                                         *)
(* server.log is what each conversation holds, server.convs the            *)
(* conversations that exist, and server.events the realtime events that    *)
(* are published and not delivered yet, in order.  A message on the screen *)
(* has the id <<"local", m>> until the answer of its send names it.        *)
(***************************************************************************)
EXTENDS ChatStore

CONSTANTS Msgs,
          MaxEvents       \* bound on the events in flight

ItemStatus == {"sending", "sent", "failed"}
Items == [id : {"local", "saved"} \X Msgs, status : ItemStatus]

ChatState ==
  [ items : UNION {[1..n -> Items] : n \in 0..2 * Cardinality(Msgs)},
    active : Convs \cup {Nil}, convs : SUBSET Convs,
    composer : {"idle", "sending", "failed"}, switching : BOOLEAN ]

GetMessages(c) == [op |-> "messages", stage |-> "sent", conv |-> c]

ChatMounted ==
  Mounting("chat",
           [items |-> <<>>, active |-> Nil, convs |-> {}, composer |-> "idle",
            switching |-> FALSE],
           [log |-> [c \in Convs |-> <<>>], convs |-> {FirstConv},
            events |-> <<>>, failed |-> {}],
           SetToBag({Query("load")}))

Saved(m) == [id |-> <<"saved", m>>, status |-> "sent"]
Shown(id) == \E i \in DOMAIN page.items : page.items[i].id = id
Marked(id, s) == [i \in DOMAIN page.items |->
                    IF page.items[i].id = id THEN [page.items[i] EXCEPT !.status = s]
                    ELSE page.items[i]]
\* The messages that were written; a new one has an id of its own.
Used == (UNION {ToSet(server.log[c]) : c \in Convs}) \cup {r.m : r \in Pending("send")}
        \cup {page.items[i].id[2] : i \in DOMAIN page.items}

-----------------------------------------------------------------------------
(* What the page offers.                                                    *)

ConversationOffered(c) == c \in page.convs
\* The panel of new chats lists the members and teams that came with the load.
NewChatOffered == page.convs # {}
ComposerOffered ==
  page.active # Nil /\ ~page.switching /\ page.composer # "sending"
RetryOffered == page.composer = "failed"

\* A connection that is stale or gone is degraded, and a degraded one is said to be live.
RealtimeStatuses == {"idle", "connecting", "connected", "reconnecting", "stale", "disconnected"}
RealtimeState(status) ==
  CASE status = "connected" -> "live"
    [] status \in {"stale", "disconnected"} -> "degraded"
    [] OTHER -> status

PageNotice(status) ==
  LET realtime == RealtimeState(status)
  IN  IF page.switching THEN "switching"
      ELSE IF page.composer = "failed" THEN "composer-failed"
      ELSE IF realtime = "degraded" THEN "live" ELSE realtime

-----------------------------------------------------------------------------
(* Loading and switching.                                                   *)

\* loadChatRouteData: the list first, then the messages of its head.
ChatLoaded(r, ok) ==
  /\ r.op \in {"load", "first"} /\ Ends(r, ok)
  /\ IF ok /\ r.op = "load"
     THEN /\ wire' = BagAdd(Settled(r), Joined(Query("first"), [list |-> r.list]))
          /\ UNCHANGED page
     ELSE /\ wire' = Settled(r)
          /\ page' = IF ~ok THEN page
                     ELSE [page EXCEPT !.convs = r.list, !.active = FirstConv,
                                       !.items = r.items]
  /\ UNCHANGED <<route, server>>

\* switchConversation up to its await.  Selecting the conversation that is active does
\* nothing; for a new chat (active) the one when its handler was created counts.
Switching(p, c) == [p EXCEPT !.switching = TRUE, !.active = c]

SwitchConversation(c) ==
  /\ ConversationOffered(c) /\ c # page.active /\ Room(1)
  /\ page' = Switching(page, c)
  /\ Ask(GetMessages(c))
  /\ UNCHANGED <<route, server>>

\* The page that arrives is shown whichever conversation is active by then, and
\* the first of two switches to end declares both ended.
MessagesLoaded(r, ok) ==
  /\ r.op = "messages" /\ Ends(r, ok)
  /\ page' = [page EXCEPT !.switching = FALSE,
                          !.items = IF ok THEN r.items ELSE @]
  /\ wire' = Settled(r)
  /\ UNCHANGED <<route, server>>

OpenDm(c) ==
  /\ NewChatOffered /\ Room(1)
  /\ Ask([op |-> "create", stage |-> "sent", conv |-> c, active |-> c = page.active])
  /\ UNCHANGED <<route, page, server>>

ConversationCreated(r, ok) ==
  /\ r.op = "create" /\ Ends(r, ok)
  /\ LET listed == [page EXCEPT !.convs = @ \cup {r.conv}]
     IN IF ~ok THEN page' = page /\ wire' = Settled(r)
        ELSE IF r.active THEN page' = listed /\ wire' = Settled(r)
        ELSE /\ page' = Switching(listed, r.conv)
             /\ wire' = BagAdd(Settled(r), GetMessages(r.conv))
  /\ UNCHANGED <<route, server>>

ConversationsLoaded(r, ok) ==
  /\ r.op = "convs" /\ Ends(r, ok)
  /\ page' = [page EXCEPT !.convs = IF ok THEN r.list ELSE @]
  /\ wire' = Settled(r)
  /\ UNCHANGED <<route, server>>

-----------------------------------------------------------------------------
(* The composer.                                                            *)

\* The message is on the screen before it is sent.
SendMessage(m) ==
  /\ ComposerOffered
  /\ Room(1)
  /\ page' = [page EXCEPT !.composer = "sending",
                !.items = Append(@, [id |-> <<"local", m>>, status |-> "sending"])]
  /\ Ask([op |-> "send", stage |-> "sent", conv |-> page.active, m |-> m])
  /\ UNCHANGED <<route, server>>

\* Mutant: only the optimistic message is replaced, and not its delta.
ReplacedLocal(m) ==
  Append(Selected(page.items, {i \in DOMAIN page.items : page.items[i].id # <<"local", m>>}), Saved(m))

\* The saved message takes the place of the optimistic one and of a delta.
Replaced(m) ==
  Append(Selected(page.items, {i \in DOMAIN page.items : page.items[i].id[2] # m}), Saved(m))

MessageSent(r, ok) ==
  /\ r.op = "send" /\ Ends(r, ok)
  /\ page' = IF ok
             THEN [page EXCEPT !.items = Replaced(r.m), !.composer = "idle"]
             ELSE [page EXCEPT !.items = Marked(<<"local", r.m>>, "failed"),
                               !.composer = "failed"]
  /\ wire' = Settled(r)
  /\ UNCHANGED <<route, server>>

\* handleRetry sends nothing again.
RetryComposer ==
  /\ RetryOffered
  /\ page' = [page EXCEPT !.composer = "idle"]
  /\ UNCHANGED <<route, server, wire>>

-----------------------------------------------------------------------------
(* Events.                                                                  *)

ChatDelta(c, m) ==
  IF c # page.active
  THEN Room(1) /\ Ask(Query("convs")) /\ UNCHANGED page
  ELSE /\ page' = IF Shown(<<"saved", m>>) THEN page
                  ELSE [page EXCEPT !.items = Append(@, Saved(m))]
       /\ UNCHANGED wire

\* A failed delivery also ends the state of a composer that is sending.
ChatStatus(m) ==
  /\ page' = [page EXCEPT !.items = Marked(<<"saved", m>>, "failed"),
                          !.composer = "failed"]
  /\ UNCHANGED wire

ChatEvent ==
  /\ server.events # <<>>
  /\ LET e == Head(server.events)
     IN IF e.type = "chat.delta" THEN ChatDelta(e.conv, e.m) ELSE ChatStatus(e.m)
  /\ server' = [server EXCEPT !.events = Tail(@)]
  /\ UNCHANGED route

\* The events of a time without a connection are lost.
ChatEventsLost ==
  /\ server.events # <<>>
  /\ server' = [server EXCEPT !.events = <<>>]
  /\ UNCHANGED <<route, page, wire>>

-----------------------------------------------------------------------------
(* The backend.                                                             *)

Published(e) == Append(server.events, e)
Posted(c, m) ==
  /\ Len(server.events) < MaxEvents
  /\ server' = [server EXCEPT !.log[c] = Append(@, m),
       !.events = Published([type |-> "chat.delta", conv |-> c, m |-> m])]

Stored(c) == [i \in DOMAIN server.log[c] |-> Saved(server.log[c][i])]

ServeChat(r) ==
  /\ r.stage = "sent"
  /\ \/ /\ r.op \in {"load", "convs"}
        /\ Reply(r, AnsweredWith(r, [list |-> server.convs]))
        /\ UNCHANGED server
     \/ /\ r.op = "first"
        /\ Reply(r, AnsweredWith(r, [items |-> Stored(FirstConv)]))
        /\ UNCHANGED server
     \/ /\ r.op = "messages"
        /\ Reply(r, AnsweredWith(r, [items |-> Stored(r.conv)]))
        /\ UNCHANGED server
     \/ /\ r.op = "create"
        /\ server' = [server EXCEPT !.convs = @ \cup {r.conv}]
        /\ Reply(r, Answered(r))
     \/ /\ r.op = "send"
        /\ Posted(r.conv, r.m)
        /\ Reply(r, Answered(r))
  /\ UNCHANGED <<route, page>>

\* Somebody else writes, or the delivery to an assistant fails.
OthersPost(c, m) ==
  /\ c \in server.convs
  /\ Posted(c, m)
  /\ UNCHANGED <<route, page, wire>>

DeliveryFails(c) ==
  /\ server.log[c] # <<>> /\ Len(server.events) < MaxEvents
  /\ LET m == Head(server.log[c])
     IN /\ m \notin server.failed
        /\ server' = [server EXCEPT !.failed = @ \cup {m},
             !.events = Published([type |-> "chat.status", m |-> m])]
  /\ UNCHANGED <<route, page, wire>>

ChatAnswer(r) ==
  \E ok \in BOOLEAN : \/ ChatLoaded(r, ok) \/ MessagesLoaded(r, ok)
                      \/ ConversationCreated(r, ok) \/ MessageSent(r, ok)
                      \/ ConversationsLoaded(r, ok)

ChatNext ==
  \/ \E c \in Convs : \/ SwitchConversation(c) \/ OpenDm(c) \/ DeliveryFails(c)
  \/ \E m \in Msgs \ Used : SendMessage(m) \/ \E c \in Convs : OthersPost(c, m)
  \/ RetryComposer \/ ChatEvent \/ ChatEventsLost
  \/ \E r \in Open : ServeChat(r) \/ ChatAnswer(r)

-----------------------------------------------------------------------------
\* The composer is locked, the notice says that a conversation is loading, and a
\* message is "sending" only while the request they wait for is open: overlapping switches,
\* a delivery failure reported while the next message is sent, and answers for
\* a conversation left meanwhile included.
ChatBusyMeansWaiting ==
  /\ page.composer = "sending" => Pending("send") # {}
  /\ (\E status \in RealtimeStatuses : PageNotice(status) = "switching") => Pending("messages") # {}
  /\ \A i \in DOMAIN page.items : page.items[i].status = "sending" =>
       \E r \in Pending("send") : page.items[i].id = <<"local", r.m>>

\* A message is on the screen once under one id, although it can come in the
\* page of a conversation, as an event and in the answer of its own send; and
\* one that is shown as saved is held by the backend.
ChatShowsOnce ==
  route = "chat" =>
    /\ \A i, j \in DOMAIN page.items : page.items[i].id = page.items[j].id => i = j
    /\ \A i \in DOMAIN page.items : page.items[i].id[1] = "saved" =>
         \E c \in Convs : page.items[i].id[2] \in ToSet(server.log[c])
=============================================================================
