------------------------------ MODULE ChatStore ------------------------------
(***************************************************************************)
(* The chat store of features/chat/chat-store.ts, with a caller that may   *)
(* call any of its operations at any time.  Messages are numbered as the   *)
(* server stores them, and one that is sent has a temporary id until its   *)
(* call ends.  Their delta reaches the store over the realtime connection, *)
(* in order and whether or not the call of the sender has ended.           *)
(***************************************************************************)
EXTENDS WebTab

\* The conversations of the workspace, which other parts of the tab know too.
CONSTANTS Convs,
          FirstConv,   \* the conversation that heads the list
          Rooms,       \* the conversations where more than Convs are looked at
          MaxMessages

ASSUME FirstConvAssumption == FirstConv \in Convs

\* server: the conversation of each message, and the deltas that are under way.
Item == [temp : BOOLEAN, id : 1..MaxMessages, status : {"sending", "sent", "failed"}]

StoreState ==
  [ listed : BOOLEAN, active : Convs \cup {Nil}, messages : Seq(Item),
    older : BOOLEAN,                       \* nextBeforeId is there
    unread : [Convs -> 0..MaxMessages],    \* unreadByConversation
    loading : BOOLEAN, temps : 0..MaxMessages ]

LoadConversations == Query("convs")
LoadMessages(c, older) == [op |-> "messages", stage |-> "sent", conv |-> c, older |-> older]
SendTo(c, t) == [op |-> "send", stage |-> "sent", conv |-> c, temp |-> t]

StoreMounted(s) ==
  Mounting("store",
           [listed |-> FALSE, active |-> Nil, messages |-> <<>>, older |-> FALSE,
            unread |-> [c \in Convs |-> 0], loading |-> FALSE, temps |-> 0],
           [messages |-> s, deltas |-> <<>>], EmptyBag)

-----------------------------------------------------------------------------
Updates(p, r) == Room(1) /\ page' = p /\ Ask(r) /\ UNCHANGED <<route, server>>

LoadConversationList == Updates([page EXCEPT !.loading = TRUE], LoadConversations)

SelectConversation(c) ==
  Updates([page EXCEPT !.active = c, !.messages = <<>>, !.older = FALSE, !.loading = TRUE],
          LoadMessages(c, FALSE))

\* Each load shows a page once more; the list is bounded by the model.
LoadOlderMessages ==
  /\ Len(page.messages) <= MaxMessages
  /\ page.active # Nil /\ page.older /\ ~page.loading
  /\ Updates([page EXCEPT !.loading = TRUE], LoadMessages(page.active, TRUE))

\* The message is shown at once.
SendChat(c) ==
  /\ page.temps < MaxMessages
  /\ Updates([page EXCEPT !.temps = @ + 1,
                          !.messages = Append(@, [temp |-> TRUE, id |-> page.temps + 1,
                                                  status |-> "sending"])],
             SendTo(c, page.temps + 1))

\* markRead; the call to the server is not waited for.
MarkRead(c) ==
  /\ page.messages # <<>> /\ page.unread[c] > 0
  /\ page' = [page EXCEPT !.unread[c] = 0]
  /\ UNCHANGED <<route, server, wire>>

\* The next load that ends still sets what it read.
ResetStore ==
  /\ page' = [page EXCEPT !.listed = FALSE, !.active = Nil, !.messages = <<>>, !.older = FALSE,
                          !.unread = [c \in Convs |-> 0], !.loading = FALSE]
  /\ page' # page
  /\ UNCHANGED <<route, server, wire>>

-----------------------------------------------------------------------------
\* The first conversation is selected if there is none; its messages are not loaded.
ConversationsRead(r, ok) ==
  /\ r.op = "convs" /\ Ends(r, ok)
  /\ \/ /\ ok
        /\ \E first \in Convs :
             page' = [page EXCEPT !.listed = TRUE, !.loading = FALSE,
                                  !.active = IF @ = Nil THEN first ELSE @]
     \/ ~ok /\ page' = [page EXCEPT !.loading = FALSE]
  /\ wire' = Settled(r)
  /\ UNCHANGED <<route, server>>

\* getMessages is not told which page is wanted, and the answer is set whichever
\* conversation is selected by then.
MessagesRead(r, ok) ==
  /\ r.op = "messages" /\ Ends(r, ok)
  /\ page' = IF ok THEN [page EXCEPT !.messages = IF r.older THEN r.items \o @ ELSE r.items,
                                     !.older = r.more, !.loading = FALSE]
                   ELSE [page EXCEPT !.loading = FALSE]
  /\ wire' = Settled(r)
  /\ UNCHANGED <<route, server>>

IsTemp(m, t) == m.temp /\ m.id = t

SendEnded(r, ok) ==
  /\ r.op = "send" /\ Ends(r, ok)
  /\ page' = [page EXCEPT !.messages =
                IF ok THEN Selected(@, {i \in DOMAIN @ : ~IsTemp(@[i], r.temp)})
                ELSE [i \in DOMAIN @ |-> IF IsTemp(@[i], r.temp) THEN [@[i] EXCEPT !.status = "failed"]
                                         ELSE @[i]]]
  /\ wire' = Settled(r)
  /\ UNCHANGED <<route, server>>

\* chat.delta: the message is appended if its conversation is the active one and
\* does not have it, or is counted as unread.
ApplyChatDelta ==
  /\ server.deltas # <<>>
  /\ LET n == Head(server.deltas)
         c == server.messages[n]
         there == \E i \in DOMAIN page.messages : page.messages[i].id = n /\ ~page.messages[i].temp
     IN  page' = IF c # page.active THEN [page EXCEPT !.unread[c] = @ + 1]
                 ELSE IF there THEN page
                 ELSE [page EXCEPT !.messages =
                         Append(@, [temp |-> FALSE, id |-> n, status |-> "sent"])]
  /\ server' = [server EXCEPT !.deltas = Tail(@)]
  /\ UNCHANGED <<route, wire>>

-----------------------------------------------------------------------------
ItemsOf(c) ==
  Selected([n \in DOMAIN server.messages |-> [temp |-> FALSE, id |-> n, status |-> "sent"]],
           {n \in DOMAIN server.messages : server.messages[n] = c})

PostMessage(c) ==
  /\ Len(server.messages) < MaxMessages
  /\ server' = [messages |-> Append(server.messages, c),
                deltas   |-> Append(server.deltas, Len(server.messages) + 1)]

ServeStore(r) ==
  /\ r.stage = "sent"
  /\ \/ r.op = "convs" /\ Reply(r, Answered(r)) /\ UNCHANGED server
     \/ /\ r.op = "messages" /\ UNCHANGED server
        /\ \E more \in BOOLEAN : Reply(r, AnsweredWith(r, [items |-> ItemsOf(r.conv), more |-> more]))
     \/ r.op = "send" /\ PostMessage(r.conv) /\ Reply(r, Answered(r))
  /\ UNCHANGED <<route, page>>

OthersSend(c) == PostMessage(c) /\ UNCHANGED <<route, page, wire>>

StoreNext ==
  \/ LoadConversationList \/ LoadOlderMessages \/ ResetStore \/ ApplyChatDelta
  \/ \E c \in Convs : SelectConversation(c) \/ SendChat(c) \/ MarkRead(c) \/ OthersSend(c)
  \/ \E r \in Open : \/ ServeStore(r)
                     \/ \E ok \in BOOLEAN :
                          ConversationsRead(r, ok) \/ MessagesRead(r, ok) \/ SendEnded(r, ok)

-----------------------------------------------------------------------------
\* A message is shown as being sent, and the list as loading, only while the call
\* is open, although loads of several conversations share the flag, a selection or
\* a reset drops the messages that are being sent, and deltas come in between.
StoreBusyMeansWaiting ==
  /\ page.loading => Pending("convs") \cup Pending("messages") # {}
  /\ \A i \in DOMAIN page.messages : page.messages[i].status = "sending" =>
        \E r \in Pending("send") : IsTemp(page.messages[i], r.temp)
=============================================================================
