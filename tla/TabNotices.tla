----------------------------- MODULE TabNotices -----------------------------
(***************************************************************************)
(* What the shell of the tab reports on every page: the conversations that *)
(* were written to (state/notification-store.ts, filled by features/       *)
(* notifications/useNotificationRealtime.ts), whose number is in the badge *)
(* of AppShell.tsx, and the toasts of AppProviders.tsx.                    *)
(*                                                                         *)
(* server.clock is Date.now, and server.last the time of the last event of *)
(* each conversation that the hook was given.                              *)
(***************************************************************************)
EXTENDS ChatStore

CONSTANTS MaxPreviewItems,  \* MAX_PREVIEW_ITEMS
          MaxClock,         \* bound on the time
          Toasts            \* one id for every toast that is ever shown

ASSUME NoticesAssumption == MaxPreviewItems \in Nat /\ MaxClock \in Nat

NoticeItem == [conv : Rooms, unread : {1}, at : 0..MaxClock]

NoticesState ==
  [ items : Seq(NoticeItem), totalUnread : Nat,
    toasts : Seq(Toasts),      \* notifications
    timers : SUBSET Toasts ]   \* the setTimeout of each toast that is pushed

\* The summary of the workspace is read once.
NoticesMounted ==
  Mounting("notices",
           [items |-> <<>>, totalUnread |-> 0, toasts |-> <<>>, timers |-> {}],
           [clock |-> 0, last |-> <<>>, summary |-> Nil, shown |-> {}],
           SetToBag({Query("summary")}))

-----------------------------------------------------------------------------
\* updateConversation up to its sort, which is stable: the item is replaced where it
\* is, or goes to the end.
ItemsUpdated(items, c, at) ==
  LET item == [conv |-> c, unread |-> 1, at |-> at]
  IN  IF \E i \in ToSet(items) : i.conv = c
      THEN [i \in DOMAIN items |-> IF items[i].conv = c THEN item ELSE items[i]]
      ELSE Append(items, item)

\* The latest first, those of one time as they were.
Precedes(items, i, j) ==
  items[i].at > items[j].at \/ (items[i].at = items[j].at /\ i < j)

Sorted(items) ==
  [k \in DOMAIN items |->
     items[CHOOSE i \in DOMAIN items :
             k = 1 + Cardinality({j \in DOMAIN items : Precedes(items, j, i)})]]

Trimmed(items) == SubSeq(items, 1, IF Len(items) < MaxPreviewItems THEN Len(items) ELSE MaxPreviewItems)

\* The reduce over the items.
TotalUnread(items) ==
  LET of[n \in 0..Len(items)] == IF n = 0 THEN 0 ELSE of[n - 1] + items[n].unread
  IN  of[Len(items)]

\* The listener of chat.delta: one unread message, however many there are.
ChatDeltaNoticed(c) ==
  \E now \in {server.clock, server.clock + 1} \cap 0..MaxClock :
    LET items == Trimmed(Sorted(ItemsUpdated(page.items, c, now)))
    IN  /\ page' = [page EXCEPT !.items = items, !.totalUnread = TotalUnread(items)]
        /\ server' = [server EXCEPT !.clock = now, !.last = With(@, c, now)]
        /\ UNCHANGED <<route, wire>>

-----------------------------------------------------------------------------
Unshown == Toasts \ server.shown

\* pushNotification of any page or dialog.
PushToast(t) ==
  /\ t \in Unshown
  /\ page' = [page EXCEPT !.toasts = Append(@, t), !.timers = @ \cup {t}]
  /\ server' = [server EXCEPT !.shown = @ \cup {t}]
  /\ UNCHANGED <<route, wire>>

\* The toast of a summary that cannot be read has no timer.
SummaryRead(r, ok) ==
  /\ r.op = "summary" /\ Ends(r, ok)
  /\ wire' = Settled(r)
  /\ \/ ok /\ UNCHANGED <<page, server>>
     \/ /\ ~ok
        /\ \E t \in Unshown : /\ page' = [page EXCEPT !.toasts = Append(@, t)]
                              /\ server' = [server EXCEPT !.shown = @ \cup {t}, !.summary = t]
  /\ UNCHANGED route

Gone(t) == Selected(page.toasts, {i \in DOMAIN page.toasts : page.toasts[i] # t})

\* The timer of a toast that was dismissed goes off all the same.
ToastTimer(t) ==
  /\ t \in page.timers
  /\ page' = [page EXCEPT !.toasts = Gone(t), !.timers = @ \ {t}]
  /\ UNCHANGED <<route, server, wire>>

DismissNotification(t) ==
  /\ t \in ToSet(page.toasts)
  /\ page' = [page EXCEPT !.toasts = Gone(t)]
  /\ UNCHANGED <<route, server, wire>>

ServeNotices(r) ==
  /\ r.stage = "sent" /\ Reply(r, Answered(r))
  /\ UNCHANGED <<route, page, server>>

NoticesNext ==
  \/ \E c \in Rooms : ChatDeltaNoticed(c)
  \/ \E t \in Toasts : PushToast(t) \/ ToastTimer(t) \/ DismissNotification(t)
  \/ \E r \in Open : ServeNotices(r) \/ \E ok \in BOOLEAN : SummaryRead(r, ok)

-----------------------------------------------------------------------------
\* The notices name the conversations that were written to last, each once, the
\* latest first and with the time of its last message, and leave one out only if
\* the list is full of others that are as recent; the badge counts what they name.
LatestNoticed ==
  route = "notices" =>
    LET items == page.items
        shown == {i.conv : i \in ToSet(items)}
    IN  /\ \A i, j \in DOMAIN items : items[i].conv = items[j].conv => i = j
        /\ page.totalUnread = Len(items)
        /\ \A i \in DOMAIN items : /\ items[i].at = server.last[items[i].conv]
                                   /\ \A j \in 1..i : items[j].at >= items[i].at
        /\ \A c \in DOMAIN server.last \ shown :
             /\ Len(items) = MaxPreviewItems
             /\ \A i \in DOMAIN items : items[i].at >= server.last[c]

\* A toast stays until its own timer or the user takes it away: each on the screen
\* has its timer running, but for the one of the summary.
ToastsEnd ==
  route = "notices" => ToSet(page.toasts) \subseteq page.timers \cup {server.summary}
=============================================================================
