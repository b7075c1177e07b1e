----------------------------- MODULE ChatSidebar -----------------------------
(***************************************************************************)
(* The list of conversations beside the chat (pages/chat/ChatPage.tsx):    *)
(* the items, which the load, the events and the dialog of new chats       *)
(* write, and the two sections that they are shown in, filtered, searched  *)
(* and sorted.  ChatPage has the messages.                                 *)
(*                                                                         *)
(* The filter and the search are cells that only the list reads; it is     *)
(* looked at for all their values at once.  server.convs are the           *)
(* conversations of the workspace, the newest first, server.at when each   *)
(* was last written to, and server.saved the messages whose handler has    *)
(* still to move that time.                                                *)
(***************************************************************************)
EXTENDS ChatStore

CONSTANTS RoomOf,     \* of each conversation: its type, its team, whether it is
                      \* pinned or the default one, and its unread messages
          MaxPosts    \* bound on the messages that are written

RoomTypes == {"channel", "direct", "team"}
RoomTeams == {RoomOf[c].team : c \in Rooms} \ {Nil}

ASSUME RoomOfAssumption ==
  \A c \in Rooms : RoomOf[c].type \in RoomTypes /\ RoomOf[c].starred \in BOOLEAN /\ RoomOf[c].unread \in Nat

Entry == [id : Rooms, at : 0..MaxPosts]

SidebarState ==
  [items : Seq(Entry), active : Rooms \cup {Nil}]    \* conversationItems, activeConvId

SidebarMounted(first) ==
  Mounting("sidebar", [items |-> <<>>, active |-> Nil],
           [convs |-> first, at |-> [c \in Rooms |-> 0], posts |-> 0, saved |-> {}],
           SetToBag({Query("load")}))

-----------------------------------------------------------------------------
(* The items.                                                               *)

\* The load selects the first conversation; the reads after an event do not.
ConversationItemsRead(r, ok) ==
  /\ r.op \in {"load", "convs"} /\ Ends(r, ok)
  /\ page' = IF ~ok THEN page
             ELSE [page EXCEPT !.items = r.list,
                     !.active = IF r.op = "load" /\ r.list # <<>> THEN r.list[1].id ELSE @]
  /\ wire' = Settled(r)
  /\ UNCHANGED <<route, server>>

\* Any event of a conversation that is not the active one.
EventElsewhere ==
  /\ Room(1) /\ Ask(Query("convs"))
  /\ UNCHANGED <<route, page, server>>

SelectRoom(c) ==
  /\ c \in {page.items[i].id : i \in DOMAIN page.items} /\ c # page.active
  /\ page' = [page EXCEPT !.active = c]
  /\ UNCHANGED <<route, server, wire>>

\* openDmForMember and openTeamChannel.
OpenRoom(c) ==
  /\ page.items # <<>> /\ RoomOf[c].type # "channel" /\ Room(1)
  /\ Ask([op |-> "create", stage |-> "sent", conv |-> c])
  /\ UNCHANGED <<route, page, server>>

\* What was created, or found, takes the place it has, or goes before the others.
Upserted(items, e) ==
  IF \E i \in DOMAIN items : items[i].id = e.id
  THEN [i \in DOMAIN items |-> IF items[i].id = e.id THEN e ELSE items[i]]
  ELSE <<e>> \o items

RoomCreated(r, ok) ==
  /\ r.op = "create" /\ Ends(r, ok)
  /\ page' = IF ok THEN [page EXCEPT !.items = Upserted(@, r.made), !.active = r.conv] ELSE page
  /\ wire' = Settled(r)
  /\ UNCHANGED <<route, server>>

-----------------------------------------------------------------------------
(* The list.                                                                *)

TeamFilters == {"all", "direct", "channel"} \cup RoomTeams
Pinned(e) == RoomOf[e.id].starred
Unread(e) == RoomOf[e.id].unread

\* found are the conversations whose title or preview holds the text of the search.
PassesFilter(e, filter, found) ==
  /\ \/ filter = "all" \/ RoomOf[e.id].team = filter
     \/ filter \in {"direct", "channel"} /\ RoomOf[e.id].type = filter
  /\ e.id \in found

\* Pinned ones first, then by unread messages, then by time (ties: by title, which
\* any order stands for).
Before(e, f) ==
  IF Pinned(e) # Pinned(f) THEN Pinned(e)
  ELSE IF Unread(e) # Unread(f) THEN Unread(e) > Unread(f)
  ELSE e.at > f.at

\* The sort is stable.
Comes(list, i, j) == Before(list[i], list[j]) \/ (~Before(list[j], list[i]) /\ i < j)

Arranged(list) ==
  [k \in DOMAIN list |->
     list[CHOOSE i \in DOMAIN list :
            k = 1 + Cardinality({j \in DOMAIN list : Comes(list, j, i)})]]

FilteredConversations(filter, found) ==
  Arranged(Selected(page.items,
                    {i \in DOMAIN page.items : PassesFilter(page.items[i], filter, found)}))

\* The first section also has what is unread; the second has the rest.
PinnedConversations(list) ==
  Selected(list, {i \in DOMAIN list : Pinned(list[i]) \/ Unread(list[i]) > 0})
NonPinnedConversations(list) ==
  LET pinned == {e.id : e \in ToSet(PinnedConversations(list))}
  IN  Selected(list, {i \in DOMAIN list : list[i].id \notin pinned})

ListedConversations(filter, found) ==
  LET list == FilteredConversations(filter, found)
  IN  PinnedConversations(list) \o NonPinnedConversations(list)

-----------------------------------------------------------------------------
(* The backend.                                                             *)

\* What is asked for is found, or is made and goes before the others.
RoomMade(c) ==
  IF c \in ToSet(server.convs) THEN server
  ELSE [server EXCEPT !.convs = <<c>> \o @, !.at[c] = server.posts]

ServeSidebar(r) ==
  /\ r.stage = "sent"
  /\ \/ /\ r.op \in {"load", "convs"} /\ UNCHANGED server
        /\ Reply(r, AnsweredWith(r, [list |-> [i \in DOMAIN server.convs |->
                       [id |-> server.convs[i], at |-> server.at[server.convs[i]]]]]))
     \/ /\ r.op = "create"
        /\ server' = RoomMade(r.conv)
        /\ Reply(r, AnsweredWith(r, [made |-> [id |-> r.conv, at |-> server'.at[r.conv]]]))
  /\ UNCHANGED <<route, page>>

OthersCreate(c) ==
  /\ c \notin ToSet(server.convs)
  /\ server' = RoomMade(c)
  /\ UNCHANGED <<route, page, wire>>

\* A message is saved with its time; under the lock of the workspace it then moves
\* that of its conversation, and leaves the unread count.
MessageSaved(c) ==
  /\ c \in ToSet(server.convs) /\ server.posts < MaxPosts
  /\ server' = [server EXCEPT !.posts = @ + 1, !.saved = @ \cup {[conv |-> c, at |-> server.posts + 1]}]
  /\ UNCHANGED <<route, page, wire>>

PreviewUpdated(m) ==
  /\ m \in server.saved
  /\ server' = [server EXCEPT !.saved = @ \ {m}, !.at[m.conv] = m.at]
  /\ UNCHANGED <<route, page, wire>>

SidebarNext ==
  \/ \E c \in Rooms : SelectRoom(c) \/ OpenRoom(c) \/ OthersCreate(c) \/ MessageSaved(c)
  \/ \E m \in server.saved : PreviewUpdated(m)
  \/ EventElsewhere
  \/ \E r \in Open : \/ ServeSidebar(r)
                     \/ \E ok \in BOOLEAN : ConversationItemsRead(r, ok) \/ RoomCreated(r, ok)

-----------------------------------------------------------------------------
\* Every conversation that passes the filter and the search is in the list exactly
\* once, in one of its two sections, although creations, reads and events write the
\* items in any order; the pinned ones stand above the others, of these the unread
\* ones first, and of two that are alike in both the later one.  (It is looked at with
\* no request open, as each may fail and leave the items as they are.)
ListedOnce ==
  (route = "sidebar" /\ wire = EmptyBag) =>
    \A filter \in TeamFilters, found \in SUBSET Rooms :
      LET list == ListedConversations(filter, found)
      IN  /\ Len(list) = Cardinality({e.id : e \in {x \in ToSet(page.items) :
                                                     PassesFilter(x, filter, found)}})
          /\ \A i, j \in DOMAIN list : i < j =>
               /\ Pinned(list[j]) => Pinned(list[i])
               /\ Unread(list[j]) > 0 => Pinned(list[i]) \/ Unread(list[i]) >= Unread(list[j])
               /\ (Pinned(list[i]) = Pinned(list[j]) /\ Unread(list[i]) = Unread(list[j]))
                    => list[i].at >= list[j].at
=============================================================================
