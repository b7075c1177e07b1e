---------------------------- MODULE WebTeam_proof ----------------------------
(***************************************************************************)
(* The pages of WebTeam, for any conversations, members, nodes, settings   *)
(* and requests.  As in WebPlan_proof, each part has the invariant of one  *)
(* page and shows that its mounting starts it and its steps keep it.  The  *)
(* theorems are at the end.                                                *)
(***************************************************************************)
EXTENDS WebTeam, WebTab_proof

-----------------------------------------------------------------------------
(***************************************************************************)
(* Routes.  No page leads away from itself.                                *)
(***************************************************************************)
LEMMA ChatRoute == ASSUME ChatNext PROVE route' = route
BY DEF ChatNext, SwitchConversation, OpenDm, DeliveryFails, SendMessage,
       OthersPost, RetryComposer, ChatEvent, ChatEventsLost, ServeChat,
       ChatAnswer, ChatLoaded, MessagesLoaded, ConversationCreated, MessageSent,
       ConversationsLoaded

LEMMA ComposerRoute == ASSUME ComposerNext PROVE route' = route
BY DEF ComposerNext, TypeDraft, MoveInMenu, InsertCommandSlash, PickFromMenu,
       EscapeMenu, PickFiles, FileRead, RemovePending, SendDraft,
       DeliveryReported, RetryDraft, SwitchDraft, ServeComposer, DraftSent,
       DraftSwitched

LEMMA StoreRoute == ASSUME StoreNext PROVE route' = route
BY DEF StoreNext, LoadConversationList, Updates, LoadOlderMessages, ResetStore,
       ApplyChatDelta, SelectConversation, SendChat, MarkRead, OthersSend,
       ServeStore, ConversationsRead, MessagesRead, SendEnded

LEMMA SidebarRoute == ASSUME SidebarNext PROVE route' = route
BY DEF SidebarNext, SelectRoom, OpenRoom, OthersCreate, MessageSaved,
       PreviewUpdated, EventElsewhere, ServeSidebar, ConversationItemsRead,
       RoomCreated

LEMMA SessionsRoute == ASSUME SessionsNext PROVE route' = route
BY DEF SessionsNext, RefreshShells, SendLine, NewSession, Turns, CancelSession,
       CreateShell, ResyncTimer, ClickShell, OpenHash, CloseShell, ShellExits,
       PickMember, ServeSessions, RosterRead, ShellsListed, ShellClosed,
       MemberResolved, ShellCreated, ShellAttached, LineSent

LEMMA SocketRoute == ASSUME SocketNext PROVE route' = route
BY DEF SocketNext, TimerFires, SendFrame, Navigate, Publish, SocketOpens,
       SocketMessage, SocketDrops, SocketClosed

LEMMA MembersRoute == ASSUME MembersNext PROVE route' = route
BY DEF MembersNext, MembersReload, CancelMembersDialog, NextStep, PreviousStep,
       SelectTeam, NewTeam, OpenMembersDialog, InviteMember, SelectProvider,
       TypeCredential, CreateAssistants, ServeMembers, MembersAnswer,
       RosterLoaded, TeamCreated, SettingsRead, SettingsPut, MemberCreated

LEMMA TeamRosterRoute == ASSUME route = "roster", TeamRosterNext PROVE route' = route
BY DEF TeamRosterNext, RosterChanges, DeleteMember, PutRole, PostMember,
       HandleTeams, TeamsBecome, ShellOf, RosterRestarts, FinishPostMember,
       RefreshRoster, SelectTab, ServeRoster, TeamRosterRead, ClickCard,
       Mounting

LEMMA NoticesRoute == ASSUME NoticesNext PROVE route' = route
BY DEF NoticesNext, ChatDeltaNoticed, PushToast, ToastTimer,
       DismissNotification, ServeNotices, SummaryRead

LEMMA NodesRoute == ASSUME NodesNext PROVE route' = route
BY DEF NodesNext, NodesUser, ClickRow, ClickAssign, AskDeregister, RegisterNode,
       AssignAgent, UnassignAgent, CloseNodeDetail, CloseDialog, ClickRefresh,
       ShowForm, Deregister, MembersLoaded, FleetChanges, ServeNodes,
       NodesAnswer, NodesLoaded, NodeChanged

LEMMA NamespacesRoute == ASSUME NamespacesNext PROVE route' = route
BY DEF NamespacesNext, SelectFilter, Calls, RetryList, ShowCreate, Sets,
       HideCreate, CreateNamespace, AskArchive, RestoreRow, OthersChange,
       OpenDetail, CloseDetail, RetryDetail, ToggleEditing, SaveDetail,
       CancelArchive, ConfirmArchive, RestoreDetail, ServeNamespaces,
       ListLoaded, DetailRead, Created, Updated, StatusChanged

LEMMA SystemRoute == ASSUME SystemNext PROVE route' = route
BY DEF SystemNext, RefreshUsers, Handles, RefreshMemory, PutEntry, TypeUser,
       UpdateUser, CreateUser, SelectScope, EntryExpires, TypeKey, DeleteEntry,
       ServeSystem, UserChanged, UsersLoaded, EntryChanged, MemoryLoaded

LEMMA SettingsRoute == ASSUME SettingsNext PROVE route' = route
BY DEF SettingsNext, SaveSection, EditSection, SaveProvider, Diagnose,
       ServeSettings, WriteSettings, Diagnosed, SettingsArrive

LEMMA LedgerRoute == ASSUME LedgerNext PROVE route' = route
BY DEF LedgerNext, SelectLogTeam, Reloading, SelectMember, SelectPreset,
       ResetFilters, EventHappens, Refresh, AutoRefresh, ToggleAuto, ServeLog,
       LogLoaded, LogRosterLoaded

LEMMA ApprovalsRoute == ASSUME ApprovalsNext PROVE route' = route
BY DEF ApprovalsNext, OpenDecision, Edits, OthersDecide, TypePhrase,
       CloseDecision, SubmitDecision, ServeApprovals, LogOnly, ServerRestarts,
       ApprovalsLoaded, DecisionAnswered

LEMMA SignInRoute == ASSUME SignInNext PROVE route' = route
BY DEF SignInNext, ReloadTab, SubmitLogin, Logout, RedirectByRole, Becomes,
       RefreshCluster, TypeAccount, RoleChanges, NavigateTo, TypePath,
       ServeSignIn, MeAnswered, LoginAnswered, ClusterRead

\* A step mounts a page, is a step of the one that is shown or changes nothing.
LEMMA PageStep ==
  ASSUME [Next]_tab
  PROVE  \/ UNCHANGED tab
         \/ route = "none" /\ OpenPage
         \/ route' = route /\ route # "none" /\ Next
BY ChatRoute, ComposerRoute, StoreRoute, SidebarRoute, SessionsRoute, SocketRoute,
   MembersRoute, TeamRosterRoute, NoticesRoute, NodesRoute, NamespacesRoute,
   SystemRoute, SettingsRoute, LedgerRoute, ApprovalsRoute, SignInRoute DEF Next

LEMMA ChatStep ==
  ASSUME [Next]_tab, route' = "chat"
  PROVE  \/ UNCHANGED tab
         \/ route = "none" /\ ChatMounted
         \/ route = "chat" /\ ChatNext
<1>1. CASE route = "none" /\ OpenPage
  BY <1>1 DEF OpenPage, ChatMounted, ComposerMounted, StoreMounted, SidebarMounted,
     SessionsMounted, SocketMounted, MembersMounted, TeamRosterMounted,
     NoticesMounted, NodesMounted, NamespacesMounted, SystemMounted,
     SettingsMounted, LedgerMounted, ApprovalsMounted, SignInMounted, Mounting
<1>2. CASE route = "chat" /\ Next
  BY <1>2 DEF Next
<1> QED BY <1>1, <1>2, PageStep

LEMMA StoreStep ==
  ASSUME [Next]_tab, route' = "store"
  PROVE  \/ UNCHANGED tab
         \/ route = "none" /\ StoreMounted(<<>>)
         \/ route = "store" /\ StoreNext
<1>1. CASE route = "none" /\ OpenPage
  BY <1>1 DEF OpenPage, ChatMounted, ComposerMounted, StoreMounted, SidebarMounted,
     SessionsMounted, SocketMounted, MembersMounted, TeamRosterMounted,
     NoticesMounted, NodesMounted, NamespacesMounted, SystemMounted,
     SettingsMounted, LedgerMounted, ApprovalsMounted, SignInMounted, Mounting
<1>2. CASE route = "store" /\ Next
  BY <1>2 DEF Next
<1> QED BY <1>1, <1>2, PageStep

LEMMA SessionsStep ==
  ASSUME [Next]_tab, route' = "sessions"
  PROVE  \/ UNCHANGED tab
         \/ route = "none" /\ SessionsMounted(<<>>)
         \/ route = "sessions" /\ SessionsNext
<1>1. CASE route = "none" /\ OpenPage
  BY <1>1 DEF OpenPage, ChatMounted, ComposerMounted, StoreMounted, SidebarMounted,
     SessionsMounted, SocketMounted, MembersMounted, TeamRosterMounted,
     NoticesMounted, NodesMounted, NamespacesMounted, SystemMounted,
     SettingsMounted, LedgerMounted, ApprovalsMounted, SignInMounted, Mounting
<1>2. CASE route = "sessions" /\ Next
  BY <1>2 DEF Next
<1> QED BY <1>1, <1>2, PageStep

LEMMA SocketStep ==
  ASSUME [Next]_tab, route' = "socket"
  PROVE  \/ UNCHANGED tab
         \/ route = "none" /\ (\E p \in Pathnames, id \in SocketIds : SocketMounted(p, id))
         \/ route = "socket" /\ SocketNext
<1>1. CASE route = "none" /\ OpenPage
  BY <1>1 DEF OpenPage, ChatMounted, ComposerMounted, StoreMounted, SidebarMounted,
     SessionsMounted, SocketMounted, MembersMounted, TeamRosterMounted,
     NoticesMounted, NodesMounted, NamespacesMounted, SystemMounted,
     SettingsMounted, LedgerMounted, ApprovalsMounted, SignInMounted, Mounting
<1>2. CASE route = "socket" /\ Next
  BY <1>2 DEF Next
<1> QED BY <1>1, <1>2, PageStep

LEMMA MembersStep ==
  ASSUME [Next]_tab, route' = "members"
  PROVE  \/ UNCHANGED tab
         \/ route = "none" /\ (\E keys \in SUBSET KeyOwners, known \in BOOLEAN, d \in Dialogs :
              MembersMounted(keys, known, d))
         \/ route = "members" /\ MembersNext
<1>1. CASE route = "none" /\ OpenPage
  BY <1>1 DEF OpenPage, ChatMounted, ComposerMounted, StoreMounted, SidebarMounted,
     SessionsMounted, SocketMounted, MembersMounted, TeamRosterMounted,
     NoticesMounted, NodesMounted, NamespacesMounted, SystemMounted,
     SettingsMounted, LedgerMounted, ApprovalsMounted, SignInMounted, Mounting
<1>2. CASE route = "members" /\ Next
  BY <1>2 DEF Next
<1> QED BY <1>1, <1>2, PageStep

LEMMA NodesStep ==
  ASSUME [Next]_tab, route' = "nodes"
  PROVE  \/ UNCHANGED tab
         \/ route = "none" /\ (\E f \in Fleets : NodesMounted(f))
         \/ route = "nodes" /\ NodesNext
<1>1. CASE route = "none" /\ OpenPage
  BY <1>1 DEF OpenPage, ChatMounted, ComposerMounted, StoreMounted, SidebarMounted,
     SessionsMounted, SocketMounted, MembersMounted, TeamRosterMounted,
     NoticesMounted, NodesMounted, NamespacesMounted, SystemMounted,
     SettingsMounted, LedgerMounted, ApprovalsMounted, SignInMounted, Mounting
<1>2. CASE route = "nodes" /\ Next
  BY <1>2 DEF Next
<1> QED BY <1>1, <1>2, PageStep

LEMMA NamespacesStep ==
  ASSUME [Next]_tab, route' = "namespaces"
  PROVE  \/ UNCHANGED tab
         \/ route = "none" /\ NamespacesMounted(FirstNamespaces)
         \/ route = "namespaces" /\ NamespacesNext
<1>1. CASE route = "none" /\ OpenPage
  BY <1>1 DEF OpenPage, ChatMounted, ComposerMounted, StoreMounted, SidebarMounted,
     SessionsMounted, SocketMounted, MembersMounted, TeamRosterMounted,
     NoticesMounted, NodesMounted, NamespacesMounted, SystemMounted,
     SettingsMounted, LedgerMounted, ApprovalsMounted, SignInMounted, Mounting
<1>2. CASE route = "namespaces" /\ Next
  BY <1>2 DEF Next
<1> QED BY <1>1, <1>2, PageStep

LEMMA SystemStep ==
  ASSUME [Next]_tab, route' = "system"
  PROVE  \/ UNCHANGED tab
         \/ route = "none" /\ (\E owner \in BOOLEAN, a \in FirstAccounts : SystemMounted(owner, a))
         \/ route = "system" /\ SystemNext
<1>1. CASE route = "none" /\ OpenPage
  BY <1>1 DEF OpenPage, ChatMounted, ComposerMounted, StoreMounted, SidebarMounted,
     SessionsMounted, SocketMounted, MembersMounted, TeamRosterMounted,
     NoticesMounted, NodesMounted, NamespacesMounted, SystemMounted,
     SettingsMounted, LedgerMounted, ApprovalsMounted, SignInMounted, Mounting
<1>2. CASE route = "system" /\ Next
  BY <1>2 DEF Next
<1> QED BY <1>1, <1>2, PageStep

LEMMA SettingsStep ==
  ASSUME [Next]_tab, route' = "settings"
  PROVE  \/ UNCHANGED tab
         \/ route = "none" /\ \E s \in FirstSettings : SettingsMounted(s)
         \/ route = "settings" /\ SettingsNext
<1>1. CASE route = "none" /\ OpenPage
  BY <1>1 DEF OpenPage, ChatMounted, ComposerMounted, StoreMounted, SidebarMounted,
     SessionsMounted, SocketMounted, MembersMounted, TeamRosterMounted,
     NoticesMounted, NodesMounted, NamespacesMounted, SystemMounted,
     SettingsMounted, LedgerMounted, ApprovalsMounted, SignInMounted, Mounting
<1>2. CASE route = "settings" /\ Next
  BY <1>2 DEF Next
<1> QED BY <1>1, <1>2, PageStep

LEMMA LedgerStep ==
  ASSUME [Next]_tab, route' = "ledger"
  PROVE  \/ UNCHANGED tab
         \/ route = "none" /\ LedgerMounted(<<>>)
         \/ route = "ledger" /\ LedgerNext
<1>1. CASE route = "none" /\ OpenPage
  BY <1>1 DEF OpenPage, ChatMounted, ComposerMounted, StoreMounted, SidebarMounted,
     SessionsMounted, SocketMounted, MembersMounted, TeamRosterMounted,
     NoticesMounted, NodesMounted, NamespacesMounted, SystemMounted,
     SettingsMounted, LedgerMounted, ApprovalsMounted, SignInMounted, Mounting
<1>2. CASE route = "ledger" /\ Next
  BY <1>2 DEF Next
<1> QED BY <1>1, <1>2, PageStep

LEMMA ApprovalsStep ==
  ASSUME [Next]_tab, route' = "approvals"
  PROVE  \/ UNCHANGED tab
         \/ route = "none" /\ (\E b \in BOOLEAN : ApprovalsMounted(b))
         \/ route = "approvals" /\ ApprovalsNext
<1>1. CASE route = "none" /\ OpenPage
  BY <1>1 DEF OpenPage, ChatMounted, ComposerMounted, StoreMounted, SidebarMounted,
     SessionsMounted, SocketMounted, MembersMounted, TeamRosterMounted,
     NoticesMounted, NodesMounted, NamespacesMounted, SystemMounted,
     SettingsMounted, LedgerMounted, ApprovalsMounted, SignInMounted, Mounting
<1>2. CASE route = "approvals" /\ Next
  BY <1>2 DEF Next
<1> QED BY <1>1, <1>2, PageStep

LEMMA SignInStep ==
  ASSUME [Next]_tab, route' = "signin"
  PROVE  \/ UNCHANGED tab
         \/ route = "none" /\ (\E a \in Accounts : SignInMounted(FirstRoles, a))
         \/ route = "signin" /\ SignInNext
<1>1. CASE route = "none" /\ OpenPage
  BY <1>1 DEF OpenPage, ChatMounted, ComposerMounted, StoreMounted, SidebarMounted,
     SessionsMounted, SocketMounted, MembersMounted, TeamRosterMounted,
     NoticesMounted, NodesMounted, NamespacesMounted, SystemMounted,
     SettingsMounted, LedgerMounted, ApprovalsMounted, SignInMounted, Mounting
<1>2. CASE route = "signin" /\ Next
  BY <1>2 DEF Next
<1> QED BY <1>1, <1>2, PageStep

-----------------------------------------------------------------------------
(***************************************************************************)
(* The conversations.  A message enters the log of one conversation once:  *)
(* the send that carries it is open once, and others write new ones.  So   *)
(* every list that is read has it once, and what is on the screen as saved *)
(* is held by the backend.                                                 *)
(***************************************************************************)
Logged == UNION {ToSet(server.log[c]) : c \in Convs}

\* A list of messages without repetition, of which those that are saved are in L.
ListOf(s, L) ==
  /\ s \in Seq(Items)
  /\ \A i, j \in DOMAIN s : s[i].id = s[j].id => i = j
  /\ \A i \in DOMAIN s : s[i].id[1] = "saved" => s[i].id[2] \in L

ChatRequest(r, L) ==
  /\ {"op", "stage"} \subseteq DOMAIN r
  /\ r.op \in {"load", "first", "messages", "create", "convs", "send"}
  /\ r.op \in {"messages", "create", "send"} => "conv" \in DOMAIN r /\ r.conv \in Convs
  /\ r.op \in {"first", "messages"} /\ r.stage = "ok" =>
       /\ "items" \in DOMAIN r /\ ListOf(r.items, L)
       /\ \A i \in DOMAIN r.items : r.items[i].status # "sending"
  /\ r.op = "send" => /\ "m" \in DOMAIN r /\ r.m \in Msgs
                      /\ r.stage = "sent" => r.m \notin L
                      /\ r.stage = "ok" => r.m \in L

LogsKept ==
  /\ {"log", "convs", "events", "failed"} \subseteq DOMAIN server
  /\ DOMAIN server.log = Convs
  /\ \A c \in Convs :
       /\ server.log[c] \in Seq(Msgs)
       /\ \A i, j \in DOMAIN server.log[c] : server.log[c][i] = server.log[c][j] => i = j
  /\ \E E : server.events \in Seq(E)
  /\ \A i \in DOMAIN server.events :
       server.events[i].type = "chat.delta" => server.events[i].m \in Logged

SendsKept ==
  /\ \A r \in Open : ChatRequest(r, Logged)
  /\ \A r \in Open : r.op = "send" => Copies(r) = 1
  /\ \A r, s \in Open : r.op = "send" /\ s.op = "send" /\ r.m = s.m => r = s

ScreenKept ==
  /\ DOMAIN page = {"items", "active", "convs", "composer", "switching"}
  /\ page.active \in Convs \cup {Nil}
  /\ ListOf(page.items, Logged)

ChatWaits ==
  /\ page.composer = "sending" => \E r \in Open : r.op = "send"
  /\ page.switching => \E r \in Open : r.op = "messages"
  /\ \A i \in DOMAIN page.items : page.items[i].status = "sending" =>
       \E r \in Open : r.op = "send" /\ page.items[i].id = <<"local", r.m>>

ChatInv == LogsKept /\ SendsKept /\ ScreenKept /\ ChatWaits

LEMMA ChatNotices == ChatInv => ChatBusyMeansWaiting
<1> SUFFICES ASSUME ChatInv PROVE ChatBusyMeansWaiting
  OBVIOUS
<1>1. ASSUME NEW status \in RealtimeStatuses, PageNotice(status) = "switching" PROVE page.switching
  BY <1>1 DEF RealtimeStatuses, PageNotice, RealtimeState
<1>2. page.switching => \E r \in Open : r.op = "messages"
  BY DEF ChatInv, ChatWaits
<1>3. \A i \in DOMAIN page.items : page.items[i].status = "sending" =>
        \E r \in Open : r.op = "send" /\ page.items[i].id = <<"local", r.m>>
  BY DEF ChatInv, ChatWaits
<1>4. page.composer = "sending" => \E r \in Open : r.op = "send"
  BY DEF ChatInv, ChatWaits
<1> QED BY <1>1, <1>2, <1>3, <1>4 DEF ChatBusyMeansWaiting, Pending

LEMMA ChatOnce == ChatInv => ChatShowsOnce
<1> SUFFICES ASSUME ChatInv PROVE ChatShowsOnce
  OBVIOUS
<1>1. ListOf(page.items, Logged)
  BY DEF ChatInv, ScreenKept
<1>2. \A m \in Logged : \E c \in Convs : m \in ToSet(server.log[c])
  BY DEF Logged
<1> QED BY <1>1, <1>2 DEF ChatShowsOnce, ListOf

LEMMA ChatStart ==
  ASSUME ChatMounted
  PROVE  ChatInv'
<1> DEFINE x == Query("load")
<1>1. Open' = {x} /\ wire' = SetToBag({x})
  BY MountOpens DEF ChatMounted, Mounting
<1>2. x.op = "load" /\ {"op", "stage"} \subseteq DOMAIN x
  BY DEF Query
<1> HIDE DEF x
<1>3. /\ DOMAIN page' = {"items", "active", "convs", "composer", "switching"}
      /\ page'.active = Nil /\ page'.items = <<>> /\ page'.composer = "idle" /\ page'.switching = FALSE
      /\ DOMAIN server' = {"log", "convs", "events", "failed"}
      /\ server'.log = [c \in Convs |-> <<>>] /\ server'.events = <<>>
  BY DEF ChatMounted, Mounting
<1>4. /\ <<>> \in Seq(Items) /\ <<>> \in Seq(Msgs) /\ <<>> \in Seq({}) /\ DOMAIN <<>> = {}
  OBVIOUS
<1>5. ListOf(page'.items, Logged')
  BY <1>3, <1>4 DEF ListOf
<1>6. LogsKept'
  BY <1>3, <1>4 DEF LogsKept
<1>7. SendsKept'
  BY <1>1, <1>2 DEF SendsKept, ChatRequest
<1> QED BY <1>1, <1>3, <1>4, <1>5, <1>6, <1>7 DEF ChatInv, ScreenKept, ChatWaits

-----------------------------------------------------------------------------
LEMMA ListGrows ==
  ASSUME NEW s, NEW L, NEW K, ListOf(s, L), L \subseteq K
  PROVE  ListOf(s, K)
BY DEF ListOf

\* A message with a new id goes to the end.
LEMMA ListAppends ==
  ASSUME NEW s, NEW L, ListOf(s, L), NEW e \in Items,
         \A i \in DOMAIN s : s[i].id # e.id, e.id[1] = "saved" => e.id[2] \in L
  PROVE  /\ ListOf(Append(s, e), L)
         /\ \A i \in DOMAIN Append(s, e) :
              Append(s, e)[i] = e \/ \E j \in DOMAIN s : Append(s, e)[i] = s[j]
<1>1. s \in Seq(Items)
  BY DEF ListOf
<1> DEFINE q == Append(s, e)
<1>2. /\ q \in Seq(Items) /\ Len(s) \in Nat /\ DOMAIN s = 1..Len(s) /\ DOMAIN q = 1..(Len(s) + 1)
      /\ \A i \in 1..Len(s) : q[i] = s[i]
      /\ q[Len(s) + 1] = e
  BY <1>1
<1> HIDE DEF q
<1>3. \A i \in DOMAIN q : (i \in DOMAIN s /\ q[i] = s[i]) \/ (i = Len(s) + 1 /\ q[i] = e)
  BY <1>2
<1>4. \A i, j \in DOMAIN q : q[i].id = q[j].id => i = j
  BY <1>3 DEF ListOf
<1>5. \A i \in DOMAIN q : q[i].id[1] = "saved" => q[i].id[2] \in L
  BY <1>3 DEF ListOf
<1>6. ListOf(q, L) /\ \A i \in DOMAIN q : q[i] = e \/ \E j \in DOMAIN s : q[i] = s[j]
  BY <1>2, <1>3, <1>4, <1>5 DEF ListOf
<1> QED BY <1>6 DEF q

LEMMA ListMarks ==
  ASSUME NEW L, ListOf(page.items, L), NEW id
  PROVE  /\ ListOf(Marked(id, "failed"), L)
         /\ \A i \in DOMAIN Marked(id, "failed") : Marked(id, "failed")[i].status = "sending" =>
              /\ Marked(id, "failed")[i].id # id
              /\ \E j \in DOMAIN page.items : Marked(id, "failed")[i] = page.items[j]
<1> DEFINE s == page.items
           q == Marked(id, "failed")
<1>1. s \in Seq(Items) /\ DOMAIN q = DOMAIN s /\ Len(s) \in Nat /\ DOMAIN s = 1..Len(s)
  BY DEF ListOf, Marked
<1>2. \A i \in DOMAIN s : s[i] \in Items
  BY <1>1
<1>3. \A i \in DOMAIN s : IF s[i].id = id THEN q[i] = [s[i] EXCEPT !.status = "failed"] ELSE q[i] = s[i]
  BY DEF Marked
<1>4. \A i \in DOMAIN s : q[i] \in Items /\ q[i].id = s[i].id
                          /\ (s[i].id = id => q[i].status = "failed")
  <2>1. \A e \in Items : /\ [e EXCEPT !.status = "failed"] \in Items
                        /\ [e EXCEPT !.status = "failed"].id = e.id
                        /\ [e EXCEPT !.status = "failed"].status = "failed"
    BY DEF Items, ItemStatus
  <2> HIDE DEF q, s
  <2>2. ASSUME NEW i \in DOMAIN s
        PROVE  q[i] \in Items /\ q[i].id = s[i].id /\ (s[i].id = id => q[i].status = "failed")
    <3>1. CASE s[i].id = id
      <4>1. q[i] = [s[i] EXCEPT !.status = "failed"]
        BY <1>3, <3>1
      <4> QED BY <1>2, <2>1, <4>1
    <3>2. CASE s[i].id # id
      BY <1>2, <1>3, <3>2
    <3> QED BY <3>1, <3>2
  <2> QED BY <2>2
<1>5. q = [i \in 1..Len(s) |-> q[i]]
  BY <1>1 DEF Marked
<1> HIDE DEF q
<1>6. q \in [1..Len(s) -> Items]
  BY <1>1, <1>4, <1>5
<1>7. q \in Seq(Items)
  BY <1>1, <1>6
<1>8. ListOf(q, L)
  BY <1>1, <1>4, <1>7 DEF ListOf
<1>9. \A i \in DOMAIN q : q[i].status = "sending" => q[i].id # id /\ \E j \in DOMAIN s : q[i] = s[j]
  BY <1>1, <1>3, <1>4
<1> QED BY <1>8, <1>9 DEF q

LEMMA SavedItem ==
  ASSUME NEW m \in Msgs
  PROVE  /\ Saved(m) \in Items /\ Saved(m).id = <<"saved", m>> /\ Saved(m).status = "sent"
         /\ Saved(m).id[1] = "saved" /\ Saved(m).id[2] = m
BY DEF Saved, Items, ItemStatus

LEMMA ListReplaces ==
  ASSUME NEW L, ListOf(page.items, L), NEW m \in Msgs, m \in L
  PROVE  /\ ListOf(Replaced(m), L)
         /\ \A i \in DOMAIN Replaced(m) : Replaced(m)[i].status = "sending" =>
              /\ Replaced(m)[i].id # <<"local", m>>
              /\ \E j \in DOMAIN page.items : Replaced(m)[i] = page.items[j]
<1> DEFINE s == page.items
           P == {i \in DOMAIN page.items : page.items[i].id[2] # m}
           o == Selected(s, P)
<1>1. s \in Seq(Items) /\ DOMAIN s = 1..Len(s)
  BY DEF ListOf
<1>2. /\ o \in Seq(Items)
      /\ \A i \in DOMAIN o : \E k \in P \cap (1..Len(s)) : o[i] = s[k]
      /\ \A i, j \in DOMAIN o :
           i # j => \E k, l \in 1..Len(s) : k # l /\ o[i] = s[k] /\ o[j] = s[l]
  <2> HIDE DEF P, s
  <2> QED BY <1>1, SelectedIsOf
<1>3. \A k \in P : k \in DOMAIN s /\ s[k].id[2] # m
  OBVIOUS
<1>4. Replaced(m) = Append(o, Saved(m))
  BY DEF Replaced
<1> HIDE DEF o, P
<1>5. \A i, j \in DOMAIN o : o[i].id = o[j].id => i = j
  <2>1. \A k, l \in DOMAIN s : s[k].id = s[l].id => k = l
    BY DEF ListOf
  <2> HIDE DEF s
  <2> QED BY <1>1, <1>2, <2>1
<1>6. \A i \in DOMAIN o : o[i].id[2] # m /\ \E k \in DOMAIN s : o[i] = s[k]
  BY <1>2, <1>3
<1>7. \A i \in DOMAIN o : o[i].id[1] = "saved" => o[i].id[2] \in L
  BY <1>6 DEF ListOf
<1>8. ListOf(o, L)
  BY <1>2, <1>5, <1>7 DEF ListOf
<1>9. \A i \in DOMAIN o : o[i].id # Saved(m).id
  BY <1>6, SavedItem
<1> DEFINE q == Append(o, Saved(m))
<1>10. ListOf(q, L) /\ \A i \in DOMAIN q : q[i] = Saved(m) \/ \E j \in DOMAIN o : q[i] = o[j]
  BY <1>8, <1>9, SavedItem, ListAppends
<1> HIDE DEF q
<1>11. ASSUME NEW i \in DOMAIN q, q[i].status = "sending"
       PROVE  q[i].id # <<"local", m>> /\ \E j \in DOMAIN s : q[i] = s[j]
  <2>1. q[i] # Saved(m)
    BY <1>11, SavedItem
  <2>2. PICK j \in DOMAIN o : q[i] = o[j]
    BY <1>10, <2>1
  <2>3. <<"local", m>>[2] = m
    OBVIOUS
  <2> QED BY <1>6, <2>2, <2>3
<1> QED BY <1>4, <1>10, <1>11 DEF q

LEMMA StoredList ==
  ASSUME LogsKept, NEW c \in Convs
  PROVE  ListOf(Stored(c), Logged) /\ \A i \in DOMAIN Stored(c) : Stored(c)[i].status # "sending"
<1> DEFINE l == server.log[c]
           q == Stored(c)
<1>1. /\ l \in Seq(Msgs) /\ Len(l) \in Nat /\ DOMAIN l = 1..Len(l)
      /\ \A i, j \in DOMAIN l : l[i] = l[j] => i = j
  BY DEF LogsKept
<1>2. \A i \in DOMAIN l : l[i] \in Msgs /\ l[i] \in Logged
  BY <1>1 DEF Logged, ToSet
<1>3. q = [i \in DOMAIN l |-> Saved(l[i])]
  BY DEF Stored
<1> HIDE DEF l, q
<1>4. \A i \in DOMAIN l : q[i] = Saved(l[i]) /\ q[i] \in Items
  BY <1>2, <1>3, SavedItem
<1>5. q \in [1..Len(l) -> Items]
  <2>1. q = [i \in 1..Len(l) |-> q[i]]
    BY <1>1, <1>3
  <2> QED BY <1>1, <1>4, <2>1
<1>6. q \in Seq(Items) /\ DOMAIN q = DOMAIN l
  BY <1>1, <1>5
<1>7. \A i \in DOMAIN q : q[i].id[1] = "saved" /\ q[i].id[2] = l[i] /\ q[i].status = "sent"
  BY <1>2, <1>4, <1>6, SavedItem
<1>8. \A i, j \in DOMAIN q : q[i].id = q[j].id => i = j
  BY <1>1, <1>6, <1>7
<1>9. ListOf(q, Logged) /\ \A i \in DOMAIN q : q[i].status # "sending"
  BY <1>2, <1>6, <1>7, <1>8 DEF ListOf
<1> QED BY <1>9 DEF q

\* A new message in the log of c.
LEMMA PostedLogs ==
  ASSUME LogsKept, NEW c \in Convs, NEW m \in Msgs, m \notin Logged, Posted(c, m)
  PROVE  LogsKept' /\ Logged' = Logged \cup {m}
<1> DEFINE e == [type |-> "chat.delta", conv |-> c, m |-> m]
<1>1. /\ DOMAIN server' = DOMAIN server /\ DOMAIN server.log = Convs
      /\ server'.log = [server.log EXCEPT ![c] = Append(server.log[c], m)]
      /\ server'.events = Append(server.events, e)
  BY DEF LogsKept, Posted, Published
<1>2. e.m = m
  OBVIOUS
<1> HIDE DEF e
<1>3. \A d \in Convs : server'.log[d] = IF d = c THEN Append(server.log[c], m) ELSE server.log[d]
  BY <1>1
<1> DEFINE l == server.log[c]
           q == Append(l, m)
<1>4. /\ l \in Seq(Msgs) /\ Len(l) \in Nat /\ DOMAIN l = 1..Len(l)
      /\ \A i, j \in DOMAIN l : l[i] = l[j] => i = j
      /\ \A i \in DOMAIN l : l[i] # m
  BY DEF LogsKept, Logged, ToSet
<1>5. /\ q \in Seq(Msgs) /\ DOMAIN q = 1..(Len(l) + 1) /\ q[Len(l) + 1] = m
      /\ \A i \in 1..Len(l) : q[i] = l[i]
  BY <1>4
<1>6. server'.log[c] = q /\ \A d \in Convs \ {c} : server'.log[d] = server.log[d]
  BY <1>3
<1> HIDE DEF q, l
<1>7. \A i \in DOMAIN q : (i \in DOMAIN l /\ q[i] = l[i]) \/ (i = Len(l) + 1 /\ q[i] = m)
  BY <1>4, <1>5
<1>8. \A i, j \in DOMAIN q : q[i] = q[j] => i = j
  BY <1>4, <1>7
<1>9. ToSet(q) = ToSet(l) \cup {m}
  <2>1. \A y \in ToSet(q) : y \in ToSet(l) \cup {m}
    BY <1>7 DEF ToSet
  <2>2. \A i \in DOMAIN l : i \in DOMAIN q /\ q[i] = l[i]
    BY <1>4, <1>5
  <2>3. Len(l) + 1 \in DOMAIN q
    BY <1>4, <1>5
  <2> QED BY <1>5, <2>1, <2>2, <2>3 DEF ToSet
<1>10. Logged' = Logged \cup {m}
  <2>1. \A d \in Convs : ToSet(server'.log[d]) = IF d = c THEN ToSet(l) \cup {m} ELSE ToSet(server.log[d])
    BY <1>6, <1>9
  <2>2. l = server.log[c]
    BY DEF l
  <2>3. \A y : (\E d \in Convs : y \in ToSet(server'.log[d])) <=>
               (\E d \in Convs : y \in ToSet(server.log[d])) \/ y = m
    BY <2>1, <2>2
  <2>4. /\ \A y : y \in Logged' <=> \E d \in Convs : y \in ToSet(server'.log[d])
        /\ \A y : y \in Logged <=> \E d \in Convs : y \in ToSet(server.log[d])
    BY DEF Logged
  <2> QED BY <2>3, <2>4
<1>11. /\ \E E : server'.events \in Seq(E)
       /\ \A i \in DOMAIN server'.events :
            server'.events[i].type = "chat.delta" => server'.events[i].m \in Logged'
  <2> DEFINE v == server.events
             w == Append(v, e)
  <2>1. PICK E : v \in Seq(E)
    BY DEF LogsKept
  <2>2. v \in Seq(E \cup {e})
    BY <2>1
  <2>3. \A i \in DOMAIN v : v[i].type = "chat.delta" => v[i].m \in Logged
    BY DEF LogsKept
  <2>4. w = server'.events
    BY <1>1
  <2> HIDE DEF v
  <2>5. w \in Seq(E \cup {e}) /\ \A i \in DOMAIN w : w[i] = e \/ (i \in DOMAIN v /\ w[i] = v[i])
    BY <2>2
  <2> HIDE DEF w
  <2> QED BY <1>2, <1>10, <2>3, <2>4, <2>5
<1> QED BY <1>1, <1>5, <1>6, <1>8, <1>10, <1>11 DEF LogsKept

\* The log stays as it is.
LEMMA SameLogs ==
  ASSUME LogsKept, DOMAIN server' = DOMAIN server, server'.log = server.log,
         \E E : server'.events \in Seq(E),
         \A i \in DOMAIN server'.events :
           \/ \E j \in DOMAIN server.events : server'.events[i] = server.events[j]
           \/ server'.events[i].type # "chat.delta"
  PROVE  LogsKept' /\ Logged' = Logged
<1>1. Logged' = Logged
  BY DEF Logged
<1> QED BY <1>1 DEF LogsKept

-----------------------------------------------------------------------------
LEMMA SendsAsk ==
  ASSUME SendsKept, Logged' = Logged, NEW x, Ask(x), ChatRequest(x, Logged),
         x.op = "send" => \A s \in Open : s.op = "send" => s.m # x.m
  PROVE  SendsKept'
<1>1. Open' = Open \cup {x}
  BY AskOpens
<1>2. (\A y : y # x => Copies(y)' = Copies(y)) /\ (x \notin Open => Copies(x)' = 1)
  BY AskCopies
<1>3. \A r \in Open' : ChatRequest(r, Logged')
  BY <1>1 DEF SendsKept
<1>4. \A r \in Open' : r.op = "send" => Copies(r)' = 1
  BY <1>1, <1>2 DEF SendsKept
<1>5. \A r, s \in Open' : r.op = "send" /\ s.op = "send" /\ r.m = s.m => r = s
  BY <1>1 DEF SendsKept
<1> QED BY <1>3, <1>4, <1>5 DEF SendsKept

LEMMA SendsFollow ==
  ASSUME SendsKept, Logged' = Logged, NEW r \in Open, NEW x, wire' = BagAdd(Settled(r), x),
         ChatRequest(x, Logged), x.op # "send"
  PROVE  SendsKept'
<1>1. Open' \subseteq Open \cup {x}
  BY FollowOpens
<1>2. /\ \A y : y # r /\ y # x => Copies(y)' = Copies(y)
      /\ Copies(r) = 1 /\ x # r => r \notin Open'
  BY FollowCopies
<1>3. \A y \in Open' : ChatRequest(y, Logged')
  BY <1>1 DEF SendsKept
<1>4. \A y \in Open' : y.op = "send" => y \in Open /\ Copies(y)' = 1
  BY <1>1, <1>2 DEF SendsKept
<1> QED BY <1>3, <1>4 DEF SendsKept

LEMMA SendsSettle ==
  ASSUME SendsKept, Logged' = Logged, NEW r \in Open, wire' = Settled(r)
  PROVE  SendsKept' /\ (r.op = "send" => r \notin Open')
<1>1. Open' \subseteq Open
  BY SettleOpens
<1>2. (\A y : y # r => Copies(y)' = Copies(y)) /\ (Copies(r) = 1 => r \notin Open')
  BY SettleCopies
<1> QED BY <1>1, <1>2 DEF SendsKept

\* The send r is carried out.
LEMMA SendsPost ==
  ASSUME SendsKept, NEW r \in Open, r.op = "send", r.stage = "sent",
         Logged' = Logged \cup {r.m}, Reply(r, Answered(r))
  PROVE  SendsKept'
<1> DEFINE x == Answered(r)
<1>0. ChatRequest(r, Logged) /\ Copies(r) = 1
  BY DEF SendsKept
<1>1. DOMAIN x = DOMAIN r /\ x["stage"] = "ok" /\ \A k \in DOMAIN r : k # "stage" => x[k] = r[k]
  BY <1>0, AnswerKeeps DEF ChatRequest
<1>2. Reply(r, x)
  OBVIOUS
<1> HIDE DEF x
<1>3. x["op"] = r["op"] /\ x["m"] = r["m"] /\ x["conv"] = r["conv"]
  BY <1>0, <1>1 DEF ChatRequest
<1>4. ChatRequest(x, Logged')
  BY <1>0, <1>1, <1>3 DEF ChatRequest
<1>5. x # r /\ x \notin Open
  <2>1. x # r
    BY <1>1
  <2> QED BY <1>3, <2>1 DEF SendsKept
<1>6. Open' \subseteq Open \cup {x} /\ x \in Open'
  BY <1>2, ReplyOpens
<1>7. (\A y : y # r /\ y # x => Copies(y)' = Copies(y)) /\ r \notin Open' /\ Copies(x)' = 1
  BY <1>0, <1>2, <1>5, ReplyCopies
<1>8. ASSUME NEW y \in Open', y # x
      PROVE  y \in Open /\ y # r /\ ChatRequest(y, Logged') /\ (y.op = "send" => y.m # r.m)
  <2>1. y \in Open /\ y # r
    BY <1>6, <1>7, <1>8
  <2>2. ChatRequest(y, Logged) /\ (y.op = "send" => y.m # r.m)
    BY <2>1 DEF SendsKept
  <2>3. Logged \subseteq Logged'
    OBVIOUS
  <2>4. /\ {"op", "stage"} \subseteq DOMAIN y
        /\ y.op \in {"load", "first", "messages", "create", "convs", "send"}
        /\ y.op \in {"messages", "create", "send"} => "conv" \in DOMAIN y /\ y.conv \in Convs
    BY <2>2 DEF ChatRequest
  <2>5. y.op \in {"first", "messages"} /\ y.stage = "ok" =>
          /\ "items" \in DOMAIN y /\ ListOf(y.items, Logged')
          /\ \A i \in DOMAIN y.items : y.items[i].status # "sending"
    BY <2>2, <2>3, ListGrows DEF ChatRequest
  <2>6. y.op = "send" => /\ "m" \in DOMAIN y /\ y.m \in Msgs
                         /\ y.stage = "sent" => y.m \notin Logged'
                         /\ y.stage = "ok" => y.m \in Logged'
    BY <2>2 DEF ChatRequest
  <2> QED BY <2>1, <2>2, <2>4, <2>5, <2>6 DEF ChatRequest
<1>9. \A y \in Open' : ChatRequest(y, Logged') /\ (y.op = "send" => Copies(y)' = 1)
  BY <1>4, <1>7, <1>8 DEF SendsKept
<1>10. \A y, z \in Open' : y.op = "send" /\ z.op = "send" /\ y.m = z.m => y = z
  BY <1>3, <1>8 DEF SendsKept
<1> QED BY <1>9, <1>10 DEF SendsKept

\* Someone else writes m.
LEMMA SendsStay ==
  ASSUME SendsKept, wire' = wire, NEW m, Logged' = Logged \cup {m},
         \A s \in Open : s.op = "send" => s.m # m
  PROVE  SendsKept'
<1>1. Open' = Open /\ \A y : Copies(y)' = Copies(y)
  BY DEF Open, Copies
<1>2. ASSUME NEW y \in Open PROVE ChatRequest(y, Logged')
  <2>1. ChatRequest(y, Logged) /\ (y.op = "send" => y.m # m) /\ Logged \subseteq Logged'
    BY DEF SendsKept
  <2>2. y.op \in {"first", "messages"} /\ y.stage = "ok" =>
          /\ "items" \in DOMAIN y /\ ListOf(y.items, Logged')
          /\ \A i \in DOMAIN y.items : y.items[i].status # "sending"
    BY <2>1, ListGrows DEF ChatRequest
  <2> QED BY <2>1, <2>2 DEF ChatRequest
<1> QED BY <1>1, <1>2 DEF SendsKept

-----------------------------------------------------------------------------
LEMMA ChatKept ==
  ASSUME ChatInv, ChatNext
  PROVE  ChatInv'
<1>0. LogsKept /\ SendsKept /\ ScreenKept /\ ChatWaits
  BY DEF ChatInv
<1>w. /\ page.composer = "sending" => \E r \in Open : r.op = "send"
      /\ page.switching => \E r \in Open : r.op = "messages"
      /\ \A i \in DOMAIN page.items : page.items[i].status = "sending" =>
           \E r \in Open : r.op = "send" /\ page.items[i].id = <<"local", r.m>>
  BY <1>0 DEF ChatWaits
<1>s. /\ DOMAIN page = {"items", "active", "convs", "composer", "switching"}
      /\ page.active \in Convs \cup {Nil}
      /\ ListOf(page.items, Logged)
  BY <1>0 DEF ScreenKept
<1>l. /\ {"log", "convs", "events", "failed"} \subseteq DOMAIN server
      /\ DOMAIN server.log = Convs
      /\ \E E : server.events \in Seq(E)
  BY <1>0 DEF LogsKept
<1>q. \A r \in Open : ChatRequest(r, Logged)
  BY <1>0 DEF SendsKept
<1> DEFINE Old(e) == \E j \in DOMAIN page.items : e = page.items[j]
\* A handler sends x.
<1>1. ASSUME NEW x, Ask(x), LogsKept', Logged' = Logged, ChatRequest(x, Logged), ScreenKept',
             x.op = "send" => \A s \in Open : s.op = "send" => s.m # x.m,
             page'.composer = "sending" => page.composer = "sending" \/ x.op = "send",
             page'.switching => page.switching \/ x.op = "messages",
             \A i \in DOMAIN page'.items : page'.items[i].status = "sending" =>
               Old(page'.items[i]) \/ (x.op = "send" /\ page'.items[i].id = <<"local", x.m>>)
      PROVE  ChatInv'
  <2>1. Open' = Open \cup {x}
    BY <1>1, AskOpens
  <2>2. SendsKept'
    BY <1>0, <1>1, SendsAsk
  <2>3. \A i \in DOMAIN page'.items : page'.items[i].status = "sending" =>
           \E r \in Open' : r.op = "send" /\ page'.items[i].id = <<"local", r.m>>
    BY <1>w, <1>1, <2>1
  <2>4. ChatWaits'
    BY <1>w, <1>1, <2>1, <2>3 DEF ChatWaits
  <2> QED BY <1>1, <2>2, <2>4 DEF ChatInv
\* x takes the place of r.
<1>2. ASSUME NEW r \in Open, NEW x, wire' = BagAdd(Settled(r), x), LogsKept', Logged' = Logged,
             ChatRequest(x, Logged), x.op # "send", r.op # "send", ScreenKept',
             page'.composer = "sending" => page.composer = "sending",
             page'.switching => (page.switching /\ r.op # "messages") \/ x.op = "messages",
             \A i \in DOMAIN page'.items : page'.items[i].status = "sending" => Old(page'.items[i])
      PROVE  ChatInv'
  <2>1. Open \subseteq Open' \cup {r} /\ x \in Open'
    BY <1>2, FollowOpens
  <2>2. SendsKept'
    BY <1>0, <1>2, SendsFollow
  <2>3. \A i \in DOMAIN page'.items : page'.items[i].status = "sending" =>
           \E q \in Open' : q.op = "send" /\ page'.items[i].id = <<"local", q.m>>
    BY <1>w, <1>2, <2>1
  <2>4. ChatWaits'
    BY <1>w, <1>2, <2>1, <2>3 DEF ChatWaits
  <2> QED BY <1>2, <2>2, <2>4 DEF ChatInv
\* r ends.
<1>3. ASSUME NEW r \in Open, wire' = Settled(r), LogsKept', Logged' = Logged, ScreenKept',
             page'.composer = "sending" => page.composer = "sending" /\ r.op # "send",
             page'.switching => page.switching /\ r.op # "messages",
             \A i \in DOMAIN page'.items : page'.items[i].status = "sending" =>
               /\ Old(page'.items[i])
               /\ ~(r.op = "send" /\ page'.items[i].id = <<"local", r.m>>)
      PROVE  ChatInv'
  <2>1. Open \subseteq Open' \cup {r}
    BY <1>3, SettleOpens
  <2>2. SendsKept'
    BY <1>0, <1>3, SendsSettle
  <2>3. \A i \in DOMAIN page'.items : page'.items[i].status = "sending" =>
           \E q \in Open' : q.op = "send" /\ page'.items[i].id = <<"local", q.m>>
    BY <1>w, <1>3, <2>1
  <2>4. ChatWaits'
    BY <1>w, <1>3, <2>1, <2>3 DEF ChatWaits
  <2> QED BY <1>3, <2>2, <2>4 DEF ChatInv
\* No request is sent or ends.
<1>4. ASSUME wire' = wire, LogsKept', Logged' = Logged, ScreenKept',
             page'.composer = "sending" => page.composer = "sending",
             page'.switching => page.switching,
             \A i \in DOMAIN page'.items : page'.items[i].status = "sending" => Old(page'.items[i])
      PROVE  ChatInv'
  <2>1. Open' = Open /\ \A y : Copies(y)' = Copies(y)
    BY <1>4 DEF Open, Copies
  <2>2. SendsKept'
    BY <1>0, <1>4, <2>1 DEF SendsKept
  <2>3. ChatWaits'
    BY <1>w, <1>4, <2>1 DEF ChatWaits
  <2> QED BY <1>4, <2>2, <2>3 DEF ChatInv
\* What the backend holds stays.
<1>5. server' = server => LogsKept' /\ Logged' = Logged
  BY <1>0 DEF LogsKept, Logged
<1>6. page' = page /\ Logged \subseteq Logged' => ScreenKept'
  BY <1>s, ListGrows DEF ScreenKept
\* What is neither a list nor a send.
<1>7. \A x : {"op", "stage"} \subseteq DOMAIN x /\ x.op \in {"load", "first", "create", "messages", "convs"}
             /\ (x.op \in {"messages", "create"} => "conv" \in DOMAIN x /\ x.conv \in Convs)
             /\ (x.stage = "sent" \/ x.op \in {"load", "create", "convs"}) => ChatRequest(x, Logged)
  BY DEF ChatRequest
<1>8. \A c \in Convs : ChatRequest(GetMessages(c), Logged) /\ GetMessages(c).op = "messages"
  <2>1. \A c : /\ DOMAIN GetMessages(c) = {"op", "stage", "conv"} /\ GetMessages(c).op = "messages"
               /\ GetMessages(c).stage = "sent" /\ GetMessages(c).conv = c
    BY DEF GetMessages
  <2> QED BY <1>7, <2>1
\* A message that is not used.
<1>u. ASSUME NEW m \in Msgs \ Used
      PROVE  /\ m \in Msgs /\ m \notin Logged /\ \A s \in Open : s.op = "send" => s.m # m
             /\ \A i \in DOMAIN page.items : page.items[i].id[2] # m
  <2> DEFINE A == {r.m : r \in Pending("send")}
             B == {page.items[i].id[2] : i \in DOMAIN page.items}
  <2>1. Used = Logged \cup A \cup B
    BY DEF Used, Logged
  <2>2. m \notin A => \A s \in Open : s.op = "send" => s.m # m
    BY DEF Pending
  <2>3. m \notin B => \A i \in DOMAIN page.items : page.items[i].id[2] # m
    OBVIOUS
  <2> HIDE DEF A, B
  <2> QED BY <2>1, <2>2, <2>3
<1>9. ASSUME NEW c \in Convs, SwitchConversation(c) PROVE ChatInv'
  <2>1. /\ Ask(GetMessages(c)) /\ server' = server
        /\ page' = [page EXCEPT !.switching = TRUE, !.active = c]
    BY <1>9 DEF SwitchConversation, Switching
  <2>2. /\ DOMAIN page' = DOMAIN page /\ page'.active = c /\ page'.items = page.items
        /\ page'.composer = page.composer
    BY <1>s, <2>1
  <2>3. ScreenKept'
    BY <1>s, <1>5, <2>1, <2>2 DEF ScreenKept
  <2> QED BY <1>1, <1>5, <1>8, <2>1, <2>2, <2>3
<1>10. ASSUME NEW c \in Convs, OpenDm(c) PROVE ChatInv'
  <2> DEFINE x == [op |-> "create", stage |-> "sent", conv |-> c, active |-> c = page.active]
  <2>1. Ask(x) /\ server' = server /\ page' = page
    BY <1>10 DEF OpenDm
  <2>2. /\ DOMAIN x = {"op", "stage", "conv", "active"} /\ x.op = "create" /\ x.stage = "sent"
        /\ x.conv = c
    OBVIOUS
  <2> HIDE DEF x
  <2>3. ChatRequest(x, Logged)
    BY <1>7, <2>2
  <2> QED BY <1>1, <1>5, <1>6, <2>1, <2>2, <2>3
<1>11. ASSUME NEW m \in Msgs \ Used, SendMessage(m) PROVE ChatInv'
  <2> DEFINE x == [op |-> "send", stage |-> "sent", conv |-> page.active, m |-> m]
             e == [id |-> <<"local", m>>, status |-> "sending"]
  <2>1. /\ Ask(x) /\ server' = server /\ page.active # Nil
        /\ page' = [page EXCEPT !.composer = "sending", !.items = Append(page.items, e)]
    BY <1>11 DEF SendMessage, ComposerOffered
  <2>2. /\ m \in Msgs /\ m \notin Logged /\ \A s \in Open : s.op = "send" => s.m # m
        /\ \A i \in DOMAIN page.items : page.items[i].id[2] # m
    BY <1>u
  <2>3. /\ x.op = "send" /\ x.stage = "sent" /\ x.m = m /\ x.conv = page.active
        /\ DOMAIN x = {"op", "stage", "conv", "m"}
    OBVIOUS
  <2>4. e \in Items /\ e.id = <<"local", m>> /\ e.id[1] = "local" /\ e.id[2] = m
    BY <2>2 DEF Items, ItemStatus
  <2>5. /\ DOMAIN page' = DOMAIN page /\ page'.active = page.active
        /\ page'.items = Append(page.items, e) /\ page'.switching = page.switching
    BY <1>s, <2>1
  <2> HIDE DEF x, e
  <2>6. ChatRequest(x, Logged)
    BY <1>s, <2>1, <2>2, <2>3 DEF ChatRequest
  <2>7. \A i \in DOMAIN page.items : page.items[i].id # e.id
    BY <2>2, <2>4
  <2>8. /\ ListOf(Append(page.items, e), Logged)
        /\ \A i \in DOMAIN Append(page.items, e) :
              Append(page.items, e)[i] = e \/ Old(Append(page.items, e)[i])
    BY <1>s, <2>4, <2>7, ListAppends
  <2>9. ScreenKept'
    BY <1>s, <1>5, <2>1, <2>5, <2>8 DEF ScreenKept
  <2> QED BY <1>1, <1>5, <2>1, <2>2, <2>3, <2>4, <2>5, <2>6, <2>8, <2>9
<1>12. CASE RetryComposer
  <2>1. /\ wire' = wire /\ server' = server /\ DOMAIN page' = DOMAIN page /\ page'.composer = "idle"
        /\ page'.active = page.active /\ page'.items = page.items /\ page'.switching = page.switching
    BY <1>s, <1>12 DEF RetryComposer
  <2>2. ScreenKept'
    BY <1>s, <1>5, <2>1 DEF ScreenKept
  <2> QED BY <1>4, <1>5, <2>1, <2>2
<1>13. CASE ChatEventsLost
  <2>1. /\ wire' = wire /\ page' = page /\ DOMAIN server' = DOMAIN server
        /\ server'.log = server.log /\ server'.events = <<>>
    BY <1>l, <1>13 DEF ChatEventsLost
  <2>2. <<>> \in Seq({}) /\ DOMAIN <<>> = {}
    OBVIOUS
  <2>3. LogsKept' /\ Logged' = Logged
    BY <1>0, <2>1, <2>2, SameLogs
  <2> QED BY <1>4, <1>6, <2>1, <2>3
<1>m. Logged \subseteq Msgs
  <2>1. \A c \in Convs : server.log[c] \in Seq(Msgs)
    BY <1>0 DEF LogsKept
  <2>2. ASSUME NEW c \in Convs PROVE ToSet(server.log[c]) \subseteq Msgs
    BY <2>1 DEF ToSet
  <2> QED BY <2>2 DEF Logged
<1>14. CASE ChatEvent
  <2> DEFINE v == server.events
             e == Head(server.events)
  <2>1. PICK E : v \in Seq(E)
    BY <1>l
  <2>2. /\ v # <<>> /\ DOMAIN server' = DOMAIN server /\ server'.log = server.log
        /\ server'.events = Tail(v)
        /\ IF e.type = "chat.delta" THEN ChatDelta(e.conv, e.m) ELSE ChatStatus(e.m)
    BY <1>l, <1>14 DEF ChatEvent
  <2>3. /\ 1 \in DOMAIN v /\ Head(v) = v[1] /\ Tail(v) \in Seq(E)
        /\ \A i \in DOMAIN Tail(v) : i + 1 \in DOMAIN v /\ Tail(v)[i] = v[i + 1]
    <3> HIDE DEF v
    <3> QED BY <2>1, <2>2
  <2>4. LogsKept' /\ Logged' = Logged
    BY <1>0, <2>2, <2>3, SameLogs
  <2>5. e.type = "chat.delta" => e.m \in Logged
    BY <1>0, <2>3 DEF LogsKept
  <2> HIDE DEF v, e
  <2>6. ASSUME e.type = "chat.delta", Ask(Query("convs")), page' = page PROVE ChatInv'
    <3>1. ChatRequest(Query("convs"), Logged) /\ Query("convs").op = "convs"
      BY <1>7 DEF Query
    <3> QED BY <1>1, <1>6, <2>4, <2>6, <3>1
  <2>7. ASSUME e.type = "chat.delta", wire' = wire,
               page' = IF Shown(<<"saved", e.m>>) THEN page
                       ELSE [page EXCEPT !.items = Append(page.items, Saved(e.m))]
        PROVE  ChatInv'
    <3> DEFINE m == e.m
    <3>1. CASE Shown(<<"saved", m>>)
      BY <1>4, <1>6, <2>4, <2>7, <3>1
    <3>2. CASE ~Shown(<<"saved", m>>)
      <4>1. m \in Logged /\ m \in Msgs
        BY <1>m, <2>5, <2>7
      <4>2. \A i \in DOMAIN page.items : page.items[i].id # <<"saved", m>>
        BY <3>2 DEF Shown
      <4>3. /\ DOMAIN page' = DOMAIN page /\ page'.active = page.active
            /\ page'.switching = page.switching /\ page'.composer = page.composer
            /\ page'.items = Append(page.items, Saved(m))
        BY <1>s, <2>7, <3>2
      <4> HIDE DEF m
      <4>4. /\ ListOf(page'.items, Logged)
            /\ \A i \in DOMAIN page'.items : page'.items[i] = Saved(m) \/ Old(page'.items[i])
        BY <1>s, <4>1, <4>2, <4>3, SavedItem, ListAppends
      <4>5. ScreenKept'
        BY <1>s, <2>4, <4>3, <4>4 DEF ScreenKept
      <4>6. \A i \in DOMAIN page'.items : page'.items[i].status = "sending" => Old(page'.items[i])
        BY <4>1, <4>4, SavedItem
      <4> QED BY <1>4, <2>4, <2>7, <4>3, <4>5, <4>6
    <3> QED BY <3>1, <3>2
  <2>8. ASSUME ChatStatus(e.m) PROVE ChatInv'
    <3> DEFINE m == e.m
    <3>1. /\ wire' = wire /\ DOMAIN page' = DOMAIN page /\ page'.active = page.active
          /\ page'.switching = page.switching /\ page'.composer = "failed"
          /\ page'.items = Marked(<<"saved", m>>, "failed")
      BY <1>s, <2>8 DEF ChatStatus
    <3> HIDE DEF m
    <3>2. /\ ListOf(page'.items, Logged)
          /\ \A i \in DOMAIN page'.items : page'.items[i].status = "sending" => Old(page'.items[i])
      BY <1>s, <3>1, ListMarks
    <3>3. ScreenKept'
      BY <1>s, <2>4, <3>1, <3>2 DEF ScreenKept
    <3> QED BY <1>4, <2>4, <3>1, <3>2, <3>3
  <2> QED BY <2>2, <2>6, <2>7, <2>8 DEF ChatDelta
<1>15. ASSUME NEW c \in Convs, DeliveryFails(c) PROVE ChatInv'
  <2> DEFINE m == Head(server.log[c])
             e == [type |-> "chat.status", m |-> m]
             v == server.events
             w == Append(v, e)
  <2>1. /\ wire' = wire /\ page' = page /\ DOMAIN server' = DOMAIN server
        /\ server'.log = server.log /\ server'.events = w
    BY <1>l, <1>15 DEF DeliveryFails, Published
  <2>2. e.type # "chat.delta"
    OBVIOUS
  <2>3. PICK E : v \in Seq(E)
    BY <1>l
  <2> HIDE DEF m, e
  <2>4. w \in Seq(E \cup {e}) /\ \A i \in DOMAIN w : w[i] = e \/ (i \in DOMAIN v /\ w[i] = v[i])
    <3> HIDE DEF v
    <3>1. v \in Seq(E \cup {e})
      BY <2>3
    <3> QED BY <3>1
  <2> HIDE DEF w
  <2>5. LogsKept' /\ Logged' = Logged
    BY <1>0, <2>1, <2>2, <2>4, SameLogs
  <2> QED BY <1>4, <1>6, <2>1, <2>5
<1>16. ASSUME NEW m \in Msgs \ Used, NEW c \in Convs, OthersPost(c, m) PROVE ChatInv'
  <2>1. Posted(c, m) /\ wire' = wire /\ page' = page
    BY <1>16 DEF OthersPost
  <2>2. m \in Msgs /\ m \notin Logged /\ \A s \in Open : s.op = "send" => s.m # m
    BY <1>u
  <2>3. LogsKept' /\ Logged' = Logged \cup {m}
    BY <1>0, <2>1, <2>2, PostedLogs
  <2>4. SendsKept'
    BY <1>0, <2>1, <2>2, <2>3, SendsStay
  <2>5. Open' = Open
    BY <2>1 DEF Open
  <2>6. ChatWaits'
    BY <1>w, <2>1, <2>5 DEF ChatWaits
  <2> QED BY <1>6, <2>1, <2>3, <2>4, <2>6 DEF ChatInv
<1>17. ASSUME NEW r \in Open, NEW ok \in BOOLEAN, ChatLoaded(r, ok) PROVE ChatInv'
  <2>1. r.op \in {"load", "first"} /\ (ok => r.stage = "ok") /\ server' = server
    BY <1>17 DEF ChatLoaded, Ends
  <2>2. CASE ok /\ r.op = "load"
    <3> DEFINE x == Joined(Query("first"), [list |-> r.list])
    <3>1. wire' = BagAdd(Settled(r), x) /\ page' = page
      BY <1>17, <2>2 DEF ChatLoaded
    <3>2. {"op", "stage"} \subseteq DOMAIN x /\ x["op"] = "first" /\ x["stage"] = "sent"
      BY DEF Joined, Query
    <3> HIDE DEF x
    <3>3. ChatRequest(x, Logged)
      BY <1>7, <3>2
    <3> QED BY <1>2, <1>5, <1>6, <2>1, <3>1, <3>2, <3>3
  <2>3. CASE ~(ok /\ r.op = "load")
    <3>1. /\ wire' = Settled(r)
          /\ page' = IF ~ok THEN page
                     ELSE [page EXCEPT !.convs = r.list, !.active = FirstConv, !.items = r.items]
      BY <1>17, <2>3 DEF ChatLoaded
    <3>2. CASE ~ok
      BY <1>3, <1>5, <1>6, <2>1, <3>1, <3>2
    <3>3. CASE ok
      <4>1. /\ DOMAIN page' = DOMAIN page /\ page'.active = FirstConv /\ page'.items = r.items
            /\ page'.composer = page.composer /\ page'.switching = page.switching
        BY <1>s, <3>1, <3>3
      <4>2. r.op = "first" /\ r.stage = "ok"
        BY <2>1, <2>3, <3>3
      <4>3. ListOf(r.items, Logged) /\ \A i \in DOMAIN r.items : r.items[i].status # "sending"
        BY <1>q, <4>2 DEF ChatRequest
      <4>4. ScreenKept'
        BY <1>s, <1>5, <2>1, <4>1, <4>3, FirstConvAssumption DEF ScreenKept
      <4> QED BY <1>3, <1>5, <2>1, <3>1, <4>1, <4>2, <4>3, <4>4
    <3> QED BY <3>2, <3>3
  <2> QED BY <2>2, <2>3
<1>18. ASSUME NEW r \in Open, NEW ok \in BOOLEAN, MessagesLoaded(r, ok) PROVE ChatInv'
  <2>1. /\ r.op = "messages" /\ (ok => r.stage = "ok") /\ server' = server /\ wire' = Settled(r)
        /\ page' = [page EXCEPT !.switching = FALSE,
                                !.items = IF ok THEN r.items ELSE page.items]
    BY <1>18 DEF MessagesLoaded, Ends
  <2>2. /\ DOMAIN page' = DOMAIN page /\ page'.active = page.active
        /\ page'.composer = page.composer /\ page'.switching = FALSE
        /\ page'.items = IF ok THEN r.items ELSE page.items
    BY <1>s, <2>1
  <2>3. ok => ListOf(r.items, Logged) /\ \A i \in DOMAIN r.items : r.items[i].status # "sending"
    BY <1>q, <2>1 DEF ChatRequest
  <2>4. ScreenKept'
    BY <1>s, <1>5, <2>1, <2>2, <2>3 DEF ScreenKept
  <2> QED BY <1>3, <1>5, <2>1, <2>2, <2>3, <2>4
<1>19. ASSUME NEW r \in Open, NEW ok \in BOOLEAN, ConversationCreated(r, ok) PROVE ChatInv'
  <2> DEFINE listed == [page EXCEPT !.convs = page.convs \cup {r.conv}]
             x == GetMessages(r.conv)
  <2>1. /\ r.op = "create" /\ r.conv \in Convs /\ server' = server
        /\ \/ page' \in {page, listed} /\ wire' = Settled(r)
           \/ page' = Switching(listed, r.conv) /\ wire' = BagAdd(Settled(r), x)
    BY <1>q, <1>19 DEF ConversationCreated, ChatRequest
  <2>2. /\ DOMAIN listed = DOMAIN page /\ listed.active = page.active /\ listed.items = page.items
        /\ listed.composer = page.composer /\ listed.switching = page.switching
    BY <1>s
  <2> HIDE DEF listed, x
  <2>3. CASE page' \in {page, listed} /\ wire' = Settled(r)
    <3>1. /\ DOMAIN page' = DOMAIN page /\ page'.active = page.active /\ page'.items = page.items
          /\ page'.composer = page.composer /\ page'.switching = page.switching
      BY <2>2, <2>3
    <3>2. ScreenKept'
      BY <1>s, <1>5, <2>1, <3>1 DEF ScreenKept
    <3> QED BY <1>3, <1>5, <2>1, <2>3, <3>1, <3>2
  <2>4. CASE page' = Switching(listed, r.conv) /\ wire' = BagAdd(Settled(r), x)
    <3>1. /\ DOMAIN page' = DOMAIN page /\ page'.active = r.conv /\ page'.items = page.items
          /\ page'.composer = page.composer
      BY <1>s, <2>2, <2>4 DEF Switching
    <3>2. ScreenKept'
      BY <1>s, <1>5, <2>1, <3>1 DEF ScreenKept
    <3>3. ChatRequest(x, Logged) /\ x.op = "messages"
      BY <1>8, <2>1 DEF x
    <3> QED BY <1>2, <1>5, <2>1, <2>4, <3>1, <3>2, <3>3
  <2> QED BY <2>1, <2>3, <2>4
<1>20. ASSUME NEW r \in Open, NEW ok \in BOOLEAN, ConversationsLoaded(r, ok) PROVE ChatInv'
  <2>1. /\ r.op = "convs" /\ server' = server /\ wire' = Settled(r)
        /\ page' = [page EXCEPT !.convs = IF ok THEN r.list ELSE page.convs]
    BY <1>20 DEF ConversationsLoaded
  <2>2. /\ DOMAIN page' = DOMAIN page /\ page'.active = page.active /\ page'.items = page.items
        /\ page'.composer = page.composer /\ page'.switching = page.switching
    BY <1>s, <2>1
  <2>3. ScreenKept'
    BY <1>s, <1>5, <2>1, <2>2 DEF ScreenKept
  <2> QED BY <1>3, <1>5, <2>1, <2>2, <2>3
<1>21. ASSUME NEW r \in Open, NEW ok \in BOOLEAN, MessageSent(r, ok) PROVE ChatInv'
  <2>1. /\ r.op = "send" /\ (ok => r.stage = "ok") /\ server' = server /\ wire' = Settled(r)
        /\ page' = IF ok THEN [page EXCEPT !.items = Replaced(r.m), !.composer = "idle"]
                   ELSE [page EXCEPT !.items = Marked(<<"local", r.m>>, "failed"),
                                     !.composer = "failed"]
    BY <1>21 DEF MessageSent, Ends
  <2>2. r.m \in Msgs /\ (ok => r.m \in Logged)
    BY <1>q, <2>1 DEF ChatRequest
  <2>3. /\ DOMAIN page' = DOMAIN page /\ page'.active = page.active
        /\ page'.switching = page.switching /\ page'.composer # "sending"
        /\ page'.items = IF ok THEN Replaced(r.m) ELSE Marked(<<"local", r.m>>, "failed")
    BY <1>s, <2>1
  <2>4. /\ ListOf(page'.items, Logged)
        /\ \A i \in DOMAIN page'.items : page'.items[i].status = "sending" =>
             Old(page'.items[i]) /\ page'.items[i].id # <<"local", r.m>>
    <3>1. CASE ok
      BY <1>s, <2>2, <2>3, <3>1, ListReplaces
    <3>2. CASE ~ok
      BY <1>s, <2>3, <3>2, ListMarks
    <3> QED BY <3>1, <3>2
  <2>5. ScreenKept'
    BY <1>s, <1>5, <2>1, <2>3, <2>4 DEF ScreenKept
  <2> QED BY <1>3, <1>5, <2>1, <2>3, <2>4, <2>5
<1>22. ASSUME NEW r \in Open, ServeChat(r) PROVE ChatInv'
  <2>1. ChatRequest(r, Logged) /\ {"op", "stage"} \subseteq DOMAIN r
    BY <1>q DEF ChatRequest
  <2>2. r.stage = "sent" /\ page' = page
    BY <1>22 DEF ServeChat
  \* What is read is told.
  <2>3. ASSUME NEW x, Reply(r, x), ChatRequest(x, Logged), x.op = r.op, r.op # "send",
               LogsKept', Logged' = Logged
        PROVE  ChatInv'
    BY <1>2, <1>6, <2>2, <2>3 DEF Reply, Settled
  <2>4. ASSUME r.op \in {"load", "convs"}, Reply(r, AnsweredWith(r, [list |-> server.convs])),
               server' = server
        PROVE  ChatInv'
    <3> DEFINE x == AnsweredWith(r, [list |-> server.convs])
    <3>1. {"op", "stage"} \subseteq DOMAIN x /\ x.op = r.op
      BY <2>1, AnswerWithAsks
    <3> HIDE DEF x
    <3>2. ChatRequest(x, Logged)
      BY <1>7, <2>4, <3>1
    <3> QED BY <1>5, <2>3, <2>4, <3>1, <3>2 DEF x
  <2>5. ASSUME NEW c \in Convs, r.op \in {"first", "messages"}, server' = server,
               Reply(r, AnsweredWith(r, [items |-> Stored(c)]))
        PROVE  ChatInv'
    <3> DEFINE f == [items |-> Stored(c)]
               x == AnsweredWith(r, f)
    <3>1. {"op", "stage"} \subseteq DOMAIN x /\ x.op = r.op
      BY <2>1, AnswerWithAsks
    <3>2. /\ DOMAIN x = DOMAIN r \cup {"items"} /\ x["items"] = Stored(c)
          /\ "conv" \in DOMAIN r => x["conv"] = r["conv"]
      <4>1. DOMAIN f = {"items"} /\ f["items"] = Stored(c)
        OBVIOUS
      <4> HIDE DEF f
      <4> QED BY <4>1, AnswerWithKeeps
    <3> HIDE DEF x
    <3>3. ListOf(Stored(c), Logged) /\ \A i \in DOMAIN Stored(c) : Stored(c)[i].status # "sending"
      BY <1>0, StoredList
    <3>4. ChatRequest(x, Logged)
      BY <2>1, <2>5, <3>1, <3>2, <3>3 DEF ChatRequest
    <3> QED BY <1>5, <2>3, <2>5, <3>1, <3>4 DEF x
  <2>6. ASSUME r.op = "create", Reply(r, Answered(r)),
               server' = [server EXCEPT !.convs = server.convs \cup {r.conv}]
        PROVE  ChatInv'
    <3> DEFINE x == Answered(r)
    <3>1. DOMAIN x = DOMAIN r /\ \A k \in DOMAIN r : k # "stage" => x[k] = r[k]
      BY AnswerKeeps
    <3> HIDE DEF x
    <3>2. "conv" \in DOMAIN r /\ r.conv \in Convs
      BY <2>1, <2>6 DEF ChatRequest
    <3>3. x["op"] = r["op"] /\ x["conv"] = r["conv"]
      BY <2>1, <3>1, <3>2
    <3>4. ChatRequest(x, Logged)
      BY <1>7, <2>1, <2>6, <3>1, <3>2, <3>3
    <3>5. DOMAIN server' = DOMAIN server /\ server'.log = server.log /\ server'.events = server.events
      BY <1>l, <2>6
    <3>6. LogsKept' /\ Logged' = Logged
      BY <1>0, <1>l, <3>5, SameLogs
    <3> QED BY <2>3, <2>6, <3>3, <3>4, <3>6 DEF x
  <2>7. ASSUME r.op = "send", Posted(r.conv, r.m), Reply(r, Answered(r)) PROVE ChatInv'
    <3> DEFINE x == Answered(r)
    <3>1. r.conv \in Convs /\ "m" \in DOMAIN r /\ r.m \in Msgs /\ r.m \notin Logged
      BY <2>1, <2>2, <2>7 DEF ChatRequest
    <3>2. LogsKept' /\ Logged' = Logged \cup {r.m}
      BY <1>0, <2>7, <3>1, PostedLogs
    <3>3. SendsKept'
      BY <1>0, <2>2, <2>7, <3>2, SendsPost
    <3>4. DOMAIN x = DOMAIN r /\ \A k \in DOMAIN r : k # "stage" => x[k] = r[k]
      BY AnswerKeeps
    <3>5. Open \subseteq Open' \cup {r} /\ x \in Open'
      BY <2>7, ReplyOpens
    <3> HIDE DEF x
    <3>6. x["op"] = r["op"] /\ x["m"] = r["m"]
      BY <2>1, <3>1, <3>4
    <3>7. \A q \in Open : q \in Open' \/ (q = r /\ x.op = q.op /\ x.m = q.m)
      BY <3>5, <3>6
    <3>8. ChatWaits'
      BY <1>w, <2>2, <2>7, <3>5, <3>6, <3>7 DEF ChatWaits
    <3> QED BY <1>6, <2>2, <3>2, <3>3, <3>8 DEF ChatInv
  <2>8. r.op = "messages" => r.conv \in Convs
    BY <2>1 DEF ChatRequest
  <2> QED BY <1>22, <2>4, <2>5, <2>6, <2>7, <2>8, FirstConvAssumption DEF ServeChat
<1>23. \A r \in Open : ChatAnswer(r) => ChatInv'
  BY <1>17, <1>18, <1>19, <1>20, <1>21 DEF ChatAnswer
<1> QED
  BY <1>9, <1>10, <1>11, <1>12, <1>13, <1>14, <1>15, <1>16, <1>22, <1>23 DEF ChatNext

-----------------------------------------------------------------------------
(***************************************************************************)
(* The chat store.  A message that is shown as being sent has the          *)
(* temporary id of a call that is open; what is read is never one.         *)
(***************************************************************************)
StoredItems == [temp : BOOLEAN, id : Nat, status : {"sending", "sent", "failed"}]

StoreRequest(r) ==
  /\ {"op", "stage"} \subseteq DOMAIN r
  /\ r.op = "send" => "temp" \in DOMAIN r
  /\ r.op = "messages" =>
       /\ "older" \in DOMAIN r
       /\ r.stage = "ok" => /\ {"items", "more"} \subseteq DOMAIN r /\ r.items \in Seq(StoredItems)
                            /\ \A i \in DOMAIN r.items : r.items[i].status # "sending"

StoreTyped ==
  /\ DOMAIN page = {"listed", "active", "messages", "older", "unread", "loading", "temps"}
  /\ page.messages \in Seq(StoredItems) /\ page.temps \in Nat
  /\ {"messages", "deltas"} \subseteq DOMAIN server
  /\ \E C : server.messages \in Seq(C)
  /\ server.deltas \in Seq(Nat)

StoreInv ==
  /\ StoreTyped
  /\ \A r \in Open : StoreRequest(r)
  /\ page.loading => \E r \in Open : r.op \in {"convs", "messages"}
  /\ \A i \in DOMAIN page.messages : page.messages[i].status = "sending" =>
       \E r \in Open : r.op = "send" /\ IsTemp(page.messages[i], r.temp)

LEMMA StoreWaits == StoreInv => StoreBusyMeansWaiting
BY DEF StoreInv, StoreBusyMeansWaiting, Pending

LEMMA StoreStarts ==
  ASSUME StoreMounted(<<>>)
  PROVE  StoreInv'
<1>1. Open' = {}
  BY MountEmpty DEF StoreMounted
<1>2. /\ DOMAIN page' = {"listed", "active", "messages", "older", "unread", "loading", "temps"}
      /\ page'.messages = <<>> /\ page'.temps = 0 /\ page'.loading = FALSE
      /\ DOMAIN server' = {"messages", "deltas"} /\ server'.messages = <<>> /\ server'.deltas = <<>>
  BY DEF StoreMounted, Mounting
<1>3. <<>> \in Seq(StoredItems) /\ <<>> \in Seq({}) /\ <<>> \in Seq(Nat) /\ DOMAIN <<>> = {}
  OBVIOUS
<1> QED BY <1>1, <1>2, <1>3 DEF StoreInv, StoreTyped

LEMMA StoreAsks ==
  /\ StoreRequest(LoadConversations) /\ LoadConversations.op = "convs"
  /\ \A c, older : StoreRequest(LoadMessages(c, older)) /\ LoadMessages(c, older).op = "messages"
  /\ \A c, t : StoreRequest(SendTo(c, t)) /\ SendTo(c, t).op = "send" /\ SendTo(c, t).temp = t
BY DEF StoreRequest, LoadConversations, LoadMessages, SendTo, Query

\* The messages of a conversation have been sent.
LEMMA ItemsAreSent ==
  ASSUME NEW c, NEW C, server.messages \in Seq(C)
  PROVE  /\ ItemsOf(c) \in Seq(StoredItems)
         /\ \A i \in DOMAIN ItemsOf(c) : ItemsOf(c)[i].status # "sending"
<1> DEFINE s == [n \in DOMAIN server.messages |-> [temp |-> FALSE, id |-> n, status |-> "sent"]]
           P == {n \in DOMAIN server.messages : server.messages[n] = c}
           o == Selected(s, P)
<1>1. /\ DOMAIN s = 1..Len(server.messages) /\ Len(server.messages) \in Nat
      /\ \A n \in DOMAIN s : s[n] \in StoredItems /\ s[n].status = "sent"
  BY DEF StoredItems
<1> HIDE DEF s, P
<1>2. s \in Seq(StoredItems) /\ DOMAIN s = 1..Len(s)
  <2>1. s \in [1..Len(server.messages) -> StoredItems]
    <3>1. s = [n \in DOMAIN s |-> s[n]]
      BY DEF s
    <3> QED BY <1>1, <3>1
  <2> QED BY <1>1, <2>1
<1>3. /\ o \in Seq(StoredItems)
      /\ \A i \in DOMAIN o : \E k \in P \cap (1..Len(s)) : o[i] = s[k]
  BY <1>2, SelectedIsOf
<1> HIDE DEF o
<1>4. \A i \in DOMAIN o : o[i].status # "sending"
  BY <1>1, <1>2, <1>3
<1>5. ItemsOf(c) = o
  BY DEF ItemsOf, o, s, P
<1> QED BY <1>3, <1>4, <1>5

LEMMA StoreKept ==
  ASSUME StoreInv, StoreNext
  PROVE  StoreInv'
<1>0. /\ StoreTyped
      /\ \A r \in Open : StoreRequest(r)
      /\ page.loading => \E r \in Open : r.op \in {"convs", "messages"}
      /\ \A i \in DOMAIN page.messages : page.messages[i].status = "sending" =>
           \E r \in Open : r.op = "send" /\ IsTemp(page.messages[i], r.temp)
  BY DEF StoreInv
<1> DEFINE Shown1(m) == \E j \in DOMAIN page.messages : m = page.messages[j]
\* No request is sent or ends.
<1>1. ASSUME wire' = wire, StoreTyped', page'.loading => page.loading,
             \A i \in DOMAIN page'.messages :
               page'.messages[i].status = "sending" => Shown1(page'.messages[i])
      PROVE  StoreInv'
  <2>1. Open' = Open
    BY <1>1 DEF Open
  <2> QED BY <1>0, <1>1, <2>1 DEF StoreInv
\* A call sends x.
<1>2. ASSUME NEW x, Ask(x), StoreRequest(x), StoreTyped',
             page'.loading => page.loading \/ x.op \in {"convs", "messages"},
             \A i \in DOMAIN page'.messages : page'.messages[i].status = "sending" =>
               Shown1(page'.messages[i]) \/ (x.op = "send" /\ IsTemp(page'.messages[i], x.temp))
      PROVE  StoreInv'
  <2>1. Open' = Open \cup {x}
    BY <1>2, AskOpens
  <2>2. ASSUME NEW i \in DOMAIN page'.messages, page'.messages[i].status = "sending"
        PROVE  \E r \in Open' : r.op = "send" /\ IsTemp(page'.messages[i], r.temp)
    BY <1>0, <1>2, <2>1, <2>2
  <2> QED BY <1>0, <1>2, <2>1, <2>2 DEF StoreInv
\* r ends.
<1>3. ASSUME NEW r \in Open, wire' = Settled(r), StoreTyped',
             page'.loading => page.loading /\ r.op \notin {"convs", "messages"},
             \A i \in DOMAIN page'.messages : page'.messages[i].status = "sending" =>
               Shown1(page'.messages[i]) /\ ~(r.op = "send" /\ IsTemp(page'.messages[i], r.temp))
      PROVE  StoreInv'
  <2>1. Open' \subseteq Open /\ Open \subseteq Open' \cup {r}
    BY <1>3, SettleOpens
  <2>2. ASSUME NEW i \in DOMAIN page'.messages, page'.messages[i].status = "sending"
        PROVE  \E q \in Open' : q.op = "send" /\ IsTemp(page'.messages[i], q.temp)
    BY <1>0, <1>3, <2>1, <2>2
  <2> QED BY <1>0, <1>3, <2>1, <2>2 DEF StoreInv
<1>4. \A p : DOMAIN p = DOMAIN page /\ p.messages = page.messages /\ p.temps = page.temps
               /\ page' = p /\ server' = server => StoreTyped'
  BY <1>0 DEF StoreTyped
<1>5. CASE LoadConversationList
  <2>1. /\ Ask(LoadConversations) /\ DOMAIN page' = DOMAIN page /\ page'.messages = page.messages
        /\ page'.temps = page.temps /\ server' = server
    BY <1>0, <1>5 DEF LoadConversationList, Updates, StoreTyped
  <2> QED BY <1>2, <1>4, <2>1, StoreAsks
<1>6. ASSUME NEW c \in Convs, SelectConversation(c) PROVE StoreInv'
  <2>1. /\ Ask(LoadMessages(c, FALSE)) /\ DOMAIN page' = DOMAIN page /\ page'.messages = <<>>
        /\ page'.temps = page.temps /\ server' = server
    BY <1>0, <1>6 DEF SelectConversation, Updates, StoreTyped
  <2>2. <<>> \in Seq(StoredItems) /\ DOMAIN <<>> = {}
    OBVIOUS
  <2>3. StoreTyped'
    BY <1>0, <2>1, <2>2 DEF StoreTyped
  <2> QED BY <1>2, <2>1, <2>2, <2>3, StoreAsks
<1>7. CASE LoadOlderMessages
  <2>1. /\ Ask(LoadMessages(page.active, TRUE)) /\ DOMAIN page' = DOMAIN page
        /\ page'.messages = page.messages /\ page'.temps = page.temps /\ server' = server
    BY <1>0, <1>7 DEF LoadOlderMessages, Updates, StoreTyped
  <2> DEFINE x == LoadMessages(page.active, TRUE)
  <2>2. StoreRequest(x) /\ x.op = "messages"
    BY StoreAsks
  <2>3. Ask(x) /\ StoreTyped'
    BY <1>4, <2>1
  <2> HIDE DEF x
  <2> QED BY <1>2, <2>1, <2>2, <2>3
<1>8. ASSUME NEW c \in Convs, SendChat(c) PROVE StoreInv'
  <2> DEFINE t == page.temps + 1
             m == [temp |-> TRUE, id |-> t, status |-> "sending"]
  <2>1. /\ Ask(SendTo(c, t)) /\ DOMAIN page' = DOMAIN page /\ page'.messages = Append(page.messages, m)
        /\ page'.temps = t /\ server' = server /\ page'.loading = page.loading
    BY <1>0, <1>8 DEF SendChat, Updates, StoreTyped
  <2>2. m \in StoredItems /\ t \in Nat /\ m.temp /\ m.id = t /\ page.messages \in Seq(StoredItems)
    BY <1>0 DEF StoreTyped, StoredItems
  <2> HIDE DEF m, t
  <2>3. /\ Append(page.messages, m) \in Seq(StoredItems)
        /\ \A i \in DOMAIN Append(page.messages, m) :
             Append(page.messages, m)[i] = m \/ Shown1(Append(page.messages, m)[i])
    BY <2>2
  <2>4. StoreTyped'
    BY <1>0, <2>1, <2>2, <2>3 DEF StoreTyped
  <2>5. IsTemp(m, t)
    BY <2>2 DEF IsTemp
  <2> QED BY <1>2, <2>1, <2>3, <2>4, <2>5, StoreAsks
<1>9. ASSUME NEW c \in Convs, MarkRead(c) PROVE StoreInv'
  <2>1. /\ wire' = wire /\ DOMAIN page' = DOMAIN page /\ page'.messages = page.messages
        /\ page'.temps = page.temps /\ server' = server /\ page'.loading = page.loading
    BY <1>0, <1>9 DEF MarkRead, StoreTyped
  <2> QED BY <1>1, <1>4, <2>1
<1>10. CASE ResetStore
  <2>1. /\ wire' = wire /\ DOMAIN page' = DOMAIN page /\ page'.messages = <<>>
        /\ page'.temps = page.temps /\ server' = server /\ ~page'.loading
    BY <1>0, <1>10 DEF ResetStore, StoreTyped
  <2>2. <<>> \in Seq(StoredItems) /\ DOMAIN <<>> = {}
    OBVIOUS
  <2>3. StoreTyped'
    BY <1>0, <2>1, <2>2 DEF StoreTyped
  <2> QED BY <1>1, <2>1, <2>2, <2>3
<1>11. ASSUME NEW r \in Open, NEW ok \in BOOLEAN, ConversationsRead(r, ok) PROVE StoreInv'
  <2>1. /\ wire' = Settled(r) /\ DOMAIN page' = DOMAIN page /\ page'.messages = page.messages
        /\ page'.temps = page.temps /\ server' = server /\ ~page'.loading /\ r.op # "send"
    BY <1>0, <1>11 DEF ConversationsRead, StoreTyped
  <2> QED BY <1>3, <1>4, <2>1
<1>12. ASSUME NEW r \in Open, NEW ok \in BOOLEAN, MessagesRead(r, ok) PROVE StoreInv'
  <2> DEFINE ms == IF ok THEN IF r.older THEN r.items \o page.messages ELSE r.items
                   ELSE page.messages
  <2>1. /\ wire' = Settled(r) /\ DOMAIN page' = DOMAIN page /\ page'.messages = ms
        /\ page'.temps = page.temps /\ server' = server /\ ~page'.loading /\ r.op = "messages"
        /\ ok => r.stage = "ok"
    BY <1>0, <1>12 DEF MessagesRead, StoreTyped, Ends
  <2>2. /\ page.messages \in Seq(StoredItems)
        /\ ok => /\ r.items \in Seq(StoredItems)
                 /\ \A i \in DOMAIN r.items : r.items[i].status # "sending"
    BY <1>0, <2>1 DEF StoreTyped, StoreRequest
  <2>3. ms \in Seq(StoredItems) /\ \A i \in DOMAIN ms : ms[i].status = "sending" => Shown1(ms[i])
    <3>1. CASE ~ok \/ ~r.older
      BY <2>2, <3>1
    <3>2. CASE ok /\ r.older
      <4> DEFINE a == r.items
                 b == page.messages
      <4>1. a \in Seq(StoredItems) /\ b \in Seq(StoredItems) /\ \A i \in DOMAIN a : a[i].status # "sending"
        BY <2>2, <3>2
      <4> HIDE DEF a, b
      <4>2. /\ a \o b \in Seq(StoredItems) /\ Len(a) \in Nat /\ Len(b) \in Nat
            /\ DOMAIN (a \o b) = 1..(Len(a) + Len(b)) /\ DOMAIN a = 1..Len(a) /\ DOMAIN b = 1..Len(b)
            /\ \A i \in 1..Len(a) : (a \o b)[i] = a[i]
            /\ \A i \in (Len(a) + 1)..(Len(a) + Len(b)) : (a \o b)[i] = b[i - Len(a)]
        BY <4>1
      <4>3. \A i \in DOMAIN (a \o b) : \/ (a \o b)[i].status # "sending"
                                      \/ \E j \in DOMAIN b : (a \o b)[i] = b[j]
        <5>1. SUFFICES ASSUME NEW i \in DOMAIN (a \o b)
                       PROVE  \/ (a \o b)[i].status # "sending"
                              \/ \E j \in DOMAIN b : (a \o b)[i] = b[j]
          OBVIOUS
        <5>2. CASE i <= Len(a)
          BY <4>1, <4>2, <5>1, <5>2
        <5>3. CASE ~(i <= Len(a))
          <6>1. i - Len(a) \in DOMAIN b /\ i \in (Len(a) + 1)..(Len(a) + Len(b))
            BY <4>2, <5>1, <5>3
          <6> QED BY <4>2, <6>1
        <5> QED BY <5>2, <5>3
      <4> QED BY <3>2, <4>2, <4>3 DEF a, b
    <3> QED BY <3>1, <3>2
  <2> HIDE DEF ms
  <2>4. StoreTyped'
    BY <1>0, <2>1, <2>3 DEF StoreTyped
  <2> QED BY <1>3, <2>1, <2>3, <2>4
<1>13. ASSUME NEW r \in Open, NEW ok \in BOOLEAN, SendEnded(r, ok) PROVE StoreInv'
  <2> DEFINE P == {i \in DOMAIN page.messages : ~IsTemp(page.messages[i], r.temp)}
             Marked1 == [i \in DOMAIN page.messages |->
                           IF IsTemp(page.messages[i], r.temp)
                           THEN [page.messages[i] EXCEPT !.status = "failed"] ELSE page.messages[i]]
             ms == IF ok THEN Selected(page.messages, P) ELSE Marked1
  <2>1. /\ wire' = Settled(r) /\ DOMAIN page' = DOMAIN page /\ page'.messages = ms
        /\ page'.temps = page.temps /\ server' = server /\ page'.loading = page.loading /\ r.op = "send"
    BY <1>0, <1>13 DEF SendEnded, StoreTyped
  <2>2. page.messages \in Seq(StoredItems)
    BY <1>0 DEF StoreTyped
  <2>3. /\ Selected(page.messages, P) \in Seq(StoredItems)
        /\ \A i \in DOMAIN Selected(page.messages, P) :
             \E k \in P : Selected(page.messages, P)[i] = page.messages[k]
    <3> HIDE DEF P
    <3> QED BY <2>2, SelectedIsOf
  <2>4. /\ Marked1 \in Seq(StoredItems)
        /\ \A i \in DOMAIN Marked1 : Marked1[i].status = "sending" =>
             Shown1(Marked1[i]) /\ ~IsTemp(Marked1[i], r.temp)
    <3>1. \A i \in DOMAIN page.messages : page.messages[i] \in StoredItems
      BY <2>2
    <3>2. \A i \in DOMAIN page.messages :
             IF IsTemp(page.messages[i], r.temp)
             THEN Marked1[i] \in StoredItems /\ Marked1[i].status = "failed"
             ELSE Marked1[i] = page.messages[i]
      BY <3>1 DEF StoredItems
    <3>3. DOMAIN Marked1 = DOMAIN page.messages /\ DOMAIN page.messages = 1..Len(page.messages)
          /\ Len(page.messages) \in Nat
      BY <2>2
    <3>4. \E n \in Nat : Marked1 \in [1..n -> StoredItems]
      BY <3>1, <3>2, <3>3
    <3> HIDE DEF Marked1
    <3>5. Marked1 \in Seq(StoredItems)
      BY <3>4
    <3> QED BY <3>2, <3>3, <3>5
  <2>5. /\ ms \in Seq(StoredItems)
        /\ \A i \in DOMAIN ms : ms[i].status = "sending" => Shown1(ms[i]) /\ ~IsTemp(ms[i], r.temp)
    <3>1. \A k \in P : k \in DOMAIN page.messages /\ ~IsTemp(page.messages[k], r.temp)
      OBVIOUS
    <3> HIDE DEF Marked1, P
    <3> QED BY <2>3, <2>4, <3>1
  <2> HIDE DEF ms
  <2>6. StoreTyped'
    BY <1>0, <2>1, <2>5 DEF StoreTyped
  <2> QED BY <1>3, <2>1, <2>5, <2>6
<1>14. CASE ApplyChatDelta
  <2> DEFINE n == Head(server.deltas)
             m == [temp |-> FALSE, id |-> n, status |-> "sent"]
  <2>1. /\ wire' = wire /\ server' = [server EXCEPT !.deltas = Tail(@)] /\ server.deltas # <<>>
        /\ DOMAIN page' = DOMAIN page /\ page'.temps = page.temps /\ page'.loading = page.loading
        /\ page'.messages = page.messages \/ page'.messages = Append(page.messages, m)
    BY <1>0, <1>14 DEF ApplyChatDelta, StoreTyped
  <2>2. /\ n \in Nat /\ Tail(server.deltas) \in Seq(Nat) /\ page.messages \in Seq(StoredItems)
    BY <1>0, <2>1 DEF StoreTyped
  <2>3. m \in StoredItems /\ m.status # "sending"
    BY <2>2 DEF StoredItems
  <2> HIDE DEF m
  <2>4. /\ Append(page.messages, m) \in Seq(StoredItems)
        /\ \A i \in DOMAIN Append(page.messages, m) :
             Append(page.messages, m)[i] = m \/ Shown1(Append(page.messages, m)[i])
    BY <2>2, <2>3
  <2>5. /\ {"messages", "deltas"} \subseteq DOMAIN server' /\ server'.messages = server.messages
        /\ server'.deltas = Tail(server.deltas)
    BY <1>0, <2>1 DEF StoreTyped
  <2>6. StoreTyped'
    BY <1>0, <2>1, <2>2, <2>4, <2>5 DEF StoreTyped
  <2> QED BY <1>1, <2>1, <2>3, <2>4, <2>6
<1>15. ASSUME NEW c, PostMessage(c), page' = page
       PROVE  StoreTyped'
  <2>1. PICK C : server.messages \in Seq(C)
    BY <1>0 DEF StoreTyped
  <2>2. Append(server.messages, c) \in Seq(C \cup {c})
    <3>1. server.messages \in Seq(C \cup {c})
      BY <2>1
    <3> QED BY <3>1
  <2>3. Append(server.deltas, Len(server.messages) + 1) \in Seq(Nat)
    BY <1>0, <2>1 DEF StoreTyped
  <2> QED BY <1>0, <1>15, <2>2, <2>3 DEF StoreTyped, PostMessage
<1>16. ASSUME NEW c \in Convs, OthersSend(c) PROVE StoreInv'
  <2>1. wire' = wire /\ page' = page /\ PostMessage(c)
    BY <1>16 DEF OthersSend
  <2> QED BY <1>1, <1>15, <2>1
<1>17. ASSUME NEW r \in Open, ServeStore(r) PROVE StoreInv'
  <2>0. StoreRequest(r)
    BY <1>0
  <2>1. PICK x : /\ Reply(r, x) /\ StoreRequest(x) /\ x.op = r.op
                 /\ r.op = "send" => x.temp = r.temp
    <3>1. CASE Reply(r, Answered(r)) /\ r.op # "messages"
      <4> DEFINE x == Answered(r)
      <4>1. DOMAIN x = DOMAIN r /\ \A k \in DOMAIN r : k # "stage" => x[k] = r[k]
        BY AnswerKeeps
      <4> HIDE DEF x
      <4>2. x["op"] = r["op"] /\ (r.op = "send" => x["temp"] = r["temp"])
        BY <2>0, <4>1 DEF StoreRequest
      <4>3. StoreRequest(x)
        BY <2>0, <3>1, <4>1, <4>2 DEF StoreRequest
      <4> QED BY <3>1, <4>2, <4>3 DEF x
    <3>2. CASE r.op = "messages"
      <4>1. PICK more : Reply(r, AnsweredWith(r, [items |-> ItemsOf(r.conv), more |-> more]))
        BY <1>17, <3>2 DEF ServeStore
      <4>2. PICK f : f = [items |-> ItemsOf(r.conv), more |-> more]
        OBVIOUS
      <4> DEFINE x == AnsweredWith(r, f)
      <4>3. DOMAIN f = {"items", "more"} /\ f["items"] = ItemsOf(r.conv)
        BY <4>2
      <4>4. DOMAIN x = DOMAIN r \cup DOMAIN f
            /\ \A k \in DOMAIN r : k \notin DOMAIN f /\ k # "stage" => x[k] = r[k]
        BY AnswerWithKeeps
      <4>5. x["items"] = f["items"]
        BY <4>3 DEF AnsweredWith, Joined
      <4>6. Reply(r, x)
        BY <4>1, <4>2
      <4> HIDE DEF x
      <4>7. x["op"] = r["op"]
        BY <2>0, <4>3, <4>4 DEF StoreRequest
      <4>8. /\ x["items"] \in Seq(StoredItems)
            /\ \A i \in DOMAIN x["items"] : x["items"][i].status # "sending"
        BY <1>0, <4>3, <4>5, ItemsAreSent DEF StoreTyped
      <4>9. StoreRequest(x)
        BY <2>0, <3>2, <4>3, <4>4, <4>7, <4>8 DEF StoreRequest
      <4> QED BY <3>2, <4>6, <4>7, <4>9
    <3> QED BY <1>17, <3>1, <3>2 DEF ServeStore
  <2>2. StoreTyped'
    <3>1. page' = page /\ (server' = server \/ PostMessage(r.conv))
      BY <1>17 DEF ServeStore
    <3> QED BY <1>4, <1>15, <3>1
  <2>3. Open' \subseteq Open \cup {x} /\ Open \subseteq Open' \cup {r} /\ x \in Open'
    BY <2>1, ReplyOpens
  <2>4. page' = page
    BY <1>17 DEF ServeStore
  <2>5. \A q \in Open : \E y \in Open' : y.op = q.op /\ (q.op = "send" => y.temp = q.temp)
    BY <2>1, <2>3
  <2>6. ASSUME NEW i \in DOMAIN page.messages, page.messages[i].status = "sending"
        PROVE  \E y \in Open' : y.op = "send" /\ IsTemp(page.messages[i], y.temp)
    BY <1>0, <2>5, <2>6
  <2> QED BY <1>0, <2>1, <2>2, <2>3, <2>4, <2>5, <2>6 DEF StoreInv
<1>18. ASSUME NEW r \in Open,
              \/ ServeStore(r)
              \/ \E ok \in BOOLEAN :
                   ConversationsRead(r, ok) \/ MessagesRead(r, ok) \/ SendEnded(r, ok)
       PROVE  StoreInv'
  BY <1>11, <1>12, <1>13, <1>17, <1>18
<1> QED BY <1>5, <1>6, <1>7, <1>8, <1>9, <1>10, <1>14, <1>16, <1>18 DEF StoreNext

-----------------------------------------------------------------------------
(***************************************************************************)
(* The sessions.  Stopping ends with the refresh that a closing goes on    *)
(* with; a refresh ends with any list that is read.                        *)
(***************************************************************************)
Stops(r) == r.op = "close" \/ (r.op = "list" /\ r.closes)

SessionsInv ==
  /\ {"refreshing", "closing"} \subseteq DOMAIN page
  /\ \A r \in Open : /\ {"op", "stage"} \subseteq DOMAIN r
                     /\ r.op = "list" => "closes" \in DOMAIN r
  /\ page.refreshing => \E r \in Open : r.op = "list"
  /\ page.closing => \E r \in Open : Stops(r)

LEMMA SessionsAsks ==
  /\ \A c, n : /\ ListShells(c, n).op = "list" /\ ListShells(c, n).closes = c
               /\ {"op", "stage", "closes"} \subseteq DOMAIN ListShells(c, n)
  /\ \A op, id : ForShell(op, id).op = op /\ {"op", "stage"} \subseteq DOMAIN ForShell(op, id)
  /\ \A op, m : ForMember(op, m).op = op /\ {"op", "stage"} \subseteq DOMAIN ForMember(op, m)
BY DEF ListShells, ForShell, ForMember

LEMMA SessionsStart ==
  ASSUME SessionsMounted(<<>>)
  PROVE  SessionsInv'
<1> DEFINE x == ListShells(FALSE, Nil)
           y == Query("roster")
<1>1. Open' = {x, y} /\ {"refreshing", "closing"} \subseteq DOMAIN page' /\ ~page'.closing
  BY MountOpens DEF SessionsMounted, Mounting
<1>2. /\ x.op = "list" /\ {"op", "stage", "closes"} \subseteq DOMAIN x
      /\ y.op = "roster" /\ {"op", "stage"} \subseteq DOMAIN y
  BY SessionsAsks DEF Query
<1> HIDE DEF x, y
<1> QED BY <1>1, <1>2 DEF SessionsInv

LEMMA SessionsKept ==
  ASSUME SessionsInv, SessionsNext
  PROVE  SessionsInv'
<1>0. /\ {"refreshing", "closing"} \subseteq DOMAIN page
      /\ \A r \in Open : /\ {"op", "stage"} \subseteq DOMAIN r
                         /\ r.op = "list" => "closes" \in DOMAIN r
      /\ page.refreshing => \E r \in Open : r.op = "list"
      /\ page.closing => \E r \in Open : Stops(r)
  BY DEF SessionsInv
<1> DEFINE Asks(x) == {"op", "stage"} \subseteq DOMAIN x /\ (x.op = "list" => "closes" \in DOMAIN x)
\* A handler sends x.
<1>1. ASSUME NEW x, Ask(x), Asks(x), DOMAIN page' = DOMAIN page,
             page'.refreshing => page.refreshing \/ x.op = "list",
             page'.closing => page.closing \/ Stops(x)
      PROVE  SessionsInv'
  <2>1. Open' = Open \cup {x}
    BY <1>1, AskOpens
  <2> QED BY <1>0, <1>1, <2>1 DEF SessionsInv
\* A handler goes on with x in place of r.
<1>2. ASSUME NEW r \in Open, NEW x, wire' = BagAdd(Settled(r), x), Asks(x), DOMAIN page' = DOMAIN page,
             page'.refreshing => (page.refreshing /\ r.op # "list") \/ x.op = "list",
             page'.closing => (page.closing /\ ~Stops(r)) \/ Stops(x)
      PROVE  SessionsInv'
  <2>1. Open' \subseteq Open \cup {x} /\ Open \subseteq Open' \cup {r} /\ x \in Open'
    BY <1>2, FollowOpens
  <2> QED BY <1>0, <1>2, <2>1 DEF SessionsInv
\* r ends.
<1>3. ASSUME NEW r \in Open, wire' = Settled(r), DOMAIN page' = DOMAIN page,
             page'.refreshing => page.refreshing /\ r.op # "list",
             page'.closing => page.closing /\ ~Stops(r)
      PROVE  SessionsInv'
  <2>1. Open' \subseteq Open /\ Open \subseteq Open' \cup {r}
    BY <1>3, SettleOpens
  <2> QED BY <1>0, <1>3, <2>1 DEF SessionsInv
<1> HIDE DEF Asks
<1>4. \A c, n : Asks(ListShells(c, n)) /\ ListShells(c, n).op = "list" /\ (Stops(ListShells(c, n)) <=> c)
  BY SessionsAsks DEF Asks, Stops
<1>5. /\ \A op \in {"attach", "close", "input"} : \A id : Asks(ForShell(op, id)) /\ ForShell(op, id).op = op
      /\ \A op \in {"resolve", "create"} : \A m : Asks(ForMember(op, m)) /\ ForMember(op, m).op = op
  BY SessionsAsks DEF Asks
<1>6. CASE RefreshShells
  <2>1. /\ Ask(ListShells(FALSE, Nil)) /\ DOMAIN page' = DOMAIN page /\ page'.closing = page.closing
    BY <1>0, <1>6 DEF RefreshShells
  <2> QED BY <1>1, <1>4, <2>1
<1>7. ASSUME \/ \E id \in ShellIds : ClickShell(id) \/ OpenHash(id)
             \/ SendLine \/ CreateShell
      PROVE  SessionsInv'
  <2>1. page' = page /\ \E x : Ask(x) /\ Asks(x)
    BY <1>5, <1>7 DEF ClickShell, OpenHash, SendLine, CreateShell
  <2> QED BY <1>1, <2>1
<1>8. ASSUME NEW id \in ShellIds, CloseShell(id) PROVE SessionsInv'
  <2>1. /\ Ask(ForShell("close", id)) /\ DOMAIN page' = DOMAIN page /\ page'.refreshing = page.refreshing
    BY <1>0, <1>8 DEF CloseShell
  <2>2. Stops(ForShell("close", id))
    BY <1>5 DEF Stops
  <2> QED BY <1>1, <1>5, <2>1, <2>2
<1>9. ASSUME \/ NewSession \/ CancelSession \/ \E m \in Members : PickMember(m)
             \/ \E id \in ShellIds : ShellExits(id)
      PROVE  SessionsInv'
  <2>1. /\ wire' = wire /\ DOMAIN page' = DOMAIN page /\ page'.refreshing = page.refreshing
        /\ page'.closing = page.closing
    BY <1>0, <1>9 DEF NewSession, CancelSession, PickMember, ShellExits, Turns
  <2> QED BY <1>0, <2>1 DEF SessionsInv, Open
<1>10. CASE ResyncTimer
  <2> DEFINE x == ListShells(FALSE, Nil)
             y == ForShell("attach", page.timer)
  <2>1. /\ wire' = BagAdd(BagAdd(wire, x), y) /\ DOMAIN page' = DOMAIN page
        /\ page'.closing = page.closing
    BY <1>0, <1>10 DEF ResyncTimer
  <2>2. Asks(x) /\ Asks(y) /\ x.op = "list"
    BY <1>4, <1>5
  <2> HIDE DEF x, y
  <2>3. Open' = Open \cup {x, y}
    BY <2>1, AddOpens DEF Open
  <2> QED BY <1>0, <2>1, <2>2, <2>3 DEF SessionsInv, Asks
<1>11. ASSUME NEW r \in Open, NEW ok \in BOOLEAN,
              RosterRead(r, ok) \/ ShellAttached(r, ok) \/ LineSent(r, ok)
       PROVE  SessionsInv'
  <2>1. /\ wire' = Settled(r) /\ DOMAIN page' = DOMAIN page /\ page'.refreshing = page.refreshing
        /\ page'.closing = page.closing /\ r.op # "list" /\ ~Stops(r)
    BY <1>0, <1>11 DEF RosterRead, ShellAttached, LineSent, Stops
  <2> QED BY <1>3, <2>1
<1>12. ASSUME NEW r \in Open, NEW ok \in BOOLEAN, ShellsListed(r, ok) PROVE SessionsInv'
  <2>1. /\ DOMAIN page' = DOMAIN page /\ ~page'.refreshing
        /\ page'.closing => page.closing /\ ~r.closes
    BY <1>0, <1>12 DEF ShellsListed
  <2>2. r.op = "list"
    BY <1>12 DEF ShellsListed
  <2>3. CASE r.next # Nil
    <3>1. wire' = BagAdd(Settled(r), ForShell("attach", r.next))
      BY <1>12, <2>3 DEF ShellsListed
    <3> QED BY <1>2, <1>5, <2>1, <2>2, <3>1 DEF Stops
  <2>4. CASE r.next = Nil
    <3>1. wire' = Settled(r)
      BY <1>12, <2>4 DEF ShellsListed
    <3> QED BY <1>3, <2>1, <2>2, <3>1 DEF Stops
  <2> QED BY <2>3, <2>4
<1>13. ASSUME NEW r \in Open, NEW ok \in BOOLEAN, ShellClosed(r, ok) PROVE SessionsInv'
  <2>1. r.op = "close"
    BY <1>13 DEF ShellClosed
  <2>2. CASE ok
    <3>1. /\ DOMAIN page' = DOMAIN page /\ wire' = BagAdd(Settled(r), ListShells(TRUE, Nil))
      BY <1>13, <2>2 DEF ShellClosed
    <3> QED BY <1>2, <1>4, <3>1
  <2>3. CASE ~ok
    <3>1. /\ DOMAIN page' = DOMAIN page /\ wire' = Settled(r) /\ ~page'.closing
          /\ page'.refreshing = page.refreshing
      BY <1>0, <1>13, <2>3 DEF ShellClosed
    <3> QED BY <1>3, <2>1, <3>1
  <2> QED BY <2>2, <2>3
<1>14. ASSUME NEW r \in Open, NEW ok \in BOOLEAN, MemberResolved(r, ok) \/ ShellCreated(r, ok)
       PROVE  SessionsInv'
  <2>1. r.op # "list" /\ ~Stops(r)
    BY <1>14 DEF MemberResolved, ShellCreated, Stops
  <2>2. \/ wire' = Settled(r) /\ page' = page
        \/ wire' = BagAdd(Settled(r), ForMember("create", r.member)) /\ page' = page
        \/ /\ \E n : wire' = BagAdd(Settled(r), ListShells(FALSE, n))
           /\ DOMAIN page' = DOMAIN page /\ page'.closing = page.closing
    BY <1>0, <1>14 DEF MemberResolved, ShellCreated
  <2> QED BY <1>2, <1>3, <1>4, <1>5, <2>1, <2>2
<1>15. ASSUME NEW r \in Open, ServeSessions(r) PROVE SessionsInv'
  <2>1. PICK x : /\ Reply(r, x) /\ {"op", "stage"} \subseteq DOMAIN x /\ x.op = r.op
                 /\ r.op = "list" => "closes" \in DOMAIN x /\ x.closes = r.closes
    <3>1. CASE Reply(r, Answered(r))
      <4> DEFINE x == Answered(r)
      <4>1. DOMAIN x = DOMAIN r /\ \A k \in DOMAIN r : k # "stage" => x[k] = r[k]
        BY AnswerKeeps
      <4> HIDE DEF x
      <4>2. x["op"] = r["op"] /\ (r.op = "list" => x["closes"] = r["closes"])
        BY <1>0, <4>1
      <4> QED BY <1>0, <3>1, <4>1, <4>2 DEF x
    <3>2. ASSUME NEW f, DOMAIN f \cap {"op", "stage", "closes"} = {}, Reply(r, AnsweredWith(r, f))
          PROVE  \E x : /\ Reply(r, x) /\ {"op", "stage"} \subseteq DOMAIN x /\ x.op = r.op
                        /\ r.op = "list" => "closes" \in DOMAIN x /\ x.closes = r.closes
      <4> DEFINE x == AnsweredWith(r, f)
      <4>1. DOMAIN x = DOMAIN r \cup DOMAIN f
            /\ \A k \in DOMAIN r : k \notin DOMAIN f /\ k # "stage" => x[k] = r[k]
        BY AnswerWithKeeps
      <4> HIDE DEF x
      <4>2. x["op"] = r["op"] /\ (r.op = "list" => x["closes"] = r["closes"])
        BY <1>0, <3>2, <4>1
      <4> QED BY <1>0, <3>2, <4>1, <4>2 DEF x
    <3>3. \/ Reply(r, Answered(r))
          \/ \E v : Reply(r, AnsweredWith(r, [sessions |-> v]))
          \/ \E v : Reply(r, AnsweredWith(r, [found |-> v]))
          \/ \E v : Reply(r, AnsweredWith(r, [made |-> v]))
      BY <1>15 DEF ServeSessions
    <3>4. \A v : /\ DOMAIN [sessions |-> v] = {"sessions"} /\ DOMAIN [found |-> v] = {"found"}
                 /\ DOMAIN [made |-> v] = {"made"}
      OBVIOUS
    <3> QED BY <3>1, <3>2, <3>3, <3>4
  <2>2. wire' = BagAdd(Settled(r), x) /\ page' = page
    BY <1>15, <2>1 DEF Reply, Settled, ServeSessions
  <2>3. Asks(x) /\ (Stops(r) => Stops(x))
    BY <2>1 DEF Asks, Stops
  <2> QED BY <1>2, <2>1, <2>2, <2>3
<1> QED BY <1>6, <1>7, <1>8, <1>9, <1>10, <1>11, <1>12, <1>13, <1>14, <1>15 DEF SessionsNext

-----------------------------------------------------------------------------
(***************************************************************************)
(* The websocket.  A socket keeps its id through all that happens to it,   *)
(* so no two sockets have the same one, and what wsRef holds is not taken  *)
(* for another that was opened since.                                      *)
(***************************************************************************)
Keyed(s) == {"id", "stage", "frames"} \subseteq DOMAIN s

SocketInv ==
  /\ {"current", "timer", "intentional"} \subseteq DOMAIN page
  /\ page.intentional = FALSE
  /\ page.current # Nil \/ page.timer
  /\ \A s \in Open : /\ Keyed(s) /\ wire[s] = 1
                     /\ s.stage # "closing" => s.id = page.current
  /\ \A s, t \in Open : s.id = t.id => s = t

LEMMA NewSocket ==
  ASSUME NEW id, NEW cursor
  PROVE  Keyed(Socket(id, cursor)) /\ Socket(id, cursor).id = id
BY DEF Keyed, Socket

LEMMA SocketStarts ==
  ASSUME NEW p, NEW id \in SocketIds, SocketMounted(p, id)
  PROVE  SocketInv'
<1> DEFINE s == Socket(id, Nil)
<1>1. Keyed(s) /\ s.id = id
  BY NewSocket
<1>2. page'.current = id /\ page'.intentional = FALSE
      /\ {"current", "timer", "intentional"} \subseteq DOMAIN page'
  BY DEF SocketMounted, Mounting
<1>3. wire' = SetToBag({s})
  BY DEF SocketMounted, Mounting
<1> HIDE DEF s
<1>4. BagToSet(wire') = {s} /\ wire'[s] = 1
  BY <1>3 DEF BagToSet, SetToBag
<1>5. page'.current # Nil
  BY <1>2, SocketAssumption
<1> QED BY <1>1, <1>2, <1>4, <1>5 DEF SocketInv, Open

\* What happens to one socket.
LEMMA OneSocketMoves ==
  ASSUME SocketInv, NEW s \in Open, NEW t, Keyed(t), t.id = s.id,
         wire' = BagAdd(Settled(s), t)
  PROVE  /\ \A x \in Open' : x = t \/ (x \in Open /\ x # s)
         /\ \A x \in Open' : Keyed(x) /\ wire'[x] = 1
         /\ \A x, y \in Open' : x.id = y.id => x = y
<1>0. /\ \A x \in Open : Keyed(x) /\ wire[x] = 1
      /\ \A x, y \in Open : x.id = y.id => x = y
  BY DEF SocketInv
<1>1. Open' \subseteq Open \cup {t}
  BY FollowOpens
<1>2. /\ \A y : y # s /\ y # t => Copies(y)' = Copies(y)
      /\ s \in Open /\ Copies(s) = 1 /\ t # s => s \notin Open'
      /\ t \notin Open => Copies(t)' = 1
      /\ s \in Open /\ Copies(s) = 1 /\ t = s => Copies(t)' = 1
  BY FollowCopies
<1>3. /\ \A x \in Open : Copies(x) = 1
      /\ \A x \in Open' : Copies(x)' = wire'[x]
  BY <1>0 DEF Copies, Open, BagToSet
<1>4. t \in Open => t = s
  BY <1>0
<1>5. \A x \in Open' : x = t \/ (x \in Open /\ x # s)
  BY <1>1, <1>2, <1>3
<1>6. \A x \in Open' : Keyed(x) /\ wire'[x] = 1
  BY <1>0, <1>2, <1>3, <1>4, <1>5
<1>7. \A x, y \in Open' : x.id = y.id => x = y
  BY <1>0, <1>5
<1> QED BY <1>5, <1>6, <1>7

\* What happens to some sockets at once.
LEMMA SocketsMove ==
  ASSUME SocketInv, NEW S \in SUBSET Open, NEW f, DOMAIN f = S,
         \A s \in S : Keyed(f[s]) /\ f[s].id = s.id
  PROVE  /\ \A x \in BagToSet(Become(wire, f)) : (x \in Open /\ x \notin S) \/ \E s \in S : x = f[s]
         /\ \A x \in BagToSet(Become(wire, f)) : Keyed(x) /\ Become(wire, f)[x] = 1
         /\ \A x, y \in BagToSet(Become(wire, f)) : x.id = y.id => x = y
         /\ \A x \in BagToSet(Become(wire, f)) : \E s \in Open : s.id = x.id
<1>0. /\ \A x \in Open : Keyed(x) /\ wire[x] = 1
      /\ \A x, y \in Open : x.id = y.id => x = y
  BY DEF SocketInv
<1>1. \A x : x \in BagToSet(Become(wire, f)) <=> \/ x \in BagToSet(wire) /\ x \notin DOMAIN f
                                   \/ \E s \in DOMAIN f : s \in BagToSet(wire) /\ x = f[s]
  BY BecomeOpens
<1>2. \A x \in BagToSet(Become(wire, f)) : (x \in Open /\ x \notin S) \/ \E s \in S : x = f[s]
  BY <1>1 DEF Open
<1>3. \A s \in S : f[s] \notin Open \ S
  BY <1>0
<1>4. \A x \in BagToSet(Become(wire, f)) : Become(wire, f)[x] = 1
  BY <1>0, <1>3, BecomeOnes DEF Open
<1>5. \A x, y \in BagToSet(Become(wire, f)) : x.id = y.id => x = y
  BY <1>0, <1>2
<1> QED BY <1>0, <1>2, <1>4, <1>5

LEMMA Closed ==
  ASSUME SocketInv
  PROVE  /\ \A x \in BagToSet(Closing) : x.stage = "closing" /\ Keyed(x) /\ Closing[x] = 1
         /\ \A x, y \in BagToSet(Closing) : x.id = y.id => x = y
         /\ \A x \in BagToSet(Closing) : \E s \in Open : s.id = x.id
<1> DEFINE S == {x \in Open : x.id = page.current}
           f == [s \in S |-> [s EXCEPT !.stage = "closing", !.frames = <<>>]]
<1>1. /\ DOMAIN f = S
      /\ \A s \in S : Keyed(f[s]) /\ f[s].id = s.id /\ f[s].stage = "closing"
  BY DEF SocketInv, Keyed
<1>2. Closing = Become(wire, f)
  BY DEF Closing
<1>3. \A x \in Open \ S : x.stage = "closing"
  BY DEF SocketInv
<1>4. S \in SUBSET Open
  OBVIOUS
<1> HIDE DEF f, S
<1>5. /\ \A x \in BagToSet(Closing) : (x \in Open /\ x \notin S) \/ \E s \in S : x = f[s]
      /\ \A x \in BagToSet(Closing) : Keyed(x) /\ Closing[x] = 1
      /\ \A x, y \in BagToSet(Closing) : x.id = y.id => x = y
      /\ \A x \in BagToSet(Closing) : \E s \in Open : s.id = x.id
  <2> DEFINE W == Become(wire, f)
  <2>1. /\ \A x \in BagToSet(W) : (x \in Open /\ x \notin S) \/ \E s \in S : x = f[s]
        /\ \A x \in BagToSet(W) : Keyed(x) /\ W[x] = 1
        /\ \A x, y \in BagToSet(W) : x.id = y.id => x = y
        /\ \A x \in BagToSet(W) : \E s \in Open : s.id = x.id
    BY <1>1, <1>4, SocketsMove
  <2> HIDE DEF W
  <2> QED BY <1>2, <2>1 DEF W
<1> QED BY <1>1, <1>3, <1>5

LEMMA SocketOpened ==
  ASSUME SocketInv, NEW p, Opening(p), {"current", "timer", "intentional"} \subseteq DOMAIN p
  PROVE  SocketInv'
<1>1. PICK id \in FreeIds : /\ page' = [p EXCEPT !.intentional = FALSE, !.timer = FALSE, !.current = id]
                            /\ wire' = BagAdd(Closing, Socket(id, p.cursor))
  BY DEF Opening
<1> DEFINE n == Socket(id, p.cursor)
           W == Closing
<1>2. Keyed(n) /\ n.id = id
  BY NewSocket
<1>3. /\ {"current", "timer", "intentional"} \subseteq DOMAIN page'
      /\ page'.intentional = FALSE /\ page'.current = id
  BY <1>1
<1>4. id \in SocketIds /\ \A s \in Open : s.id # id
  BY DEF FreeIds
<1>5. /\ \A x \in BagToSet(W) : x.stage = "closing" /\ Keyed(x) /\ W[x] = 1
      /\ \A x, y \in BagToSet(W) : x.id = y.id => x = y
      /\ \A x \in BagToSet(W) : \E s \in Open : s.id = x.id
  BY Closed
<1>6. wire' = BagAdd(W, n)
  BY <1>1
<1> HIDE DEF n, W
<1>7. n \notin BagToSet(W)
  BY <1>2, <1>4, <1>5
<1>8. Open' = BagToSet(W) \cup {n} /\ wire'[n] = 1 /\ \A x \in BagToSet(W) : wire'[x] = W[x]
  BY <1>6, <1>7 DEF Open, BagToSet, BagAdd
<1>9. page'.current # Nil
  BY <1>3, <1>4, SocketAssumption
<1>10. \A s \in Open' : Keyed(s) /\ wire'[s] = 1 /\ (s.stage # "closing" => s.id = page'.current)
  BY <1>2, <1>3, <1>5, <1>8
<1>11. \A s, t \in Open' : s.id = t.id => s = t
  BY <1>2, <1>4, <1>5, <1>8
<1> QED BY <1>3, <1>9, <1>10, <1>11 DEF SocketInv

LEMMA SocketKeeps ==
  ASSUME SocketInv, SocketNext
  PROVE  SocketInv'
<1>0. {"current", "timer", "intentional"} \subseteq DOMAIN page
  BY DEF SocketInv
<1>1. CASE TimerFires
  BY <1>0, <1>1, SocketOpened DEF TimerFires
<1>2. ASSUME NEW p, Navigate(p) PROVE SocketInv'
  BY <1>0, <1>2, SocketOpened DEF Navigate
<1>3. CASE SendFrame
  BY <1>3 DEF SendFrame, SocketInv, Open
<1>4. ASSUME NEW c, Publish(c) PROVE SocketInv'
  <2> DEFINE S == {x \in Open : x.stage = "open"}
             f == [s \in S |-> [s EXCEPT !.frames = Append(@, [n |-> LastEvent + 1, conv |-> c])]]
  <2>1. DOMAIN f = S /\ \A s \in S : Keyed(f[s]) /\ f[s].id = s.id /\ f[s].stage = s.stage
    BY DEF SocketInv, Keyed
  <2>2. wire' = Become(wire, f) /\ page' = page
    BY <1>4 DEF Publish
  <2>3. S \in SUBSET Open
    OBVIOUS
  <2> HIDE DEF f, S
  <2>4. /\ \A x \in Open' : (x \in Open /\ x \notin S) \/ \E s \in S : x = f[s]
        /\ \A x \in Open' : Keyed(x) /\ wire'[x] = 1
        /\ \A x, y \in Open' : x.id = y.id => x = y
    <3> DEFINE W == Become(wire, f)
    <3>1. wire' = W /\ Open' = BagToSet(wire')
      BY <2>2 DEF Open
    <3>2. /\ \A x \in BagToSet(W) : (x \in Open /\ x \notin S) \/ \E s \in S : x = f[s]
          /\ \A x \in BagToSet(W) : Keyed(x) /\ W[x] = 1
          /\ \A x, y \in BagToSet(W) : x.id = y.id => x = y
      BY <2>1, <2>3, SocketsMove
    <3> HIDE DEF W
    <3> QED BY <3>1, <3>2
  <2>5. \A x \in Open' : x.stage # "closing" => x.id = page.current
    BY <2>1, <2>3, <2>4 DEF SocketInv
  <2> QED BY <2>2, <2>4, <2>5 DEF SocketInv
<1>5. ASSUME NEW s \in Open, SocketOpens(s) \/ SocketMessage(s) \/ SocketDrops(s) PROVE SocketInv'
  <2>1. PICK t : /\ wire' = BagAdd(Settled(s), t) /\ Keyed(t) /\ t.id = s.id
                 /\ t.stage # "closing" => s.stage # "closing"
    <3>1. Keyed(s)
      BY DEF SocketInv
    <3>2. CASE SocketOpens(s)
      <4>1. Keyed(Accepted(s)) /\ Accepted(s).id = s.id
        BY <3>1 DEF Accepted, Keyed
      <4> QED BY <3>2, <4>1 DEF SocketOpens
    <3>3. CASE SocketMessage(s)
      <4> DEFINE t == [s EXCEPT !.frames = Tail(@)]
      <4>1. Keyed(t) /\ t.id = s.id /\ t.stage = s.stage
        BY <3>1 DEF Keyed
      <4> QED BY <3>3, <4>1 DEF SocketMessage
    <3>4. CASE SocketDrops(s)
      <4> DEFINE t == [s EXCEPT !.stage = "closing", !.frames = <<>>]
      <4>1. Keyed(t) /\ t.id = s.id /\ t.stage = "closing"
        BY <3>1 DEF Keyed
      <4> QED BY <3>4, <4>1 DEF SocketDrops
    <3> QED BY <1>5, <3>2, <3>3, <3>4
  <2>2. /\ {"current", "timer", "intentional"} \subseteq DOMAIN page'
        /\ page'.current = page.current /\ page'.timer = page.timer
        /\ page'.intentional = page.intentional
    <3>1. CASE SocketOpens(s)
      BY <1>0, <3>1 DEF SocketOpens
    <3>2. CASE SocketMessage(s)
      BY <1>0, <3>2 DEF SocketMessage
    <3>3. CASE SocketDrops(s)
      BY <1>0, <3>3 DEF SocketDrops
    <3> QED BY <1>5, <3>1, <3>2, <3>3
  <2>3. /\ \A x \in Open' : x = t \/ (x \in Open /\ x # s)
        /\ \A x \in Open' : Keyed(x) /\ wire'[x] = 1
        /\ \A x, y \in Open' : x.id = y.id => x = y
    BY <2>1, OneSocketMoves
  <2>4. \A x \in Open' : x.stage # "closing" => x.id = page'.current
    BY <2>1, <2>2, <2>3 DEF SocketInv
  <2>5. page'.intentional = FALSE /\ (page'.current # Nil \/ page'.timer)
    BY <2>2 DEF SocketInv
  <2> QED BY <2>2, <2>3, <2>4, <2>5 DEF SocketInv
<1>6. ASSUME NEW s \in Open, SocketClosed(s) PROVE SocketInv'
  <2>1. /\ {"current", "timer", "intentional"} \subseteq DOMAIN page'
        /\ page'.current = (IF page.current = s.id THEN Nil ELSE page.current)
        /\ page'.intentional = FALSE
        /\ page'.timer
    BY <1>0, <1>6 DEF SocketClosed, SocketInv
  <2>2. Open' \subseteq Open /\ \A x \in Open' : x # s => wire'[x] = wire[x]
    BY <1>6 DEF SocketClosed, Settled, BagRemove, Open, BagToSet
  <2>3. s \notin Open'
    <3>1. Copies(s) = 1
      BY DEF Copies, SocketInv, Open, BagToSet
    <3> QED BY <1>6, <3>1, SettleCopies DEF SocketClosed
  <2>4. \A x \in Open' : x.stage # "closing" => x.id = page'.current
    BY <2>1, <2>2, <2>3 DEF SocketInv
  <2> QED BY <2>1, <2>2, <2>3, <2>4 DEF SocketInv
<1> QED BY <1>1, <1>2, <1>3, <1>4, <1>5, <1>6 DEF SocketNext

-----------------------------------------------------------------------------
(***************************************************************************)
(* The members.  The requests that work for one dialog are a chain, which  *)
(* starts when its cell of busy is set; and what is left of a batch, with  *)
(* the member that is being created, is all that the roster has not.       *)
(***************************************************************************)
Works(r, d) ==
  CASE r.op = "createMember" -> r.kind = d
    [] r.op = "createTeam" -> d = "team"
    [] r.op = "roster" -> r.handler = d \/ (d = "ai" /\ r.handler = "aiFailed")
    [] OTHER -> d = "ai"

MembersRequest(r) ==
  /\ {"op", "stage"} \subseteq DOMAIN r
  /\ r.op \in {"roster", "createMember", "createTeam", "getSettings", "putSettings"}
  /\ r.op = "roster" => /\ {"handler", "batch"} \subseteq DOMAIN r
                        /\ r.handler \in Dialogs \cup {"none", "aiFailed"}
                        /\ r.batch \subseteq server.members
  /\ r.op = "createMember" =>
       /\ {"kind", "who", "rest", "batch"} \subseteq DOMAIN r
       /\ r.kind \in {"member", "ai"} /\ r.rest \in Seq(Ids)
       /\ r.batch \subseteq server.members \cup {r.who} \cup ToSet(r.rest)
       /\ r.stage = "ok" => r.who \in server.members
  /\ r.op \in {"getSettings", "putSettings"} =>
       "ids" \in DOMAIN r /\ r.ids \in Seq(Ids) /\ r.ids # <<>>

\* The cell of a dialog follows its chain.
Kept(d) == (d \in page.busy <=> WorkFor(d) # {}) /\ OneAtMost(WorkFor(d))

MembersInv ==
  /\ "busy" \in DOMAIN page
  /\ {"members", "teams", "keys"} \subseteq DOMAIN server
  /\ \A r \in Open : MembersRequest(r)
  /\ \A d \in Dialogs : Kept(d)

LEMMA WorkIs ==
  ASSUME NEW d
  PROVE  WorkFor(d) = {r \in Open : Works(r, d)}
BY DEF WorkFor, Works

LEMMA HeadAndRest ==
  ASSUME NEW ids \in Seq(Ids), ids # <<>>
  PROVE  Tail(ids) \in Seq(Ids) /\ ToSet(ids) = {Head(ids)} \cup ToSet(Tail(ids))
<1>1. /\ Len(ids) \in Nat /\ Len(ids) > 0 /\ Tail(ids) \in Seq(Ids)
      /\ Len(Tail(ids)) = Len(ids) - 1
      /\ \A i \in 1 .. Len(Tail(ids)) : Tail(ids)[i] = ids[i + 1]
      /\ Head(ids) = ids[1]
  OBVIOUS
<1>2. DOMAIN ids = 1 .. Len(ids) /\ DOMAIN Tail(ids) = 1 .. Len(Tail(ids))
  BY <1>1
<1>3. \A i \in 2 .. Len(ids) : ids[i] = Tail(ids)[i - 1] /\ i - 1 \in DOMAIN Tail(ids)
  BY <1>1, <1>2
<1>4. ASSUME NEW x \in ToSet(ids) PROVE x \in {Head(ids)} \cup ToSet(Tail(ids))
  <2>1. PICK i \in 1 .. Len(ids) : x = ids[i]
    BY <1>2, <1>4 DEF ToSet
  <2>2. CASE i = 1
    BY <1>1, <2>1, <2>2
  <2>3. CASE i # 1
    <3>1. i \in 2 .. Len(ids)
      BY <1>1, <2>3
    <3> QED BY <1>3, <2>1, <3>1 DEF ToSet
  <2> QED BY <2>2, <2>3
<1>5. ASSUME NEW x \in ToSet(Tail(ids)) PROVE x \in ToSet(ids)
  <2>1. PICK i \in 1 .. Len(Tail(ids)) : x = Tail(ids)[i]
    BY <1>2, <1>5 DEF ToSet
  <2> QED BY <1>1, <1>2, <2>1 DEF ToSet
<1>6. Head(ids) \in ToSet(ids)
  BY <1>1, <1>2 DEF ToSet
<1> QED BY <1>1, <1>4, <1>5, <1>6

LEMMA NoRest == ToSet(<<>>) = {}
BY DEF ToSet

LEMMA MembersStart ==
  ASSUME NEW keys, NEW known, NEW d, MembersMounted(keys, known, d)
  PROVE  MembersInv'
<1>1. /\ Open' = {FirstRoster} /\ "busy" \in DOMAIN page' /\ page'.busy = {}
      /\ {"members", "teams", "keys"} \subseteq DOMAIN server'
  BY MountOpens DEF MembersMounted, Mounting
<1>2. MembersRequest(FirstRoster)' /\ \A x \in Dialogs : ~Works(FirstRoster, x)
  BY DEF MembersRequest, FirstRoster, Works, Dialogs
<1>3. \A x \in Dialogs : WorkFor(x)' = {}
  BY <1>1, <1>2 DEF WorkFor, Works
<1> QED BY <1>1, <1>2, <1>3 DEF MembersInv, Kept, OneAtMost

LEMMA AskWork ==
  ASSUME NEW d, Kept(d), NEW x, Ask(x), Works(x, d) => d \notin page.busy,
         d \in page'.busy <=> d \in page.busy \/ Works(x, d)
  PROVE  Kept(d)'
<1> DEFINE C == WorkFor(d)
           D == WorkFor(d)'
<1>1. Open' = Open \cup {x}
  BY AskOpens
<1>2. C \subseteq Open /\ D \subseteq Open' /\ OneAtMost(C) /\ (x \in D <=> Works(x, d))
      /\ (\A y \in Open : y \in D <=> y \in C) /\ (x \in D => C = {})
  BY <1>1 DEF WorkFor, Works, Kept
<1> HIDE DEF C, D
<1>3. D = C \cup (D \cap {x}) /\ \A y, z \in D : y = z /\ Copies(y)' = 1
  BY <1>2, ChainAsk
<1> QED BY <1>2, <1>3 DEF Kept, OneAtMost, C, D

LEMMA FollowWork ==
  ASSUME NEW d, Kept(d), NEW r \in Open, NEW x, wire' = BagAdd(Settled(r), x),
         Works(x, d) => Works(r, d),
         d \in page'.busy <=> d \in page.busy /\ (Works(r, d) => Works(x, d))
  PROVE  Kept(d)'
<1> DEFINE C == WorkFor(d)
           D == WorkFor(d)'
<1>1. Open' \subseteq Open \cup {x} /\ Open \subseteq Open' \cup {r} /\ x \in Open'
  BY FollowOpens
<1>2. C \subseteq Open /\ D \subseteq Open' /\ OneAtMost(C) /\ (x \in D <=> Works(x, d))
      /\ (r \in C <=> Works(r, d))
      /\ (\A y \in Open : y \in Open' => (y \in D <=> y \in C)) /\ (x \in D => r \in C)
  BY <1>1 DEF WorkFor, Works, Kept
<1> HIDE DEF C, D
<1>3. /\ r \in C => D = D \cap {x}
      /\ r \notin C => D = C
      /\ \A y, z \in D : y = z /\ Copies(y)' = 1
  BY <1>2, ChainFollow
<1> QED BY <1>2, <1>3 DEF Kept, OneAtMost, C, D

LEMMA SettleWork ==
  ASSUME NEW d, Kept(d), NEW r \in Open, wire' = Settled(r),
         d \in page'.busy <=> d \in page.busy /\ ~Works(r, d)
  PROVE  Kept(d)'
<1> DEFINE C == WorkFor(d)
           D == WorkFor(d)'
<1>1. Open' \subseteq Open /\ Open \subseteq Open' \cup {r}
  BY SettleOpens
<1>2. C \subseteq Open /\ D \subseteq Open' /\ OneAtMost(C)
      /\ (r \in C <=> Works(r, d))
      /\ (\A y \in Open : y \in Open' => (y \in D <=> y \in C))
  BY <1>1 DEF WorkFor, Works, Kept
<1> HIDE DEF C, D
<1>3. /\ r \in C => D = {}
      /\ r \notin C => D = C
      /\ \A y, z \in D : y = z /\ Copies(y)' = 1
  BY <1>2, ChainSettle
<1> QED BY <1>2, <1>3 DEF Kept, OneAtMost, C, D

\* The roster only grows.
LEMMA MembersGrow ==
  ASSUME NEW r, MembersRequest(r), server.members \subseteq server'.members
  PROVE  MembersRequest(r)'
BY DEF MembersRequest

LEMMA CreateIsRequest ==
  ASSUME NEW kind \in {"member", "ai"}, NEW ids \in Seq(Ids), ids # <<>>
  PROVE  /\ MembersRequest(CreateMember(kind, ids))
         /\ \A d : Works(CreateMember(kind, ids), d) <=> kind = d
<1> DEFINE x == CreateMember(kind, ids)
<1>1. /\ DOMAIN x = {"op", "stage", "kind", "who", "rest", "batch"} /\ x.op = "createMember"
      /\ x.stage = "sent" /\ x.kind = kind /\ x.who = Head(ids) /\ x.rest = Tail(ids)
      /\ x.batch = ToSet(ids)
  BY DEF CreateMember
<1> HIDE DEF x
<1>2. Tail(ids) \in Seq(Ids) /\ ToSet(ids) = {Head(ids)} \cup ToSet(Tail(ids))
  BY HeadAndRest
<1>3. MembersRequest(x)
  BY <1>1, <1>2 DEF MembersRequest
<1>4. \A d : Works(x, d) <=> kind = d
  BY <1>1 DEF Works
<1> QED BY <1>3, <1>4 DEF x

LEMMA RosterIsRequest ==
  ASSUME NEW h \in Dialogs \cup {"none", "aiFailed"}, NEW b \in SUBSET server.members
  PROVE  /\ MembersRequest(Roster(h, b))
         /\ \A d : Works(Roster(h, b), d) <=> (h = d \/ (d = "ai" /\ h = "aiFailed"))
BY DEF MembersRequest, Roster, Works

LEMMA BatchIsSequence ==
  ASSUME NEW ids \in FreshBatches
  PROVE  ids \in Seq(Ids) /\ ids # <<>>
<1>1. PICK m \in 0 .. Cardinality(Ids) : ids \in [1 .. m -> Ids \ page.list]
  BY DEF FreshBatches, SeqOf
<1>2. m \in Nat
  OBVIOUS
<1>3. ids \in [1 .. m -> Ids]
  BY <1>1
<1> QED BY <1>2, <1>3 DEF FreshBatches

LEMMA MembersKept ==
  ASSUME MembersInv, MembersNext
  PROVE  MembersInv'
<1>0. /\ "busy" \in DOMAIN page /\ {"members", "teams", "keys"} \subseteq DOMAIN server
      /\ \A r \in Open : MembersRequest(r)
      /\ \A d \in Dialogs : Kept(d)
  BY DEF MembersInv
\* Neither a request nor an answer.
<1>1. ASSUME UNCHANGED <<server, wire>>, "busy" \in DOMAIN page', page'.busy = page.busy
      PROVE  MembersInv'
  <2>1. Open' = Open /\ \A d : WorkFor(d)' = WorkFor(d)
    BY <1>1 DEF Open, WorkFor
  <2>2. \A d \in Dialogs : Kept(d)'
    BY <1>0, <1>1, <2>1 DEF Kept, OneAtMost, Copies
  <2>3. \A r \in Open' : MembersRequest(r)'
    BY <1>0, <1>1, <2>1, MembersGrow
  <2> QED BY <1>0, <1>1, <2>2, <2>3 DEF MembersInv
\* A request is sent.
<1>2. ASSUME NEW x, Ask(x), MembersRequest(x), UNCHANGED server, "busy" \in DOMAIN page',
             \A d \in Dialogs : /\ Works(x, d) => d \notin page.busy
                                /\ d \in page'.busy <=> d \in page.busy \/ Works(x, d)
      PROVE  MembersInv'
  <2>1. Open' = Open \cup {x}
    BY <1>2, AskOpens
  <2>2. \A d \in Dialogs : Kept(d)'
    BY <1>0, <1>2, AskWork
  <2>3. \A r \in Open' : MembersRequest(r)'
    BY <1>0, <1>2, <2>1, MembersGrow
  <2> QED BY <1>0, <1>2, <2>2, <2>3 DEF MembersInv
\* A handler goes on.
<1>3. ASSUME NEW r \in Open, NEW x, wire' = BagAdd(Settled(r), x), MembersRequest(x)',
             server.members \subseteq server'.members,
             {"members", "teams", "keys"} \subseteq DOMAIN server', "busy" \in DOMAIN page',
             \A d \in Dialogs : /\ Works(x, d) => Works(r, d)
                                /\ d \in page'.busy <=> d \in page.busy /\ (Works(r, d) => Works(x, d))
      PROVE  MembersInv'
  <2>1. Open' \subseteq Open \cup {x}
    BY <1>3, FollowOpens
  <2>2. \A d \in Dialogs : Kept(d)'
    BY <1>0, <1>3, FollowWork
  <2>3. \A y \in Open' : MembersRequest(y)'
    BY <1>0, <1>3, <2>1, MembersGrow
  <2> QED BY <1>3, <2>2, <2>3 DEF MembersInv
\* A handler ends.
<1>4. ASSUME NEW r \in Open, wire' = Settled(r), UNCHANGED server, "busy" \in DOMAIN page',
             \A d \in Dialogs : d \in page'.busy <=> d \in page.busy /\ ~Works(r, d)
      PROVE  MembersInv'
  <2>1. Open' \subseteq Open
    BY <1>4, SettleOpens
  <2>2. \A d \in Dialogs : Kept(d)'
    BY <1>0, <1>4, SettleWork
  <2>3. \A y \in Open' : MembersRequest(y)'
    BY <1>0, <1>4, <2>1, MembersGrow
  <2> QED BY <1>0, <1>4, <2>2, <2>3 DEF MembersInv
<1>5. ASSUME MembersReload \/ \E t \in Teams : SelectTeam(t) PROVE MembersInv'
  <2>1. PICK x : /\ Ask(x) /\ MembersRequest(x) /\ \A d \in Dialogs : ~Works(x, d)
    <3>1. MembersRequest(Roster("none", {})) /\ \A d \in Dialogs : ~Works(Roster("none", {}), d)
      BY RosterIsRequest DEF Dialogs
    <3>2. CASE MembersReload
      BY <3>1, <3>2 DEF MembersReload
    <3>3. CASE \E t \in Teams : SelectTeam(t)
      <4> DEFINE x == [Roster("none", {}) EXCEPT !.unset = FALSE]
      <4>1. MembersRequest(x) /\ \A d \in Dialogs : ~Works(x, d)
        BY <3>1 DEF MembersRequest, Works, Roster
      <4> QED BY <3>3, <4>1 DEF SelectTeam
    <3> QED BY <1>5, <3>2, <3>3
  <2>2. /\ "busy" \in DOMAIN page' /\ page'.busy = page.busy /\ UNCHANGED server
    BY <1>0, <1>5 DEF MembersReload, SelectTeam
  <2> QED BY <1>2, <2>1, <2>2
<1>6. ASSUME \/ CancelMembersDialog \/ NextStep \/ PreviousStep
             \/ \E d \in Dialogs : OpenMembersDialog(d)
             \/ \E p \in {"cli", "shell"} : SelectProvider(p)
             \/ \E c \in {"typed", "login"} : TypeCredential(c)
      PROVE  MembersInv'
  <2>1. UNCHANGED <<server, wire>> /\ "busy" \in DOMAIN page' /\ page'.busy = page.busy
    BY <1>0, <1>6 DEF CancelMembersDialog, NextStep, PreviousStep, OpenMembersDialog, SelectProvider,
                      TypeCredential
  <2> QED BY <1>1, <2>1
<1>7. ASSUME NEW m \in Ids, InviteMember(m) PROVE MembersInv'
  <2>1. <<m>> \in Seq(Ids) /\ <<m>> # <<>>
    OBVIOUS
  <2>2. /\ MembersRequest(CreateMember("member", <<m>>))
        /\ \A d : Works(CreateMember("member", <<m>>), d) <=> "member" = d
    BY <2>1, CreateIsRequest
  <2>3. /\ Ask(CreateMember("member", <<m>>)) /\ UNCHANGED server /\ "member" \notin page.busy
        /\ "busy" \in DOMAIN page' /\ page'.busy = page.busy \cup {"member"}
    BY <1>0, <1>7 DEF InviteMember
  <2> QED BY <1>2, <2>2, <2>3
<1>8. ASSUME NEW t \in Teams, NewTeam(t) PROVE MembersInv'
  <2> DEFINE x == [op |-> "createTeam", stage |-> "sent", who |-> t]
  <2>1. MembersRequest(x) /\ \A d : Works(x, d) <=> "team" = d
    BY DEF MembersRequest, Works
  <2>2. /\ Ask(x) /\ UNCHANGED server /\ "team" \notin page.busy
        /\ "busy" \in DOMAIN page' /\ page'.busy = page.busy \cup {"team"}
    BY <1>0, <1>8 DEF NewTeam
  <2> HIDE DEF x
  <2> QED BY <1>2, <2>1, <2>2
<1>9. ASSUME NEW ids \in FreshBatches, CreateAssistants(ids) PROVE MembersInv'
  <2>1. ids \in Seq(Ids) /\ ids # <<>>
    BY BatchIsSequence
  <2> DEFINE s == [op |-> "getSettings", stage |-> "sent", ids |-> ids, cred |-> page.cred]
             c == CreateMember("ai", ids)
  <2>2. MembersRequest(s) /\ \A d : Works(s, d) <=> "ai" = d
    BY <2>1 DEF MembersRequest, Works
  <2>3. MembersRequest(c) /\ \A d : Works(c, d) <=> "ai" = d
    BY <2>1, CreateIsRequest
  <2>4. /\ Ask(s) \/ Ask(c)
        /\ UNCHANGED server /\ "ai" \notin page.busy
        /\ "busy" \in DOMAIN page' /\ page'.busy = page.busy \cup {"ai"}
    BY <1>0, <1>9 DEF CreateAssistants, CreateOffered
  <2> HIDE DEF s, c
  <2> QED BY <1>2, <2>2, <2>3, <2>4
<1>10. ASSUME NEW r \in Open, NEW ok \in BOOLEAN, RosterLoaded(r, ok) PROVE MembersInv'
  <2>1. /\ wire' = Settled(r) /\ UNCHANGED server /\ MembersRequest(r) /\ r.op = "roster"
    BY <1>0, <1>10 DEF RosterLoaded
  <2>2. \A d : Works(r, d) <=> (r.handler = d \/ (d = "ai" /\ r.handler = "aiFailed"))
    BY <2>1 DEF Works
  <2> DEFINE shown == IF ok
                  THEN [page EXCEPT !.list = r.members, !.teams = r.teams,
                          !.team = IF r.unset THEN DefaultTeam ELSE @]
                  ELSE page
             who   == IF r.handler = "aiFailed" THEN "ai" ELSE r.handler
             idle  == [shown EXCEPT !.busy = @ \ {who}]
             fresh == [idle EXCEPT !.step = 1, !.provider = "none", !.cred = "none"]
             last  == IF who = "ai" THEN fresh ELSE idle
  <2>3. "busy" \in DOMAIN shown /\ shown.busy = page.busy
    BY <1>0
  <2>4. page' \in {idle, [last EXCEPT !.dialog = "none"]}
    BY <1>10 DEF RosterLoaded
  <2> HIDE DEF shown
  <2>5. "busy" \in DOMAIN page' /\ page'.busy = page.busy \ {who}
    <3>1. "busy" \in DOMAIN idle /\ idle.busy = page.busy \ {who}
      BY <2>3
    <3>2. "busy" \in DOMAIN fresh /\ fresh.busy = idle.busy
      BY <3>1
    <3> HIDE DEF idle, fresh
    <3>3. "busy" \in DOMAIN last /\ last.busy = page.busy \ {who}
      BY <3>1, <3>2
    <3> HIDE DEF last
    <3> QED BY <2>4, <3>1, <3>3
  <2>6. \A d \in Dialogs : d \in page'.busy <=> d \in page.busy /\ ~Works(r, d)
    BY <2>2, <2>5 DEF Dialogs
  <2> QED BY <1>4, <2>1, <2>5, <2>6
<1>11. ASSUME NEW r \in Open, NEW ok \in BOOLEAN, TeamCreated(r, ok) PROVE MembersInv'
  <2>1. UNCHANGED server /\ r.op = "createTeam" /\ \A d : Works(r, d) <=> d = "team"
    BY <1>11 DEF TeamCreated, Works
  <2>2. CASE ok
    <3>1. MembersRequest(Roster("team", {})) /\ \A d : Works(Roster("team", {}), d)
                 <=> ("team" = d \/ (d = "ai" /\ "team" = "aiFailed"))
      BY RosterIsRequest DEF Dialogs
    <3>2. /\ wire' = BagAdd(Settled(r), Roster("team", {})) /\ "busy" \in DOMAIN page'
          /\ page'.busy = page.busy
      BY <1>0, <1>11, <2>2 DEF TeamCreated
    <3>3. \A y : y = Roster("team", {}) => MembersRequest(y)'
      BY <2>1, <3>1, MembersGrow
    <3> DEFINE x == Roster("team", {})
    <3>4. PICK y : y = x
      OBVIOUS
    <3> QED BY <1>0, <1>3, <2>1, <3>1, <3>2, <3>3, <3>4
  <2>3. CASE ~ok
    BY <1>0, <1>4, <1>11, <2>1, <2>3 DEF TeamCreated
  <2> QED BY <2>2, <2>3
<1>12. ASSUME NEW r \in Open, NEW ok \in BOOLEAN, SettingsRead(r, ok) PROVE MembersInv'
  <2> DEFINE x == [op |-> "putSettings", stage |-> "sent", ids |-> r.ids,
                   cred |-> r.cred, base |-> IF ok THEN r.base ELSE {}]
  <2>1. MembersRequest(r) /\ r.op = "getSettings"
    BY <1>0, <1>12 DEF SettingsRead
  <2>2. x.op = "putSettings" /\ {"op", "stage", "ids"} \subseteq DOMAIN x /\ x.ids = r.ids
    OBVIOUS
  <2>3. wire' = BagAdd(Settled(r), x) /\ UNCHANGED <<page, server>>
    BY <1>12 DEF SettingsRead
  <2> HIDE DEF x
  <2>4. \A y : y = x => MembersRequest(y)'
    BY <2>1, <2>2 DEF MembersRequest
  <2>5. \A d : (Works(x, d) <=> d = "ai") /\ (Works(r, d) <=> d = "ai")
    BY <2>1, <2>2 DEF Works
  <2> QED BY <1>0, <1>3, <2>3, <2>4, <2>5
<1>13. ASSUME NEW r \in Open, NEW ok \in BOOLEAN, SettingsPut(r, ok) PROVE MembersInv'
  <2>1. MembersRequest(r) /\ r.op = "putSettings" /\ \A d : Works(r, d) <=> d = "ai"
    BY <1>0, <1>13 DEF SettingsPut, Works
  <2>2. UNCHANGED server
    BY <1>13 DEF SettingsPut
  <2>3. CASE ok
    <3> DEFINE x == CreateMember("ai", r.ids)
    <3>1. MembersRequest(x) /\ \A d : Works(x, d) <=> "ai" = d
      BY <2>1, CreateIsRequest DEF MembersRequest
    <3>2. wire' = BagAdd(Settled(r), x) /\ "busy" \in DOMAIN page' /\ page'.busy = page.busy
      BY <1>0, <1>13, <2>3 DEF SettingsPut
    <3> HIDE DEF x
    <3>3. \A y : y = x => MembersRequest(y)'
      BY <2>2, <3>1, MembersGrow
    <3> QED BY <1>0, <1>3, <2>1, <2>2, <3>1, <3>2, <3>3
  <2>4. CASE ~ok
    <3>1. wire' = Settled(r) /\ "busy" \in DOMAIN page' /\ page'.busy = page.busy \ {"ai"}
      BY <1>0, <1>13, <2>4 DEF SettingsPut
    <3> QED BY <1>4, <2>1, <2>2, <3>1
  <2> QED BY <2>3, <2>4
<1>14. ASSUME NEW r \in Open, NEW ok \in BOOLEAN, MemberCreated(r, ok) PROVE MembersInv'
  <2>1. /\ MembersRequest(r) /\ r.op = "createMember" /\ UNCHANGED server
        /\ \A d : Works(r, d) <=> r.kind = d
    BY <1>0, <1>14 DEF MemberCreated, Works
  <2>2. /\ {"op", "stage", "kind", "who", "rest", "batch"} \subseteq DOMAIN r
        /\ r.kind \in {"member", "ai"} /\ r.rest \in Seq(Ids)
        /\ r.batch \subseteq server.members \cup {r.who} \cup ToSet(r.rest)
        /\ r.stage = "ok" => r.who \in server.members
    BY <2>1 DEF MembersRequest
  <2>3. ok => r.stage = "ok"
    BY <1>14 DEF MemberCreated, Ends
  <2>4. ASSUME ok, r.rest # <<>>,
               wire' = BagAdd(Settled(r), [r EXCEPT !.stage = "sent", !.who = Head(r.rest), !.rest = Tail(@)]),
               UNCHANGED page
        PROVE  MembersInv'
    <3> DEFINE x == [r EXCEPT !.stage = "sent", !.who = Head(r.rest), !.rest = Tail(@)]
    <3>1. /\ DOMAIN x = DOMAIN r /\ x.op = "createMember" /\ x.stage = "sent" /\ x.kind = r.kind
          /\ x.who = Head(r.rest) /\ x.rest = Tail(r.rest) /\ x.batch = r.batch
      BY <2>1, <2>2
    <3>2. wire' = BagAdd(Settled(r), x)
      BY <2>4
    <3> HIDE DEF x
    <3>3. Tail(r.rest) \in Seq(Ids) /\ ToSet(r.rest) = {Head(r.rest)} \cup ToSet(Tail(r.rest))
      BY <2>2, <2>4, HeadAndRest
    <3>4. MembersRequest(x)
      BY <2>2, <2>3, <2>4, <3>1, <3>3 DEF MembersRequest
    <3>5. \A y : y = x => MembersRequest(y)'
      BY <2>1, <3>4, MembersGrow
    <3>6. \A d : Works(x, d) <=> r.kind = d
      BY <3>1 DEF Works
    <3> QED BY <1>0, <1>3, <2>1, <2>4, <3>2, <3>5, <3>6
  <2>5. ASSUME ok, r.rest = <<>>, wire' = BagAdd(Settled(r), Roster(r.kind, r.batch)), UNCHANGED page
        PROVE  MembersInv'
    <3> DEFINE x == Roster(r.kind, r.batch)
    <3>1. r.batch \in SUBSET server.members /\ r.kind \in Dialogs
      BY <2>2, <2>3, <2>5, NoRest DEF Dialogs
    <3>2. MembersRequest(x) /\ \A d : Works(x, d) <=> (r.kind = d \/ (d = "ai" /\ r.kind = "aiFailed"))
      BY <3>1, RosterIsRequest
    <3>3. wire' = BagAdd(Settled(r), x)
      BY <2>5
    <3> HIDE DEF x
    <3>4. \A y : y = x => MembersRequest(y)'
      BY <2>1, <3>2, MembersGrow
    <3> QED BY <1>0, <1>3, <2>1, <2>2, <2>5, <3>2, <3>3, <3>4
  <2>6. ASSUME r.kind = "ai", wire' = BagAdd(Settled(r), Roster("aiFailed", {})), UNCHANGED page
        PROVE  MembersInv'
    <3> DEFINE x == Roster("aiFailed", {})
    <3>2. MembersRequest(x) /\ \A d : Works(x, d) <=> ("aiFailed" = d \/ (d = "ai" /\ "aiFailed" = "aiFailed"))
      BY RosterIsRequest
    <3>3. wire' = BagAdd(Settled(r), x)
      BY <2>6
    <3> HIDE DEF x
    <3>4. \A y : y = x => MembersRequest(y)'
      BY <2>1, <3>2, MembersGrow
    <3>5. \A d \in Dialogs : Works(x, d) <=> d = "ai"
      BY <3>2 DEF Dialogs
    <3> QED BY <1>0, <1>3, <2>1, <2>6, <3>3, <3>4, <3>5
  <2>7. ASSUME r.kind = "member", wire' = Settled(r), page' = [page EXCEPT !.busy = @ \ {"member"}]
        PROVE  MembersInv'
    <3>1. "busy" \in DOMAIN page' /\ page'.busy = page.busy \ {"member"}
      BY <1>0, <2>7
    <3> QED BY <1>4, <2>1, <2>7, <3>1
  <2> QED BY <1>14, <2>4, <2>5, <2>6, <2>7 DEF MemberCreated
<1>15. ASSUME NEW r \in Open, ServeMembers(r) PROVE MembersInv'
  <2>1. MembersRequest(r) /\ UNCHANGED page /\ r.stage = "sent"
    BY <1>0, <1>15 DEF ServeMembers
  <2>2. {"op", "stage"} \subseteq DOMAIN r
    BY <2>1 DEF MembersRequest
  <2>3. ASSUME NEW x, Reply(r, x), MembersRequest(x)', server.members \subseteq server'.members,
               {"members", "teams", "keys"} \subseteq DOMAIN server',
               x.op = r.op, r.op = "roster" => x.handler = r.handler,
               r.op = "createMember" => x.kind = r.kind
        PROVE  MembersInv'
    <3>1. \A d : Works(x, d) <=> Works(r, d)
      BY <2>3 DEF Works
    <3>2. wire' = BagAdd(Settled(r), x)
      BY <2>3 DEF Reply, Settled
    <3> QED BY <1>0, <1>3, <2>1, <2>3, <3>1, <3>2
  <2>4. CASE /\ r.op = "roster" /\ UNCHANGED server
             /\ Reply(r, AnsweredWith(r, [members |-> server.members, teams |-> server.teams]))
    <3> DEFINE g == [members |-> server.members, teams |-> server.teams]
               x == AnsweredWith(r, g)
    <3>1. DOMAIN g = {"members", "teams"}
      OBVIOUS
    <3> HIDE DEF g
    <3>2. /\ DOMAIN x = DOMAIN r \cup DOMAIN g
          /\ \A k \in DOMAIN r : k \notin DOMAIN g /\ k # "stage" => x[k] = r[k]
      BY AnswerWithKeeps
    <3> HIDE DEF x
    <3>3. /\ {"op", "stage", "handler", "batch"} \subseteq DOMAIN x /\ x["op"] = r["op"]
          /\ x["handler"] = r["handler"] /\ x["batch"] = r["batch"]
      BY <2>1, <2>2, <2>4, <3>1, <3>2 DEF MembersRequest
    <3>4. \A y : y = x => MembersRequest(y)'
      BY <2>1, <2>4, <3>3 DEF MembersRequest
    <3> QED BY <1>0, <2>3, <2>4, <3>3, <3>4 DEF x, g
  <2>5. CASE /\ r.op = "createMember" /\ server' = [server EXCEPT !.members = @ \cup {r.who}]
             /\ Reply(r, Answered(r))
    <3> DEFINE x == Answered(r)
    <3>1. /\ DOMAIN x = DOMAIN r /\ x["stage"] = "ok"
          /\ \A k \in DOMAIN r : k # "stage" => x[k] = r[k]
      BY <2>2, AnswerKeeps
    <3> HIDE DEF x
    <3>2. /\ x["op"] = r["op"] /\ x["kind"] = r["kind"] /\ x["who"] = r["who"] /\ x["rest"] = r["rest"]
          /\ x["batch"] = r["batch"]
      BY <2>1, <2>2, <2>5, <3>1 DEF MembersRequest
    <3>3. server'.members = server.members \cup {r.who} /\ DOMAIN server' = DOMAIN server
      BY <1>0, <2>5
    <3>4. \A y : y = x => MembersRequest(y)'
      BY <2>1, <2>2, <2>5, <3>1, <3>2, <3>3 DEF MembersRequest
    <3> QED BY <1>0, <2>3, <2>5, <3>2, <3>3, <3>4 DEF x
  <2>6. CASE /\ r.op = "createTeam" /\ server' = [server EXCEPT !.teams = @ \cup {r.who}]
             /\ Reply(r, Answered(r))
    <3>1. server'.members = server.members /\ DOMAIN server' = DOMAIN server
      BY <1>0, <2>6
    <3>2. {"op", "stage"} \subseteq DOMAIN Answered(r) /\ Answered(r).op = r.op
      BY <2>2, AnswerKeeps
    <3>3. \A y : y = Answered(r) => MembersRequest(y)'
      BY <2>6, <3>2 DEF MembersRequest
    <3> QED BY <1>0, <2>3, <2>6, <3>1, <3>2, <3>3
  <2>7. CASE /\ r.op = "getSettings" /\ UNCHANGED server
             /\ Reply(r, AnsweredWith(r, [base |-> server.keys \ {"cli"}]))
    <3> DEFINE g == [base |-> server.keys \ {"cli"}]
               x == AnsweredWith(r, g)
    <3>1. DOMAIN g = {"base"}
      OBVIOUS
    <3> HIDE DEF g
    <3>2. /\ DOMAIN x = DOMAIN r \cup DOMAIN g
          /\ \A k \in DOMAIN r : k \notin DOMAIN g /\ k # "stage" => x[k] = r[k]
      BY AnswerWithKeeps
    <3> HIDE DEF x
    <3>3. /\ {"op", "stage", "ids"} \subseteq DOMAIN x /\ x["op"] = r["op"] /\ x["ids"] = r["ids"]
      BY <2>1, <2>2, <2>7, <3>1, <3>2 DEF MembersRequest
    <3>4. \A y : y = x => MembersRequest(y)'
      BY <2>1, <2>7, <3>3 DEF MembersRequest
    <3> QED BY <1>0, <2>3, <2>7, <3>3, <3>4 DEF x, g
  <2>8. CASE /\ r.op = "putSettings" /\ server' = [server EXCEPT !.keys = MergedKeys(r)]
             /\ Reply(r, Answered(r))
    <3>1. server'.members = server.members /\ DOMAIN server' = DOMAIN server
      BY <1>0, <2>8
    <3> DEFINE x == Answered(r)
    <3>2. DOMAIN x = DOMAIN r /\ \A k \in DOMAIN r : k # "stage" => x[k] = r[k]
      BY <2>2, AnswerKeeps
    <3> HIDE DEF x
    <3>3. {"op", "stage", "ids"} \subseteq DOMAIN x /\ x["op"] = r["op"] /\ x["ids"] = r["ids"]
      BY <2>1, <2>2, <2>8, <3>2 DEF MembersRequest
    <3>4. \A y : y = x => MembersRequest(y)'
      BY <2>1, <2>8, <3>1, <3>3 DEF MembersRequest
    <3> QED BY <1>0, <2>3, <2>8, <3>1, <3>3, <3>4 DEF x
  <2> QED BY <1>15, <2>4, <2>5, <2>6, <2>7, <2>8 DEF ServeMembers
<1>16. ASSUME NEW r \in Open, MembersAnswer(r) PROVE MembersInv'
  BY <1>10, <1>11, <1>12, <1>13, <1>14, <1>16 DEF MembersAnswer
<1> QED BY <1>5, <1>6, <1>7, <1>8, <1>9, <1>15, <1>16 DEF MembersNext

-----------------------------------------------------------------------------
(***************************************************************************)
(* The nodes.  There is a chain for every agent, which holds it in         *)
(* pendingIds, and one for the registration, which is told by Nil.         *)
(***************************************************************************)
Holders == Agents \cup {Nil}

WorksOn(r, d) ==
  IF d = Nil THEN r.op = "register" \/ (r.op = "nodes" /\ r.handler = "register")
             ELSE r.op \in {"assign", "unassign", "nodes"} /\ r.agent = d

NodesRequest(r) ==
  /\ {"op", "stage", "agent"} \subseteq DOMAIN r
  /\ r.op \in {"nodes", "assign", "unassign", "register", "deregister"}
  /\ r.agent \in Holders
  /\ r.op = "nodes" => /\ "handler" \in DOMAIN r
                       /\ r.handler \in {"none", "dialog", "register", "deregister"}
                       /\ r.handler = "dialog" <=> r.agent # Nil
  /\ r.op \in {"assign", "unassign"} => r.agent # Nil
  /\ r.op \in {"register", "deregister"} => r.agent = Nil

HolderChain(d) == IF d = Nil THEN RegisterChain ELSE ChainOf(d)
Held(d) == IF d = Nil THEN page.registering ELSE d \in page.pending
HeldKept(d) == (Held(d) <=> HolderChain(d) # {}) /\ OneAtMost(HolderChain(d))

NodesInv ==
  /\ {"load", "pending", "registering"} \subseteq DOMAIN page
  /\ page.pending \subseteq Agents
  /\ \A r \in Open : NodesRequest(r)
  /\ page.load = "loading" => \E r \in Open : r.op = "nodes"
  /\ \A d \in Holders : HeldKept(d)

LEMMA HolderChainIs ==
  ASSUME NEW d
  PROVE  HolderChain(d) = {r \in Open : WorksOn(r, d)}
BY DEF HolderChain, RegisterChain, ChainOf, WorksOn

LEMMA HolderAsk ==
  ASSUME NEW d, HeldKept(d), NEW x, Ask(x), WorksOn(x, d) => ~Held(d),
         Held(d)' <=> Held(d) \/ WorksOn(x, d)
  PROVE  HeldKept(d)'
<1> DEFINE C == HolderChain(d)
           D == HolderChain(d)'
<1>1. Open' = Open \cup {x}
  BY AskOpens
<1>2. D = {r \in Open' : WorksOn(r, d)}
  BY DEF HolderChain, RegisterChain, ChainOf, WorksOn
<1>3. C \subseteq Open /\ D \subseteq Open' /\ OneAtMost(C) /\ (x \in D <=> WorksOn(x, d))
      /\ (\A y \in Open : y \in D <=> y \in C) /\ (x \in D => C = {})
  BY <1>1, <1>2, HolderChainIs DEF HeldKept
<1> HIDE DEF C, D
<1>4. D = C \cup (D \cap {x}) /\ \A y, z \in D : y = z /\ Copies(y)' = 1
  BY <1>3, ChainAsk
<1> QED BY <1>3, <1>4 DEF HeldKept, OneAtMost, C, D

LEMMA HolderFollow ==
  ASSUME NEW d, HeldKept(d), NEW r \in Open, NEW x, wire' = BagAdd(Settled(r), x),
         WorksOn(x, d) => WorksOn(r, d),
         Held(d)' <=> Held(d) /\ (WorksOn(r, d) => WorksOn(x, d))
  PROVE  HeldKept(d)'
<1> DEFINE C == HolderChain(d)
           D == HolderChain(d)'
<1>1. Open' \subseteq Open \cup {x} /\ Open \subseteq Open' \cup {r} /\ x \in Open'
  BY FollowOpens
<1>2. D = {y \in Open' : WorksOn(y, d)}
  BY DEF HolderChain, RegisterChain, ChainOf, WorksOn
<1>3. C \subseteq Open /\ D \subseteq Open' /\ OneAtMost(C) /\ (x \in D <=> WorksOn(x, d))
      /\ (r \in C <=> WorksOn(r, d))
      /\ (\A y \in Open : y \in Open' => (y \in D <=> y \in C)) /\ (x \in D => r \in C)
  BY <1>1, <1>2, HolderChainIs DEF HeldKept
<1> HIDE DEF C, D
<1>4. /\ r \in C => D = D \cap {x}
      /\ r \notin C => D = C
      /\ \A y, z \in D : y = z /\ Copies(y)' = 1
  BY <1>3, ChainFollow
<1> QED BY <1>3, <1>4 DEF HeldKept, OneAtMost, C, D

LEMMA HolderSettle ==
  ASSUME NEW d, HeldKept(d), NEW r \in Open, wire' = Settled(r),
         Held(d)' <=> Held(d) /\ ~WorksOn(r, d)
  PROVE  HeldKept(d)'
<1> DEFINE C == HolderChain(d)
           D == HolderChain(d)'
<1>1. Open' \subseteq Open /\ Open \subseteq Open' \cup {r}
  BY SettleOpens
<1>2. D = {y \in Open' : WorksOn(y, d)}
  BY DEF HolderChain, RegisterChain, ChainOf, WorksOn
<1>3. C \subseteq Open /\ D \subseteq Open' /\ OneAtMost(C) /\ (r \in C <=> WorksOn(r, d))
      /\ (\A y \in Open : y \in Open' => (y \in D <=> y \in C))
  BY <1>1, <1>2, HolderChainIs DEF HeldKept
<1> HIDE DEF C, D
<1>4. /\ r \in C => D = {}
      /\ r \notin C => D = C
      /\ \A y, z \in D : y = z /\ Copies(y)' = 1
  BY <1>3, ChainSettle
<1> QED BY <1>3, <1>4 DEF HeldKept, OneAtMost, C, D

LEMMA NodesAsks ==
  /\ \A h, a : LoadNodes(h, a).op = "nodes" /\ LoadNodes(h, a).handler = h /\ LoadNodes(h, a).agent = a
               /\ {"op", "stage", "handler", "agent"} \subseteq DOMAIN LoadNodes(h, a)
  /\ \A op, n, a : Change(op, n, a).op = op /\ Change(op, n, a).agent = a
               /\ {"op", "stage", "agent"} \subseteq DOMAIN Change(op, n, a)
BY DEF LoadNodes, Change

LEMMA NodesStart ==
  ASSUME NEW f, NodesMounted(f)
  PROVE  NodesInv'
<1> DEFINE x == PlainLoad
<1>1. Open' = {x}
  BY MountOpens DEF NodesMounted
<1>2. /\ {"load", "pending", "registering"} \subseteq DOMAIN page' /\ page'.pending = {}
      /\ ~page'.registering
  BY DEF NodesMounted, Mounting
<1>3. /\ {"op", "stage", "handler", "agent"} \subseteq DOMAIN x /\ x.op = "nodes" /\ x.handler = "none"
      /\ x.agent = Nil
  BY NodesAsks DEF PlainLoad
<1> HIDE DEF x
<1>4. NodesRequest(x) /\ \A d \in Holders : ~WorksOn(x, d)
  BY <1>3, AgentsAssumption DEF NodesRequest, WorksOn, Holders
<1>5. \A d \in Holders : HolderChain(d)' = {} /\ ~Held(d)'
  BY <1>1, <1>2, <1>4 DEF HolderChain, RegisterChain, ChainOf, WorksOn, Held
<1> QED BY <1>1, <1>2, <1>3, <1>4, <1>5 DEF NodesInv, HeldKept, OneAtMost

LEMMA NodesKept ==
  ASSUME NodesInv, NodesNext
  PROVE  NodesInv'
<1>0. /\ {"load", "pending", "registering"} \subseteq DOMAIN page
      /\ page.pending \subseteq Agents
      /\ \A r \in Open : NodesRequest(r)
      /\ page.load = "loading" => \E r \in Open : r.op = "nodes"
      /\ \A d \in Holders : HeldKept(d)
  BY DEF NodesInv
<1>1. ASSUME UNCHANGED wire, DOMAIN page' = DOMAIN page, page'.load = page.load,
             page'.pending = page.pending, page'.registering = page.registering
      PROVE  NodesInv'
  <2>1. Open' = Open /\ \A y : Copies(y)' = Copies(y)
    BY <1>1 DEF Open, Copies
  <2>2. \A d : HolderChain(d)' = HolderChain(d) /\ (Held(d)' <=> Held(d))
    BY <1>1, <2>1 DEF HolderChain, RegisterChain, ChainOf, Held
  <2>3. \A d \in Holders : HeldKept(d)'
    BY <1>0, <2>1, <2>2 DEF HeldKept, OneAtMost
  <2> QED BY <1>0, <1>1, <2>1, <2>3 DEF NodesInv
<1>2. ASSUME NEW x, Ask(x), NodesRequest(x), DOMAIN page' = DOMAIN page, page'.pending \subseteq Agents,
             page'.load = "loading" => page.load = "loading" \/ x.op = "nodes",
             \A d \in Holders : (WorksOn(x, d) => ~Held(d)) /\ (Held(d)' <=> Held(d) \/ WorksOn(x, d))
      PROVE  NodesInv'
  <2>1. Open' = Open \cup {x}
    BY <1>2, AskOpens
  <2>2. \A d \in Holders : HeldKept(d)'
    BY <1>0, <1>2, HolderAsk
  <2> QED BY <1>0, <1>2, <2>1, <2>2 DEF NodesInv
<1>3. ASSUME NEW r \in Open, NEW x, wire' = BagAdd(Settled(r), x), NodesRequest(x),
             x.op = "nodes" \/ x.op = r.op,
             DOMAIN page' = DOMAIN page, page'.pending \subseteq Agents,
             page'.load = "loading" => page.load = "loading" \/ x.op = "nodes",
             \A d \in Holders : (WorksOn(x, d) <=> WorksOn(r, d)) /\ (Held(d)' <=> Held(d))
      PROVE  NodesInv'
  <2>1. Open' \subseteq Open \cup {x} /\ Open \subseteq Open' \cup {r} /\ x \in Open'
    BY <1>3, FollowOpens
  <2>2. \A d \in Holders : HeldKept(d)'
    BY <1>0, <1>3, HolderFollow
  <2> QED BY <1>0, <1>3, <2>1, <2>2 DEF NodesInv
<1>4. ASSUME NEW r \in Open, wire' = Settled(r), DOMAIN page' = DOMAIN page, page'.pending \subseteq Agents,
             page'.load = "loading" => page.load = "loading" /\ r.op # "nodes",
             \A d \in Holders : Held(d)' <=> Held(d) /\ ~WorksOn(r, d)
      PROVE  NodesInv'
  <2>1. Open' \subseteq Open /\ Open \subseteq Open' \cup {r}
    BY <1>4, SettleOpens
  <2>2. \A d \in Holders : HeldKept(d)'
    BY <1>0, <1>4, HolderSettle
  <2> QED BY <1>0, <1>4, <2>1, <2>2 DEF NodesInv
<1>5. ASSUME \/ \E n \in Nodes : ClickRow(n) \/ ClickAssign(n) \/ AskDeregister(n)
             \/ CloseNodeDetail \/ CloseDialog \/ \E b \in BOOLEAN : ShowForm(b)
             \/ MembersLoaded \/ FleetChanges
      PROVE  NodesInv'
  <2>1. UNCHANGED wire /\ DOMAIN page' = DOMAIN page /\ page'.load = page.load
        /\ page'.pending = page.pending /\ page'.registering = page.registering
    BY <1>0, <1>5 DEF ClickRow, ClickAssign, AskDeregister, CloseNodeDetail, CloseDialog, ShowForm,
                      MembersLoaded, FleetChanges
  <2> QED BY <1>1, <2>1
<1>6. CASE ClickRefresh
  <2> DEFINE x == PlainLoad
  <2>1. x.op = "nodes" /\ x.handler = "none" /\ x.agent = Nil
        /\ {"op", "stage", "handler", "agent"} \subseteq DOMAIN x
    BY NodesAsks DEF PlainLoad
  <2>2. Ask(x) /\ DOMAIN page' = DOMAIN page /\ page'.pending = page.pending
        /\ page'.registering = page.registering
    BY <1>0, <1>6 DEF ClickRefresh, Loading
  <2> HIDE DEF x
  <2>3. NodesRequest(x) /\ \A d \in Holders : ~WorksOn(x, d)
    BY <2>1, AgentsAssumption DEF NodesRequest, WorksOn, Holders
  <2>4. \A d \in Holders : Held(d)' <=> Held(d)
    BY <2>2 DEF Held
  <2> QED BY <1>0, <1>2, <2>1, <2>2, <2>3, <2>4
<1>7. ASSUME NEW op \in {"assign", "unassign"}, NEW a \in Agents, NEW n, Ask(Change(op, n, a)),
             a \notin page.pending, page' = [page EXCEPT !.pending = @ \cup {a}]
      PROVE  NodesInv'
  <2> DEFINE x == Change(op, n, a)
  <2>1. x.op = op /\ x.agent = a /\ {"op", "stage", "agent"} \subseteq DOMAIN x
    BY NodesAsks
  <2>2. Ask(x) /\ DOMAIN page' = DOMAIN page /\ page'.pending = page.pending \cup {a}
        /\ page'.registering = page.registering /\ page'.load = page.load
    BY <1>0, <1>7
  <2> HIDE DEF x
  <2>3. NodesRequest(x) /\ \A d \in Holders : WorksOn(x, d) <=> d = a
    BY <2>1, AgentsAssumption DEF NodesRequest, WorksOn, Holders
  <2>4. \A d \in Holders : (d = a => ~Held(d)) /\ (Held(d)' <=> Held(d) \/ d = a)
    BY <1>7, <2>2, AgentsAssumption DEF Held
  <2> QED BY <1>0, <1>2, <2>2, <2>3, <2>4
<1>8. ASSUME NEW a \in Agents, AssignAgent(a) PROVE NodesInv'
  <2>1. /\ Ask(Change("assign", page.dialog, a)) /\ a \notin page.pending
        /\ page' = [page EXCEPT !.pending = @ \cup {a}]
    BY <1>8 DEF AssignAgent, AssignOffered
  <2> QED BY <1>7, <2>1
<1>9. ASSUME NEW a \in Agents, UnassignAgent(a) PROVE NodesInv'
  <2>1. /\ Ask(Change("unassign", page.dialog, a)) /\ a \notin page.pending
        /\ page' = [page EXCEPT !.pending = @ \cup {a}]
    BY <1>9 DEF UnassignAgent, UnassignOffered
  <2> QED BY <1>7, <2>1
<1>10. ASSUME NEW n, RegisterNode(n) PROVE NodesInv'
  <2> DEFINE x == Change("register", n, Nil)
  <2>1. x.op = "register" /\ x.agent = Nil /\ {"op", "stage", "agent"} \subseteq DOMAIN x
    BY NodesAsks
  <2>2. Ask(x) /\ DOMAIN page' = DOMAIN page /\ page'.pending = page.pending
        /\ page'.registering /\ ~page.registering /\ page'.load = page.load
    BY <1>0, <1>10 DEF RegisterNode, RegisterOffered
  <2> HIDE DEF x
  <2>3. NodesRequest(x) /\ \A d \in Holders : WorksOn(x, d) <=> d = Nil
    BY <2>1, AgentsAssumption DEF NodesRequest, WorksOn, Holders
  <2>4. \A d \in Holders : (d = Nil => ~Held(d)) /\ (Held(d)' <=> Held(d) \/ d = Nil)
    BY <2>2 DEF Held
  <2> QED BY <1>0, <1>2, <2>2, <2>3, <2>4
<1>11. ASSUME NEW sure \in BOOLEAN, Deregister(sure) PROVE NodesInv'
  <2>1. DOMAIN page' = DOMAIN page /\ page'.pending = page.pending
        /\ page'.registering = page.registering /\ page'.load = page.load
    BY <1>0, <1>11 DEF Deregister
  <2>2. CASE ~sure
    BY <1>1, <1>11, <2>1, <2>2 DEF Deregister
  <2>3. CASE sure
    <3> DEFINE x == Change("deregister", page.confirm, Nil)
    <3>1. x.op = "deregister" /\ x.agent = Nil /\ {"op", "stage", "agent"} \subseteq DOMAIN x
      BY NodesAsks
    <3>2. Ask(x)
      BY <1>11, <2>3 DEF Deregister
    <3> HIDE DEF x
    <3>3. NodesRequest(x) /\ \A d \in Holders : ~WorksOn(x, d)
      BY <3>1, AgentsAssumption DEF NodesRequest, WorksOn, Holders
    <3>4. \A d \in Holders : Held(d)' <=> Held(d)
      BY <2>1 DEF Held
    <3> QED BY <1>0, <1>2, <2>1, <3>2, <3>3, <3>4
  <2> QED BY <2>2, <2>3
<1>12. ASSUME NEW r \in Open, NEW ok \in BOOLEAN, NodesLoaded(r, ok) PROVE NodesInv'
  <2>1. NodesRequest(r) /\ r.op = "nodes" /\ wire' = Settled(r)
    BY <1>0, <1>12 DEF NodesLoaded
  <2>2. \A d \in Holders : WorksOn(r, d) <=>
           (r.handler = "register" /\ d = Nil) \/ (r.handler = "dialog" /\ d = r.agent)
    BY <2>1, AgentsAssumption DEF NodesRequest, WorksOn, Holders
  <2> DEFINE p == Loaded(r, ok, page)
  <2>3. DOMAIN p = DOMAIN page /\ p.pending = page.pending /\ p.registering = page.registering
        /\ p.load # "loading"
    BY <1>0 DEF Loaded
  <2>4. page' = CASE r.handler = "register" -> [p EXCEPT !.form = FALSE, !.registering = FALSE]
                  [] r.handler = "dialog" -> [p EXCEPT !.pending = @ \ {r.agent}]
                  [] OTHER -> p
    BY <1>12 DEF NodesLoaded
  <2> HIDE DEF p
  <2>5. /\ DOMAIN page' = DOMAIN page /\ page'.load # "loading"
        /\ page'.registering <=> page.registering /\ r.handler # "register"
        /\ page'.pending = IF r.handler = "dialog" THEN page.pending \ {r.agent} ELSE page.pending
    <3>1. CASE r.handler = "register"
      BY <1>0, <2>3, <2>4, <3>1
    <3>2. CASE r.handler = "dialog"
      BY <1>0, <2>3, <2>4, <3>2
    <3>3. CASE r.handler \notin {"register", "dialog"}
      BY <1>0, <2>3, <2>4, <3>3
    <3> QED BY <3>1, <3>2, <3>3
  <2>6. \A d \in Holders : Held(d)' <=> Held(d) /\ ~WorksOn(r, d)
    BY <2>1, <2>2, <2>5 DEF Held, NodesRequest
  <2> QED BY <1>0, <1>4, <2>1, <2>5, <2>6
<1>13. ASSUME NEW r \in Open, NEW ok \in BOOLEAN, NodeChanged(r, ok) PROVE NodesInv'
  <2>1. NodesRequest(r) /\ r.op \in {"assign", "unassign", "register", "deregister"}
    BY <1>0, <1>13 DEF NodeChanged
  <2>2. \A d \in Holders : WorksOn(r, d) <=>
           (r.op = "register" /\ d = Nil) \/ (r.op \in {"assign", "unassign"} /\ d = r.agent)
    BY <2>1, AgentsAssumption DEF NodesRequest, WorksOn, Holders
  <2>3. CASE ok
    <3> DEFINE x == LoadNodes(IF r.agent # Nil THEN "dialog" ELSE r.op, r.agent)
               forget == [page EXCEPT !.selected = IF r.op = "deregister" /\ @ = r.node THEN Nil ELSE @]
    <3>1. /\ x.op = "nodes" /\ x.handler = (IF r.agent # Nil THEN "dialog" ELSE r.op) /\ x.agent = r.agent
          /\ {"op", "stage", "handler", "agent"} \subseteq DOMAIN x
      BY NodesAsks
    <3>2. wire' = BagAdd(Settled(r), x) /\ page' = Loading(forget)
      BY <1>13, <2>3 DEF NodeChanged
    <3>3. DOMAIN forget = DOMAIN page /\ forget.pending = page.pending
          /\ forget.registering = page.registering
      BY <1>0
    <3> HIDE DEF x, forget
    <3>4. DOMAIN page' = DOMAIN page /\ page'.pending = page.pending
          /\ page'.registering = page.registering
      BY <1>0, <3>2, <3>3 DEF Loading
    <3>5. NodesRequest(x)
      BY <2>1, <3>1 DEF NodesRequest
    <3>6. \A d \in Holders : WorksOn(x, d) <=> WorksOn(r, d)
      BY <2>1, <2>2, <3>1, AgentsAssumption DEF NodesRequest, WorksOn, Holders
    <3>7. \A d \in Holders : Held(d)' <=> Held(d)
      BY <3>4 DEF Held
    <3> QED BY <1>0, <1>3, <3>1, <3>2, <3>4, <3>5, <3>6, <3>7
  <2>4. CASE ~ok
    <3>1. wire' = Settled(r) /\ DOMAIN page' = DOMAIN page /\ page'.load = page.load
          /\ page'.pending = page.pending \ {r.agent}
          /\ page'.registering = IF r.op = "register" THEN FALSE ELSE page.registering
      BY <1>0, <1>13, <2>4 DEF NodeChanged
    <3>2. \A d \in Holders : Held(d)' <=> Held(d) /\ ~WorksOn(r, d)
      BY <2>1, <2>2, <3>1, AgentsAssumption DEF Held, NodesRequest, Holders
    <3> QED BY <1>0, <1>4, <2>1, <3>1, <3>2
  <2> QED BY <2>3, <2>4
<1>14. ASSUME NEW r \in Open, ServeNodes(r) PROVE NodesInv'
  <2>0. NodesRequest(r)
    BY <1>0
  <2>1. PICK x : /\ Reply(r, x) /\ {"op", "stage", "agent"} \subseteq DOMAIN x /\ x.op = r.op
                 /\ x.agent = r.agent
                 /\ r.op = "nodes" => "handler" \in DOMAIN x /\ x.handler = r.handler
    <3>1. CASE r.op = "nodes"
      <4>0. PICK f : f = [fleet |-> Fleet]
        OBVIOUS
      <4> DEFINE x == AnsweredWith(r, f)
      <4>1. DOMAIN x = DOMAIN r \cup DOMAIN f
            /\ \A k \in DOMAIN r : k \notin DOMAIN f /\ k # "stage" => x[k] = r[k]
        BY AnswerWithKeeps
      <4>2. Reply(r, x)
        BY <1>14, <3>1, <4>0 DEF ServeNodes
      <4>4. DOMAIN f = {"fleet"}
        BY <4>0
      <4> HIDE DEF x
      <4>3. x["op"] = r["op"] /\ x["handler"] = r["handler"] /\ x["agent"] = r["agent"]
        BY <2>0, <3>1, <4>1, <4>4 DEF NodesRequest
      <4> QED BY <2>0, <3>1, <4>1, <4>2, <4>3 DEF NodesRequest
    <3>2. CASE r.op # "nodes"
      <4> DEFINE x == Answered(r)
      <4>1. DOMAIN x = DOMAIN r /\ \A k \in DOMAIN r : k # "stage" => x[k] = r[k]
        BY AnswerKeeps
      <4>2. Reply(r, x)
        BY <1>14, <3>2 DEF ServeNodes
      <4> HIDE DEF x
      <4>3. x["op"] = r["op"] /\ x["agent"] = r["agent"]
        BY <2>0, <4>1 DEF NodesRequest
      <4> QED BY <2>0, <3>2, <4>1, <4>2, <4>3 DEF NodesRequest
    <3> QED BY <3>1, <3>2
  <2>2. wire' = BagAdd(Settled(r), x) /\ page' = page
    BY <1>14, <2>1 DEF ServeNodes, Reply, Settled
  <2>3. NodesRequest(x) /\ \A d : WorksOn(x, d) <=> WorksOn(r, d)
    BY <2>0, <2>1 DEF NodesRequest, WorksOn
  <2>4. \A d \in Holders : Held(d)' <=> Held(d)
    BY <2>2 DEF Held
  <2> QED BY <1>0, <1>3, <2>1, <2>2, <2>3, <2>4
<1> QED
  <2>1. ASSUME NodesUser PROVE NodesInv'
    <3>1. CASE \E n \in Nodes : \/ ClickRow(n) \/ ClickAssign(n) \/ AskDeregister(n)
                                \/ RegisterNode(n)
      BY <1>5, <1>10, <3>1
    <3>2. CASE \E a \in Agents : AssignAgent(a) \/ UnassignAgent(a)
      BY <1>8, <1>9, <3>2
    <3>3. CASE \E b \in BOOLEAN : ShowForm(b) \/ Deregister(b)
      BY <1>5, <1>11, <3>3
    <3> QED BY <1>5, <1>6, <2>1, <3>1, <3>2, <3>3 DEF NodesUser
  <2> QED BY <1>5, <1>12, <1>13, <1>14, <2>1 DEF NodesNext, NodesAnswer

LEMMA NodesWait == NodesInv => NodesBusyMeansWaiting /\ NodesNoDoubleSubmit
<1> SUFFICES ASSUME NodesInv PROVE NodesBusyMeansWaiting /\ NodesNoDoubleSubmit
  OBVIOUS
<1>1. (page.registering <=> RegisterChain # {}) /\ OneAtMost(RegisterChain)
  BY DEF NodesInv, HeldKept, Held, HolderChain, Holders
<1>2. \A a \in Agents : (a \in page.pending <=> ChainOf(a) # {}) /\ OneAtMost(ChainOf(a))
  BY AgentsAssumption DEF NodesInv, HeldKept, Held, HolderChain, Holders
<1>3. page.pending \subseteq Agents /\ (page.load = "loading" => \E r \in Open : r.op = "nodes")
  BY DEF NodesInv
<1> QED BY <1>1, <1>2, <1>3 DEF NodesBusyMeansWaiting, NodesNoDoubleSubmit, Pending

-----------------------------------------------------------------------------
(***************************************************************************)
(* The namespaces.  The handlers share six cells; each of them is shown    *)
(* while one request at least is open that ends in clearing it.            *)
(***************************************************************************)
NamespaceCells == {"create", "update", "list", "detail", "act", "restore"}

SetsCell(r, c) ==
  \/ c \in {"create", "update", "list", "detail"} /\ r.op = c
  \/ c = "act" /\ (r.op \in {"archive", "restore"} \/ (r.op = "list" /\ r.after # Nil))
  \/ c = "restore" /\ \/ r.op = "restore" /\ r.from = "drawer"
                      \/ r.op = "list" /\ r.after = <<"restore", "drawer">>

ShowsCell(p, c) ==
  \/ c = "create" /\ p.create = "busy"
  \/ c = "update" /\ p.saving
  \/ c = "list" /\ p.loading
  \/ c = "detail" /\ p.reading
  \/ c = "act" /\ p.acting # Nil
  \/ c = "restore" /\ p.restoring

NamespacesKeys ==
  {"rows", "loading", "filter", "create", "drawer", "detail", "reading", "failed", "editing",
   "saving", "restoring", "archive", "acting"}
Froms == {"page", "drawer"}

NamespacesRequest(r) ==
  /\ {"op", "stage"} \subseteq DOMAIN r
  /\ r.op = "list" => "after" \in DOMAIN r
                      /\ r.after \in ({"archive", "restore"} \X Froms) \cup {Nil}
  /\ r.op \in {"archive", "restore"} => "from" \in DOMAIN r /\ r.from \in Froms

NamespacesInv ==
  /\ DOMAIN page = NamespacesKeys
  /\ \A r \in Open : NamespacesRequest(r)
  /\ \A c \in NamespaceCells : ShowsCell(page, c) => \E r \in Open : SetsCell(r, c)

LEMMA NamespacesWait == NamespacesInv => NamespacesBusyMeansWaiting
<1> SUFFICES ASSUME NamespacesInv PROVE NamespacesBusyMeansWaiting
  OBVIOUS
<1>1. \A c \in NamespaceCells : ShowsCell(page, c) => \E r \in Open : SetsCell(r, c)
  BY DEF NamespacesInv
<1>2. \A c \in {"create", "update", "list", "detail"} : \A r : SetsCell(r, c) <=> r.op = c
  BY DEF SetsCell
<1>3. page.acting # Nil =>
        \E r \in Open : r.op \in {"archive", "restore"} \/ (r.op = "list" /\ r.after # Nil)
  BY <1>1 DEF NamespaceCells, ShowsCell, SetsCell
<1>4. page.restoring =>
        \E r \in Open : \/ r.op = "restore" /\ r.from = "drawer"
                        \/ r.op = "list" /\ r.after = <<"restore", "drawer">>
  BY <1>1 DEF NamespaceCells, ShowsCell, SetsCell
<1>5. /\ page.create = "busy" => \E r \in Open : r.op = "create"
      /\ page.saving => \E r \in Open : r.op = "update"
      /\ page.loading => \E r \in Open : r.op = "list"
      /\ page.reading => \E r \in Open : r.op = "detail"
  BY <1>1, <1>2 DEF NamespaceCells, ShowsCell
<1> QED BY <1>3, <1>4, <1>5 DEF NamespacesBusyMeansWaiting, Pending

LEMMA NamespacesAsks ==
  /\ \A f, a : /\ LoadList(f, a).op = "list" /\ LoadList(f, a).after = a
               /\ {"op", "stage", "after"} \subseteq DOMAIN LoadList(f, a)
  /\ \A n : ReadDetail(n).op = "detail" /\ {"op", "stage"} \subseteq DOMAIN ReadDetail(n)
  /\ \A op, n, f : /\ Mutate(op, n, f).op = op /\ Mutate(op, n, f).from = f
                   /\ {"op", "stage", "from"} \subseteq DOMAIN Mutate(op, n, f)
BY DEF LoadList, ReadDetail, Mutate

LEMMA NamespacesRequests ==
  /\ \A f : \A a \in ({"archive", "restore"} \X Froms) \cup {Nil} : NamespacesRequest(LoadList(f, a))
  /\ \A n : NamespacesRequest(ReadDetail(n))
  /\ \A op \in {"create", "update"} : \A n, f : NamespacesRequest(Mutate(op, n, f))
  /\ \A op \in {"archive", "restore"} : \A f \in Froms : \A n : NamespacesRequest(Mutate(op, n, f))
BY NamespacesAsks DEF NamespacesRequest

LEMMA NamespacesStart ==
  ASSUME NamespacesMounted(FirstNamespaces)
  PROVE  NamespacesInv'
<1> DEFINE x == LoadList("all", Nil)
<1>1. Open' = {x}
  BY MountOpens DEF NamespacesMounted
<1>2. x.op = "list" /\ NamespacesRequest(x)
  BY NamespacesAsks, NamespacesRequests
<1> HIDE DEF x
<1>3. /\ DOMAIN page' = NamespacesKeys
      /\ page'.create = "closed" /\ ~page'.reading /\ ~page'.saving /\ ~page'.restoring
      /\ page'.acting = Nil
  BY DEF NamespacesMounted, Mounting, NamespacesKeys
<1>4. SetsCell(x, "list") /\ \A c \in NamespaceCells \ {"list"} : ~ShowsCell(page', c)
  BY <1>2, <1>3 DEF SetsCell, ShowsCell, NamespaceCells
<1> QED BY <1>1, <1>2, <1>3, <1>4 DEF NamespacesInv

\* What follows the detail only takes marks away.
LEMMA ShowingKeeps ==
  ASSUME NEW p, NEW d, DOMAIN p = NamespacesKeys
  PROVE  /\ DOMAIN Showing(p, d) = NamespacesKeys
         /\ \A c \in NamespaceCells : ShowsCell(Showing(p, d), c) => ShowsCell(p, c)
<1> DEFINE q == Showing(p, d)
<1>1. /\ DOMAIN q = NamespacesKeys /\ q.create = p.create
      /\ q.saving => p.saving
      /\ q.loading = p.loading /\ q.reading = p.reading /\ q.acting = p.acting
      /\ q.restoring => p.restoring
  BY DEF Showing, NamespacesKeys
<1> HIDE DEF q
<1>2. DOMAIN q = NamespacesKeys /\ \A c \in NamespaceCells : ShowsCell(q, c) => ShowsCell(p, c)
  BY <1>1 DEF ShowsCell, NamespaceCells
<1> QED BY <1>2 DEF q

LEMMA FollowedKeeps ==
  ASSUME NEW p, NEW r, DOMAIN p = NamespacesKeys
  PROVE  /\ DOMAIN Followed(p, r) = NamespacesKeys
         /\ \A c \in NamespaceCells : ShowsCell(Followed(p, r), c) => ShowsCell(p, c)
BY ShowingKeeps DEF Followed

LEMMA FinallyKeeps ==
  ASSUME NEW p, NEW op, NEW from, DOMAIN p = NamespacesKeys
  PROVE  /\ DOMAIN Finally(p, op, from) = NamespacesKeys
         /\ \A c \in NamespaceCells : ShowsCell(Finally(p, op, from), c) => ShowsCell(p, c)
         /\ ~ShowsCell(Finally(p, op, from), "act")
         /\ from = "drawer" => ~ShowsCell(Finally(p, op, from), "restore")
<1> DEFINE q == Finally(p, op, from)
<1>1. /\ DOMAIN q = NamespacesKeys /\ q.create = p.create /\ q.saving = p.saving
      /\ q.loading = p.loading /\ q.reading = p.reading /\ q.acting = Nil
      /\ q.restoring => p.restoring
      /\ from = "drawer" => ~q.restoring
  BY DEF Finally, NamespacesKeys
<1> HIDE DEF q
<1> QED BY <1>1 DEF ShowsCell, NamespaceCells, q

LEMMA NamespacesKept ==
  ASSUME NamespacesInv, NamespacesNext
  PROVE  NamespacesInv'
<1>0. /\ DOMAIN page = NamespacesKeys
      /\ \A r \in Open : NamespacesRequest(r)
      /\ \A c \in NamespaceCells : ShowsCell(page, c) => \E r \in Open : SetsCell(r, c)
  BY DEF NamespacesInv
\* A cell is set by no one.
<1>1. ASSUME NEW p, Sets(p), DOMAIN p = NamespacesKeys,
             \A c \in NamespaceCells : ShowsCell(p, c) => ShowsCell(page, c)
      PROVE  NamespacesInv'
  <2>1. page' = p /\ Open' = Open
    BY <1>1 DEF Sets, Open
  <2> QED BY <1>0, <1>1, <2>1 DEF NamespacesInv
\* A handler sends x.
<1>2. ASSUME NEW p, NEW x, Calls(p, x), NamespacesRequest(x), DOMAIN p = NamespacesKeys,
             \A c \in NamespaceCells : ShowsCell(p, c) => ShowsCell(page, c) \/ SetsCell(x, c)
      PROVE  NamespacesInv'
  <2>1. page' = p /\ Open' = Open \cup {x}
    BY <1>2, AskOpens DEF Calls
  <2> QED BY <1>0, <1>2, <2>1 DEF NamespacesInv
\* A handler goes on with x in place of r.
<1>3. ASSUME NEW p, NEW r \in Open, NEW x, page' = p, wire' = BagAdd(Settled(r), x),
             NamespacesRequest(x), DOMAIN p = NamespacesKeys,
             \A c \in NamespaceCells : ShowsCell(p, c) => \/ ShowsCell(page, c) /\ ~SetsCell(r, c)
                                                          \/ SetsCell(x, c)
      PROVE  NamespacesInv'
  <2>1. Open' \subseteq Open \cup {x} /\ Open \subseteq Open' \cup {r} /\ x \in Open'
    BY <1>3, FollowOpens
  <2> QED BY <1>0, <1>3, <2>1 DEF NamespacesInv
\* r ends.
<1>4. ASSUME NEW p, NEW r \in Open, page' = p, wire' = Settled(r), DOMAIN p = NamespacesKeys,
             \A c \in NamespaceCells : ShowsCell(p, c) => ShowsCell(page, c) /\ ~SetsCell(r, c)
      PROVE  NamespacesInv'
  <2>1. Open' \subseteq Open /\ Open \subseteq Open' \cup {r}
    BY <1>4, SettleOpens
  <2> QED BY <1>0, <1>4, <2>1 DEF NamespacesInv
<1>5. /\ \A f, a : SetsCell(LoadList(f, a), "list")
      /\ \A n : SetsCell(ReadDetail(n), "detail")
      /\ \A op, n, f : op \in {"create", "update"} => SetsCell(Mutate(op, n, f), op)
      /\ \A op, n, f : op \in {"archive", "restore"} => SetsCell(Mutate(op, n, f), "act")
      /\ \A n : SetsCell(Mutate("restore", n, "drawer"), "restore")
  BY NamespacesAsks DEF SetsCell
<1>6. ASSUME NEW f \in NamespaceFilters, SelectFilter(f) PROVE NamespacesInv'
  <2> DEFINE p == [page EXCEPT !.filter = f, !.loading = TRUE]
  <2>1. /\ DOMAIN p = NamespacesKeys
        /\ \A c \in NamespaceCells \ {"list"} : ShowsCell(p, c) => ShowsCell(page, c)
    BY <1>0 DEF NamespacesKeys, NamespaceCells, ShowsCell
  <2>2. Calls(p, LoadList(f, Nil))
    BY <1>6 DEF SelectFilter
  <2> HIDE DEF p
  <2> QED BY <1>2, <1>5, <2>1, <2>2, NamespacesRequests
<1>7. CASE RetryList
  <2> DEFINE p == [page EXCEPT !.loading = TRUE]
  <2>1. /\ DOMAIN p = NamespacesKeys
        /\ \A c \in NamespaceCells \ {"list"} : ShowsCell(p, c) => ShowsCell(page, c)
    BY <1>0 DEF NamespacesKeys, NamespaceCells, ShowsCell
  <2>2. Calls(p, LoadList(page.filter, Nil))
    BY <1>7 DEF RetryList
  <2> HIDE DEF p
  <2> QED BY <1>2, <1>5, <2>1, <2>2, NamespacesRequests
<1>8. ASSUME \/ ShowCreate \/ HideCreate \/ CloseDetail \/ ToggleEditing \/ CancelArchive
             \/ \E n \in Namespaces : AskArchive(n)
      PROVE  NamespacesInv'
  <2>1. PICK p : /\ Sets(p) /\ DOMAIN p = DOMAIN page
                 /\ p.create # "busy" \/ p.create = page.create
                 /\ p.saving = page.saving /\ p.loading = page.loading /\ p.reading = page.reading
                 /\ p.acting = page.acting /\ p.restoring = page.restoring
    <3> DEFINE P(p) == /\ Sets(p) /\ DOMAIN p = DOMAIN page
                       /\ p.create # "busy" \/ p.create = page.create
                       /\ p.saving = page.saving /\ p.loading = page.loading /\ p.reading = page.reading
                       /\ p.acting = page.acting /\ p.restoring = page.restoring
    <3>1. CASE ShowCreate
      <4> P([page EXCEPT !.create = "open"])
        BY <1>0, <3>1 DEF ShowCreate, NamespacesKeys
      <4> QED OBVIOUS
    <3>2. CASE HideCreate
      <4> P([page EXCEPT !.create = "closed"])
        BY <1>0, <3>2 DEF HideCreate, NamespacesKeys
      <4> QED OBVIOUS
    <3>3. CASE CloseDetail
      <4> P([page EXCEPT !.drawer = Nil, !.detail = Nil, !.failed = FALSE])
        BY <1>0, <3>3 DEF CloseDetail, NamespacesKeys
      <4> QED OBVIOUS
    <3>4. CASE ToggleEditing
      <4> P([page EXCEPT !.editing = ~@])
        BY <1>0, <3>4 DEF ToggleEditing, NamespacesKeys
      <4> QED OBVIOUS
    <3>5. CASE CancelArchive
      <4> P([page EXCEPT !.archive = Nil])
        BY <1>0, <3>5 DEF CancelArchive, NamespacesKeys
      <4> QED OBVIOUS
    <3>6. ASSUME NEW n \in Namespaces, AskArchive(n) PROVE \E p : P(p)
      <4> P([page EXCEPT !.archive = n])
        BY <1>0, <3>6 DEF AskArchive, NamespacesKeys
      <4> QED OBVIOUS
    <3> QED BY <1>8, <3>1, <3>2, <3>3, <3>4, <3>5, <3>6
  <2>2. \A c \in NamespaceCells : ShowsCell(p, c) => ShowsCell(page, c)
    BY <2>1 DEF NamespaceCells, ShowsCell
  <2> QED BY <1>0, <1>1, <2>1, <2>2
<1>9. ASSUME NEW n \in Namespaces, CreateNamespace(n) PROVE NamespacesInv'
  <2> DEFINE p == [page EXCEPT !.create = "busy"]
  <2>1. /\ DOMAIN p = NamespacesKeys
        /\ \A c \in NamespaceCells \ {"create"} : ShowsCell(p, c) => ShowsCell(page, c)
    BY <1>0 DEF NamespacesKeys, NamespaceCells, ShowsCell
  <2>2. Calls(p, Mutate("create", n, Nil))
    BY <1>9 DEF CreateNamespace
  <2> HIDE DEF p
  <2> QED BY <1>2, <1>5, <2>1, <2>2, NamespacesRequests
<1>10. ASSUME NEW p, NEW n, DOMAIN p = NamespacesKeys, Calls(p, ReadDetail(n)), p.create = page.create,
              p.saving = page.saving, p.loading = page.loading, p.acting = page.acting,
              p.restoring = page.restoring
       PROVE  NamespacesInv'
  <2>1. \A c \in NamespaceCells \ {"detail"} : ShowsCell(p, c) => ShowsCell(page, c)
    BY <1>10 DEF NamespaceCells, ShowsCell
  <2> QED BY <1>2, <1>5, <1>10, <2>1, NamespacesRequests
<1>11. ASSUME NEW n \in Namespaces, NEW edit \in BOOLEAN, OpenDetail(n, edit) PROVE NamespacesInv'
  <2> DEFINE p == [page EXCEPT !.drawer = n, !.reading = TRUE, !.failed = FALSE, !.editing = edit]
  <2>1. /\ DOMAIN p = NamespacesKeys /\ p.create = page.create /\ p.saving = page.saving
        /\ p.loading = page.loading /\ p.acting = page.acting /\ p.restoring = page.restoring
    BY <1>0 DEF NamespacesKeys
  <2>2. Calls(p, ReadDetail(n))
    BY <1>11 DEF OpenDetail
  <2> HIDE DEF p
  <2> QED BY <1>10, <2>1, <2>2
<1>12. CASE RetryDetail
  <2> DEFINE p == [page EXCEPT !.reading = TRUE, !.failed = FALSE, !.editing = FALSE]
  <2>1. /\ DOMAIN p = NamespacesKeys /\ p.create = page.create /\ p.saving = page.saving
        /\ p.loading = page.loading /\ p.acting = page.acting /\ p.restoring = page.restoring
    BY <1>0 DEF NamespacesKeys
  <2>2. Calls(p, ReadDetail(page.drawer))
    BY <1>12 DEF RetryDetail
  <2> HIDE DEF p
  <2> QED BY <1>10, <2>1, <2>2
<1>13. CASE SaveDetail
  <2> DEFINE p == [page EXCEPT !.saving = TRUE]
  <2>1. /\ DOMAIN p = NamespacesKeys
        /\ \A c \in NamespaceCells \ {"update"} : ShowsCell(p, c) => ShowsCell(page, c)
    BY <1>0 DEF NamespacesKeys, NamespaceCells, ShowsCell
  <2>2. Calls(p, Mutate("update", page.detail[1], "drawer"))
    BY <1>13 DEF SaveDetail
  <2> HIDE DEF p
  <2> QED BY <1>2, <1>5, <2>1, <2>2, NamespacesRequests
<1>14. CASE ConfirmArchive
  <2> DEFINE p == [page EXCEPT !.archive = Nil, !.acting = page.archive]
  <2>1. /\ DOMAIN p = NamespacesKeys
        /\ \A c \in NamespaceCells \ {"act"} : ShowsCell(p, c) => ShowsCell(page, c)
    BY <1>0 DEF NamespacesKeys, NamespaceCells, ShowsCell
  <2>2. Calls(p, Mutate("archive", page.archive, "page"))
    BY <1>14 DEF ConfirmArchive
  <2> HIDE DEF p
  <2>3. "page" \in Froms
    BY DEF Froms
  <2> QED BY <1>2, <1>5, <2>1, <2>2, <2>3, NamespacesRequests
<1>15. ASSUME NEW n \in Namespaces, RestoreRow(n) PROVE NamespacesInv'
  <2> DEFINE p == [page EXCEPT !.acting = n]
  <2>1. /\ DOMAIN p = NamespacesKeys
        /\ \A c \in NamespaceCells \ {"act"} : ShowsCell(p, c) => ShowsCell(page, c)
    BY <1>0 DEF NamespacesKeys, NamespaceCells, ShowsCell
  <2>2. Calls(p, Mutate("restore", n, "page"))
    BY <1>15 DEF RestoreRow
  <2> HIDE DEF p
  <2>3. "page" \in Froms
    BY DEF Froms
  <2> QED BY <1>2, <1>5, <2>1, <2>2, <2>3, NamespacesRequests
<1>16. CASE RestoreDetail
  <2> DEFINE p == [page EXCEPT !.restoring = TRUE, !.acting = page.detail[1]]
  <2>1. /\ DOMAIN p = NamespacesKeys
        /\ \A c \in NamespaceCells \ {"act", "restore"} : ShowsCell(p, c) => ShowsCell(page, c)
    BY <1>0 DEF NamespacesKeys, NamespaceCells, ShowsCell
  <2>2. Calls(p, Mutate("restore", page.detail[1], "drawer"))
    BY <1>16 DEF RestoreDetail
  <2> HIDE DEF p
  <2>3. "drawer" \in Froms
    BY DEF Froms
  <2> QED BY <1>2, <1>5, <2>1, <2>2, <2>3, NamespacesRequests
<1>17. ASSUME NEW r \in Open, NEW ok \in BOOLEAN, ListLoaded(r, ok) PROVE NamespacesInv'
  <2> DEFINE p == [page EXCEPT !.loading = FALSE, !.rows = IF ok THEN r.rows ELSE @]
  <2>1. /\ DOMAIN p = NamespacesKeys
        /\ ~ShowsCell(p, "list")
        /\ \A c \in NamespaceCells : ShowsCell(p, c) => ShowsCell(page, c)
    BY <1>0 DEF NamespacesKeys, NamespaceCells, ShowsCell
  <2>2. wire' = Settled(r) /\ page' = (IF r.after = Nil THEN p ELSE Finally(p, r.after[1], r.after[2]))
    BY <1>17 DEF ListLoaded
  <2> HIDE DEF p
  <2>3. /\ r.op = "list" /\ r.after \in ({"archive", "restore"} \X Froms) \cup {Nil}
    BY <1>0, <1>17 DEF ListLoaded, NamespacesRequest
  <2>4. \A c \in NamespaceCells : SetsCell(r, c) => \/ c = "list"
                                                    \/ c = "act" /\ r.after # Nil
                                                    \/ c = "restore" /\ r.after = <<"restore", "drawer">>
    <3>1. r.op = "list"
      BY <2>3
    <3> QED BY <3>1 DEF SetsCell, NamespaceCells
  <2>5. CASE r.after = Nil
    <3>1. Nil # <<"restore", "drawer">>
      BY NamespacesAssumption
    <3> QED BY <1>4, <2>1, <2>2, <2>4, <2>5, <3>1
  <2>6. CASE r.after # Nil
    <3>1. /\ page' = Finally(p, r.after[1], r.after[2])
          /\ r.after = <<"restore", "drawer">> => r.after[2] = "drawer"
      BY <2>2, <2>6
    <3> QED BY <1>4, <2>1, <2>2, <2>4, <3>1, FinallyKeeps DEF NamespaceCells
  <2> QED BY <2>5, <2>6
<1>18. ASSUME NEW r \in Open, NEW ok \in BOOLEAN, DetailRead(r, ok) PROVE NamespacesInv'
  <2> DEFINE p == [page EXCEPT !.reading = FALSE]
             q == [page EXCEPT !.reading = FALSE, !.drawer = Nil]
             s == [page EXCEPT !.reading = FALSE, !.failed = TRUE]
  <2>1. \A o \in {p, q, s} : /\ DOMAIN o = NamespacesKeys /\ ~ShowsCell(o, "detail")
                             /\ \A c \in NamespaceCells : ShowsCell(o, c) => ShowsCell(page, c)
    BY <1>0 DEF NamespacesKeys, NamespaceCells, ShowsCell
  <2>2. wire' = Settled(r) /\ (page' = q \/ page' = s \/ page' = Showing(p, <<r.id, r.found>>))
    BY <1>18 DEF DetailRead
  <2> HIDE DEF p, q, s
  <2>3. \A c \in NamespaceCells : SetsCell(r, c) => c = "detail"
    BY <1>18 DEF DetailRead, SetsCell, NamespaceCells
  <2>4. CASE page' = q \/ page' = s
    BY <1>4, <2>1, <2>2, <2>3, <2>4
  <2>5. CASE page' = Showing(p, <<r.id, r.found>>)
    BY <1>4, <2>1, <2>2, <2>3, <2>5, ShowingKeeps
  <2> QED BY <2>2, <2>4, <2>5
<1>19. ASSUME NEW r \in Open, NEW ok \in BOOLEAN, Created(r, ok) PROVE NamespacesInv'
  <2> DEFINE p == [page EXCEPT !.rows = r.rows, !.filter = "all", !.create = "closed"]
             q == [p EXCEPT !.loading = TRUE]
             s == [page EXCEPT !.create = IF @ = "busy" THEN "open" ELSE @]
  <2>0. /\ DOMAIN p = NamespacesKeys /\ p.create # "busy" /\ p.saving = page.saving
        /\ p.loading = page.loading /\ p.reading = page.reading /\ p.acting = page.acting
        /\ p.restoring = page.restoring
        /\ DOMAIN s = NamespacesKeys /\ s.create # "busy" /\ s.saving = page.saving
        /\ s.loading = page.loading /\ s.reading = page.reading /\ s.acting = page.acting
        /\ s.restoring = page.restoring
    BY <1>0 DEF NamespacesKeys
  <2>1. \A o \in {p, s} : /\ DOMAIN o = NamespacesKeys /\ ~ShowsCell(o, "create")
                          /\ \A c \in NamespaceCells : ShowsCell(o, c) => ShowsCell(page, c)
    <3> HIDE DEF p, s
    <3> QED BY <2>0 DEF NamespaceCells, ShowsCell
  <2>2. /\ DOMAIN q = NamespacesKeys
        /\ \A c \in NamespaceCells \ {"list"} : ShowsCell(q, c) => ShowsCell(p, c)
    <3>1. DOMAIN p = NamespacesKeys
      BY <2>1
    <3> HIDE DEF p
    <3> QED BY <3>1 DEF NamespacesKeys, NamespaceCells, ShowsCell
  <2>3. \/ page' = p /\ wire' = Settled(r)
        \/ page' = q /\ wire' = BagAdd(Settled(r), LoadList("all", Nil))
        \/ page' = s /\ wire' = Settled(r)
    BY <1>19 DEF Created
  <2> HIDE DEF p, q, s
  <2>4. \A c \in NamespaceCells : SetsCell(r, c) => c = "create"
    BY <1>19 DEF Created, SetsCell, NamespaceCells
  <2>5. ASSUME NEW o \in {p, s}, page' = o, wire' = Settled(r) PROVE NamespacesInv'
    BY <1>4, <2>1, <2>4, <2>5
  <2>6. CASE page' = q /\ wire' = BagAdd(Settled(r), LoadList("all", Nil))
    BY <1>3, <1>5, <2>1, <2>2, <2>4, <2>6, NamespacesRequests
  <2> QED BY <2>3, <2>5, <2>6
<1>20. ASSUME NEW r \in Open, NEW ok \in BOOLEAN, Updated(r, ok) PROVE NamespacesInv'
  <2> DEFINE p == [page EXCEPT !.rows = r.rows]
             q == [Followed(p, r) EXCEPT !.editing = FALSE, !.saving = FALSE]
             s == [page EXCEPT !.saving = FALSE]
  <2>1. DOMAIN p = NamespacesKeys /\ \A c \in NamespaceCells : ShowsCell(p, c) => ShowsCell(page, c)
    BY <1>0 DEF NamespacesKeys, NamespaceCells, ShowsCell
  <2>2. /\ DOMAIN s = NamespacesKeys
        /\ ~ShowsCell(s, "update")
        /\ \A c \in NamespaceCells : ShowsCell(s, c) => ShowsCell(page, c)
    BY <1>0 DEF NamespacesKeys, NamespaceCells, ShowsCell
  <2>3. /\ DOMAIN Followed(p, r) = NamespacesKeys
        /\ \A c \in NamespaceCells : ShowsCell(Followed(p, r), c) => ShowsCell(page, c)
    <3> HIDE DEF p
    <3> QED BY <2>1, FollowedKeeps
  <2>4. DOMAIN q = NamespacesKeys /\ ~ShowsCell(q, "update")
        /\ \A c \in NamespaceCells : ShowsCell(q, c) => ShowsCell(Followed(p, r), c)
    <3> DEFINE t == Followed(p, r)
    <3>1. DOMAIN t = NamespacesKeys
      BY <2>3
    <3> HIDE DEF t
    <3>2. q = [t EXCEPT !.editing = FALSE, !.saving = FALSE]
      BY DEF t
    <3> HIDE DEF q
    <3>3. /\ DOMAIN q = NamespacesKeys /\ q.create = t.create /\ ~q.saving /\ q.loading = t.loading
          /\ q.reading = t.reading /\ q.acting = t.acting /\ q.restoring = t.restoring
      BY <3>1, <3>2 DEF NamespacesKeys
    <3>4. DOMAIN q = NamespacesKeys /\ ~ShowsCell(q, "update")
          /\ \A c \in NamespaceCells : ShowsCell(q, c) => ShowsCell(t, c)
      BY <3>3 DEF NamespaceCells, ShowsCell
    <3> QED BY <3>4 DEF t
  <2>5. wire' = Settled(r) /\ (page' = q \/ page' = s)
    BY <1>20 DEF Updated
  <2> HIDE DEF p, q, s
  <2>6. \A c \in NamespaceCells : SetsCell(r, c) => c = "update"
    BY <1>20 DEF Updated, SetsCell, NamespaceCells
  <2>7. CASE page' = q
    BY <1>4, <2>3, <2>4, <2>5, <2>6, <2>7
  <2>8. CASE page' = s
    BY <1>4, <2>2, <2>5, <2>6, <2>8
  <2> QED BY <2>5, <2>7, <2>8
<1>21. ASSUME NEW r \in Open, NEW ok \in BOOLEAN, StatusChanged(r, ok) PROVE NamespacesInv'
  <2>1. r.op \in {"archive", "restore"} /\ r.from \in Froms
    BY <1>0, <1>21 DEF StatusChanged, NamespacesRequest
  <2>2. \A c \in NamespaceCells : SetsCell(r, c) => \/ c = "act"
                                                    \/ c = "restore" /\ r.op = "restore" /\ r.from = "drawer"
    BY <2>1 DEF SetsCell, NamespaceCells
  <2>3. CASE ok /\ r.stage = "conflict"
    <3> DEFINE p == [page EXCEPT !.loading = TRUE]
               x == LoadList(r.filter, <<r.op, r.from>>)
    <3>1. /\ DOMAIN p = NamespacesKeys
          /\ \A c \in NamespaceCells \ {"list"} : ShowsCell(p, c) => ShowsCell(page, c)
      BY <1>0 DEF NamespacesKeys, NamespaceCells, ShowsCell
    <3>2. page' = p /\ wire' = BagAdd(Settled(r), x)
      BY <1>21, <2>3 DEF StatusChanged
    <3>3. x.op = "list" /\ x.after = <<r.op, r.from>> /\ <<r.op, r.from>> \in {"archive", "restore"} \X Froms
      BY <2>1, NamespacesAsks
    <3>4. NamespacesRequest(x)
      BY <3>3, NamespacesRequests
    <3> HIDE DEF p, x
    <3>5. x.after # Nil
      BY <3>3, NamespacesAssumption DEF Froms
    <3>6. \A c \in NamespaceCells : SetsCell(r, c) \/ c = "list" => SetsCell(x, c)
      BY <2>2, <3>3, <3>5 DEF SetsCell, NamespaceCells
    <3> QED BY <1>3, <3>1, <3>2, <3>4, <3>6
  <2>4. CASE ~(ok /\ r.stage = "conflict")
    <3> DEFINE p == [page EXCEPT !.rows = r.rows]
               q == IF ok THEN Followed(p, r) ELSE page
    <3>1. DOMAIN p = NamespacesKeys /\ \A c \in NamespaceCells : ShowsCell(p, c) => ShowsCell(page, c)
      BY <1>0 DEF NamespacesKeys, NamespaceCells, ShowsCell
    <3>2. page' = Finally(q, r.op, r.from) /\ wire' = Settled(r)
      BY <1>21, <2>4 DEF StatusChanged
    <3>3. DOMAIN q = NamespacesKeys /\ \A c \in NamespaceCells : ShowsCell(q, c) => ShowsCell(page, c)
      <4> HIDE DEF p
      <4> QED BY <1>0, <3>1, FollowedKeeps
    <3> HIDE DEF p, q
    <3> QED BY <1>4, <2>2, <3>2, <3>3, FinallyKeeps
  <2> QED BY <2>3, <2>4
<1>22. ASSUME NEW r \in Open, ServeNamespaces(r) PROVE NamespacesInv'
  <2>0. NamespacesRequest(r)
    BY <1>0
  <2>1. PICK x : /\ Reply(r, x) /\ {"op", "stage"} \subseteq DOMAIN x /\ x.op = r.op
                 /\ "after" \in DOMAIN r => "after" \in DOMAIN x /\ x.after = r.after
                 /\ "from" \in DOMAIN r => "from" \in DOMAIN x /\ x.from = r.from
    <3> DEFINE P(x) == /\ Reply(r, x) /\ {"op", "stage"} \subseteq DOMAIN x /\ x.op = r.op
                       /\ "after" \in DOMAIN r => "after" \in DOMAIN x /\ x.after = r.after
                       /\ "from" \in DOMAIN r => "from" \in DOMAIN x /\ x.from = r.from
    <3>1. ASSUME NEW x, Reply(r, x), DOMAIN r \subseteq DOMAIN x,
                 \A k \in DOMAIN r \cap {"op", "after", "from"} : x[k] = r[k]
          PROVE  P(x)
      <4>1. /\ x["op"] = r["op"] /\ ("after" \in DOMAIN r => x["after"] = r["after"])
            /\ "from" \in DOMAIN r => x["from"] = r["from"]
        BY <2>0, <3>1 DEF NamespacesRequest
      <4> QED BY <2>0, <3>1, <4>1 DEF NamespacesRequest
    <3>2. ASSUME NEW f, DOMAIN f \cap {"op", "stage", "after", "from"} = {}, Reply(r, AnsweredWith(r, f))
          PROVE  \E x : P(x)
      <4> DEFINE x == AnsweredWith(r, f)
      <4>1. DOMAIN x = DOMAIN r \cup DOMAIN f
            /\ \A k \in DOMAIN r : k \notin DOMAIN f /\ k # "stage" => x[k] = r[k]
        BY AnswerWithKeeps
      <4>2. Reply(r, x)
        BY <3>2
      <4> HIDE DEF x, P
      <4> QED BY <3>1, <3>2, <4>1, <4>2
    <3>3. ASSUME Reply(r, [r EXCEPT !.stage = "conflict"]) PROVE \E x : P(x)
      <4> DEFINE x == [r EXCEPT !.stage = "conflict"]
      <4>1. DOMAIN x = DOMAIN r /\ \A k \in DOMAIN r : k # "stage" => x[k] = r[k]
        OBVIOUS
      <4>2. Reply(r, x)
        BY <3>3
      <4> HIDE DEF x, P
      <4> QED BY <3>1, <4>1, <4>2
    <3>4. \/ \E v : Reply(r, AnsweredWith(r, [rows |-> v]))
          \/ \E v : Reply(r, AnsweredWith(r, [found |-> v]))
          \/ \E v, w : Reply(r, AnsweredWith(r, [rows |-> v, status |-> w]))
          \/ Reply(r, [r EXCEPT !.stage = "conflict"])
      BY <1>22 DEF ServeNamespaces
    <3>5. \A v, w : /\ DOMAIN [rows |-> v] = {"rows"} /\ DOMAIN [found |-> v] = {"found"}
                    /\ DOMAIN [rows |-> v, status |-> w] = {"rows", "status"}
      OBVIOUS
    <3> HIDE DEF P
    <3>6. \E x : P(x)
      BY <3>2, <3>3, <3>4, <3>5
    <3> QED BY <3>6 DEF P
  <2>2. wire' = BagAdd(Settled(r), x) /\ page' = page
    BY <1>22, <2>1 DEF Reply, Settled, ServeNamespaces
  <2>3. NamespacesRequest(x)
    BY <2>0, <2>1 DEF NamespacesRequest
  <2>4. \A c \in NamespaceCells : SetsCell(r, c) => SetsCell(x, c)
    BY <2>0, <2>1 DEF NamespacesRequest, SetsCell, NamespaceCells
  <2> QED BY <1>0, <1>3, <2>2, <2>3, <2>4
<1>23. ASSUME NEW n \in Namespaces, OthersChange(n) PROVE NamespacesInv'
  BY <1>0, <1>23 DEF OthersChange, NamespacesInv, Open
<1>24. ASSUME NEW n \in Namespaces,
              \/ CreateNamespace(n) \/ AskArchive(n) \/ RestoreRow(n) \/ OthersChange(n)
              \/ \E edit \in BOOLEAN : OpenDetail(n, edit)
       PROVE  NamespacesInv'
  BY <1>8, <1>9, <1>11, <1>15, <1>23, <1>24
<1>25. ASSUME NEW r \in Open,
              \/ ServeNamespaces(r)
              \/ \E ok \in BOOLEAN : \/ ListLoaded(r, ok) \/ DetailRead(r, ok) \/ Created(r, ok)
                                     \/ Updated(r, ok) \/ StatusChanged(r, ok)
       PROVE  NamespacesInv'
  BY <1>17, <1>18, <1>19, <1>20, <1>21, <1>22, <1>25
<1> QED BY <1>6, <1>7, <1>8, <1>12, <1>13, <1>14, <1>16, <1>24, <1>25 DEF NamespacesNext

-----------------------------------------------------------------------------
(***************************************************************************)
(* The system page: the changes of accounts are one chain, which is open   *)
(* as long as the forms are disabled; memory may be changed by several     *)
(* handlers at once.                                                       *)
(***************************************************************************)
ChangesUsers(r) == r.op \in {"createUser", "updateUser"} \/ (r.op = "users" /\ r.handler = "user")
PutsEntry(r) == r.op = "put" \/ (r.op = "memory" /\ r.handler = "put")

SystemRequest(r) ==
  /\ {"op", "stage"} \subseteq DOMAIN r
  /\ r.op \in {"users", "createUser", "updateUser", "memory", "put", "delete"}
  /\ r.op \in {"users", "memory"} => "handler" \in DOMAIN r
  /\ r.op = "users" => r.handler \in {"refresh", "user"}

UsersKept == (page.userBusy <=> UserChain # {}) /\ OneAtMost(UserChain)

SystemInv ==
  /\ {"userBusy", "loading", "saving"} \subseteq DOMAIN page
  /\ \A r \in Open : SystemRequest(r)
  /\ UsersKept
  /\ page.loading => \E r \in Open : r.op = "memory"
  /\ page.saving => \E r \in Open : PutsEntry(r)

LEMMA UserChainIs == UserChain = {r \in Open : ChangesUsers(r)}
BY DEF UserChain, ChangesUsers, Pending

LEMMA UsersAsk ==
  ASSUME UsersKept, NEW x, Ask(x), ChangesUsers(x) => ~page.userBusy,
         page'.userBusy <=> page.userBusy \/ ChangesUsers(x)
  PROVE  UsersKept'
<1> DEFINE C == UserChain
           D == UserChain'
<1>1. Open' = Open \cup {x}
  BY AskOpens
<1>2. D = {r \in Open' : ChangesUsers(r)}
  BY DEF UserChain, ChangesUsers, Pending
<1>3. C \subseteq Open /\ D \subseteq Open' /\ OneAtMost(C) /\ (x \in D <=> ChangesUsers(x))
      /\ (\A y \in Open : y \in D <=> y \in C) /\ (x \in D => C = {})
  BY <1>1, <1>2, UserChainIs DEF UsersKept
<1> HIDE DEF C, D
<1>4. D = C \cup (D \cap {x}) /\ \A y, z \in D : y = z /\ Copies(y)' = 1
  BY <1>3, ChainAsk
<1> QED BY <1>3, <1>4 DEF UsersKept, OneAtMost, C, D

LEMMA UsersFollow ==
  ASSUME UsersKept, NEW r \in Open, NEW x, wire' = BagAdd(Settled(r), x),
         ChangesUsers(x) => ChangesUsers(r),
         page'.userBusy <=> page.userBusy /\ (ChangesUsers(r) => ChangesUsers(x))
  PROVE  UsersKept'
<1> DEFINE C == UserChain
           D == UserChain'
<1>1. Open' \subseteq Open \cup {x} /\ Open \subseteq Open' \cup {r} /\ x \in Open'
  BY FollowOpens
<1>2. D = {y \in Open' : ChangesUsers(y)}
  BY DEF UserChain, ChangesUsers, Pending
<1>3. C \subseteq Open /\ D \subseteq Open' /\ OneAtMost(C) /\ (x \in D <=> ChangesUsers(x))
      /\ (r \in C <=> ChangesUsers(r))
      /\ (\A y \in Open : y \in Open' => (y \in D <=> y \in C)) /\ (x \in D => r \in C)
  BY <1>1, <1>2, UserChainIs DEF UsersKept
<1> HIDE DEF C, D
<1>4. /\ r \in C => D = D \cap {x}
      /\ r \notin C => D = C
      /\ \A y, z \in D : y = z /\ Copies(y)' = 1
  BY <1>3, ChainFollow
<1> QED BY <1>3, <1>4 DEF UsersKept, OneAtMost, C, D

LEMMA UsersReply ==
  ASSUME UsersKept, NEW r \in Open, NEW x, Reply(r, x), ChangesUsers(x) <=> ChangesUsers(r),
         page' = page
  PROVE  UsersKept'
<1>1. wire' = BagAdd(Settled(r), x)
  BY DEF Reply, Settled
<1> QED BY <1>1, UsersFollow

LEMMA UsersSettle ==
  ASSUME UsersKept, NEW r \in Open, wire' = Settled(r),
         page'.userBusy <=> page.userBusy /\ ~ChangesUsers(r)
  PROVE  UsersKept'
<1> DEFINE C == UserChain
           D == UserChain'
<1>1. Open' \subseteq Open /\ Open \subseteq Open' \cup {r}
  BY SettleOpens
<1>2. D = {y \in Open' : ChangesUsers(y)}
  BY DEF UserChain, ChangesUsers, Pending
<1>3. C \subseteq Open /\ D \subseteq Open' /\ OneAtMost(C) /\ (r \in C <=> ChangesUsers(r))
      /\ (\A y \in Open : y \in Open' => (y \in D <=> y \in C))
  BY <1>1, <1>2, UserChainIs DEF UsersKept
<1> HIDE DEF C, D
<1>4. /\ r \in C => D = {}
      /\ r \notin C => D = C
      /\ \A y, z \in D : y = z /\ Copies(y)' = 1
  BY <1>3, ChainSettle
<1> QED BY <1>3, <1>4 DEF UsersKept, OneAtMost, C, D

LEMMA SystemAsks ==
  /\ \A h : LoadUsers(h).op = "users" /\ LoadUsers(h).handler = h
            /\ {"op", "stage", "handler"} \subseteq DOMAIN LoadUsers(h)
  /\ \A s, h : LoadMemory(s, h).op = "memory" /\ LoadMemory(s, h).handler = h
               /\ {"op", "stage", "handler"} \subseteq DOMAIN LoadMemory(s, h)
  /\ \A op, u, role : ChangeUser(op, u, role).op = op
               /\ {"op", "stage"} \subseteq DOMAIN ChangeUser(op, u, role)
  /\ \A op, s, k : ChangeEntry(op, s, k).op = op
               /\ {"op", "stage"} \subseteq DOMAIN ChangeEntry(op, s, k)
BY DEF LoadUsers, LoadMemory, ChangeUser, ChangeEntry

LEMMA SystemStart ==
  ASSUME NEW owner, NEW a, SystemMounted(owner, a)
  PROVE  SystemInv'
<1> DEFINE x == LoadMemory(FirstScope, "refresh")
           y == LoadUsers("refresh")
<1>1. Open' \subseteq {x, y} /\ x \in Open'
  BY MountOpens DEF SystemMounted
<1>2. {"userBusy", "loading", "saving"} \subseteq DOMAIN page' /\ ~page'.userBusy /\ ~page'.saving
  BY DEF SystemMounted, Mounting
<1>3. /\ {"op", "stage", "handler"} \subseteq DOMAIN x /\ x.op = "memory" /\ x.handler = "refresh"
      /\ {"op", "stage", "handler"} \subseteq DOMAIN y /\ y.op = "users" /\ y.handler = "refresh"
  BY SystemAsks
<1> HIDE DEF x, y
<1>4. \A z \in Open' : SystemRequest(z) /\ ~ChangesUsers(z)
  BY <1>1, <1>3 DEF SystemRequest, ChangesUsers
<1>5. UserChain' = {}
  BY <1>4 DEF UserChain, ChangesUsers, Pending
<1> QED BY <1>1, <1>2, <1>3, <1>4, <1>5 DEF SystemInv, UsersKept, OneAtMost

LEMMA SystemKept ==
  ASSUME SystemInv, SystemNext
  PROVE  SystemInv'
<1>0. /\ {"userBusy", "loading", "saving"} \subseteq DOMAIN page
      /\ \A r \in Open : SystemRequest(r)
      /\ UsersKept
      /\ page.loading => \E r \in Open : r.op = "memory"
      /\ page.saving => \E r \in Open : PutsEntry(r)
  BY DEF SystemInv
<1>1. ASSUME UNCHANGED wire, DOMAIN page' = DOMAIN page, page'.userBusy = page.userBusy,
             page'.loading = page.loading, page'.saving = page.saving
      PROVE  SystemInv'
  <2>1. Open' = Open /\ UserChain' = UserChain /\ \A y : Copies(y)' = Copies(y)
    BY <1>1 DEF Open, Copies, UserChain, Pending
  <2> QED BY <1>0, <1>1, <2>1 DEF SystemInv, UsersKept, OneAtMost
\* A handler sends x.
<1>2. ASSUME NEW p, NEW x, Handles(p, x), SystemRequest(x),
             {"userBusy", "loading", "saving"} \subseteq DOMAIN p,
             ChangesUsers(x) => ~page.userBusy, p.userBusy <=> page.userBusy \/ ChangesUsers(x),
             p.loading => page.loading \/ x.op = "memory", p.saving => page.saving \/ PutsEntry(x)
      PROVE  SystemInv'
  <2>1. Ask(x) /\ page' = p
    BY <1>2 DEF Handles
  <2>2. Open' = Open \cup {x}
    BY <2>1, AskOpens
  <2>3. UsersKept'
    BY <1>0, <1>2, <2>1, UsersAsk
  <2> QED BY <1>0, <1>2, <2>1, <2>2, <2>3 DEF SystemInv
<1>3. ASSUME NEW u, NEW role, NEW op \in {"createUser", "updateUser"}, ~page.userBusy,
             Handles([page EXCEPT !.userBusy = TRUE], ChangeUser(op, u, role))
      PROVE  SystemInv'
  <2> DEFINE x == ChangeUser(op, u, role)
             p == [page EXCEPT !.userBusy = TRUE]
  <2>1. x.op = op /\ {"op", "stage"} \subseteq DOMAIN x
    BY SystemAsks
  <2>2. /\ {"userBusy", "loading", "saving"} \subseteq DOMAIN p /\ p.userBusy
        /\ p.loading = page.loading /\ p.saving = page.saving
    BY <1>0
  <2>3. Handles(p, x)
    BY <1>3
  <2> HIDE DEF x, p
  <2>4. SystemRequest(x) /\ ChangesUsers(x)
    BY <2>1 DEF SystemRequest, ChangesUsers
  <2> QED BY <1>2, <1>3, <2>2, <2>3, <2>4
<1>4. ASSUME NEW role, CreateUser(role) PROVE SystemInv'
  BY <1>3, <1>4 DEF CreateUser
<1>5. ASSUME NEW u, NEW role, UpdateUser(u, role) PROVE SystemInv'
  BY <1>3, <1>5 DEF UpdateUser
<1>6. CASE RefreshUsers
  <2> DEFINE x == LoadUsers("refresh")
  <2>1. x.op = "users" /\ x.handler = "refresh" /\ {"op", "stage", "handler"} \subseteq DOMAIN x
    BY SystemAsks
  <2>3. Handles(page, x)
    BY <1>6 DEF RefreshUsers
  <2> HIDE DEF x
  <2>4. SystemRequest(x) /\ ~ChangesUsers(x)
    BY <2>1 DEF SystemRequest, ChangesUsers
  <2> QED BY <1>0, <1>2, <2>3, <2>4
<1>7. ASSUME NEW p, NEW s, Handles(p, LoadMemory(s, "refresh")), DOMAIN p = DOMAIN page,
             p.userBusy = page.userBusy, p.saving = page.saving
      PROVE  SystemInv'
  <2> DEFINE x == LoadMemory(s, "refresh")
  <2>1. x.op = "memory" /\ x.handler = "refresh" /\ {"op", "stage", "handler"} \subseteq DOMAIN x
    BY SystemAsks
  <2>3. Handles(p, x)
    BY <1>7
  <2> HIDE DEF x
  <2>4. SystemRequest(x) /\ ~ChangesUsers(x)
    BY <2>1 DEF SystemRequest, ChangesUsers
  <2> QED BY <1>0, <1>2, <1>7, <2>1, <2>3, <2>4
<1>8. CASE RefreshMemory
  <2> DEFINE p == [page EXCEPT !.loading = TRUE]
  <2>1. DOMAIN p = DOMAIN page /\ p.userBusy = page.userBusy /\ p.saving = page.saving
    OBVIOUS
  <2>2. Handles(p, LoadMemory(page.scope, "refresh"))
    BY <1>8 DEF RefreshMemory
  <2> HIDE DEF p
  <2> QED BY <1>7, <2>1, <2>2
<1>9. ASSUME NEW s, SelectScope(s) PROVE SystemInv'
  <2> DEFINE p == [page EXCEPT !.scope = s, !.loading = TRUE]
  <2>1. DOMAIN p = DOMAIN page /\ p.userBusy = page.userBusy /\ p.saving = page.saving
    BY <1>0
  <2>2. Handles(p, LoadMemory(s, "refresh"))
    BY <1>9 DEF SelectScope
  <2> HIDE DEF p
  <2> QED BY <1>7, <2>1, <2>2
<1>10. CASE PutEntry
  <2> DEFINE x == ChangeEntry("put", page.scope, page.newKey)
             p == [page EXCEPT !.saving = TRUE]
  <2>1. x.op = "put" /\ {"op", "stage"} \subseteq DOMAIN x
    BY SystemAsks
  <2>2. /\ {"userBusy", "loading", "saving"} \subseteq DOMAIN p /\ p.userBusy = page.userBusy
        /\ p.loading = page.loading
    BY <1>0
  <2>3. Handles(p, x)
    BY <1>10 DEF PutEntry
  <2> HIDE DEF x, p
  <2>4. SystemRequest(x) /\ ~ChangesUsers(x) /\ PutsEntry(x)
    BY <2>1 DEF SystemRequest, ChangesUsers, PutsEntry
  <2> QED BY <1>2, <2>2, <2>3, <2>4
<1>11. ASSUME NEW e, DeleteEntry(e) PROVE SystemInv'
  <2> DEFINE x == ChangeEntry("delete", page.scope, e[2])
  <2>1. x.op = "delete" /\ {"op", "stage"} \subseteq DOMAIN x
    BY SystemAsks
  <2>3. Handles(page, x)
    BY <1>11 DEF DeleteEntry
  <2> HIDE DEF x
  <2>4. SystemRequest(x) /\ ~ChangesUsers(x)
    BY <2>1 DEF SystemRequest, ChangesUsers
  <2> QED BY <1>0, <1>2, <2>3, <2>4
<1>12. ASSUME \/ \E u \in Users : TypeUser(u)
              \/ \E k \in Keys : TypeKey(k)
              \/ \E s \in Scopes, k \in Keys : EntryExpires(s, k)
       PROVE  SystemInv'
  <2>1. /\ UNCHANGED wire /\ DOMAIN page' = DOMAIN page /\ page'.userBusy = page.userBusy
        /\ page'.loading = page.loading /\ page'.saving = page.saving
    BY <1>0, <1>12 DEF TypeUser, TypeKey, EntryExpires
  <2> QED BY <1>1, <2>1
\* A handler goes on with x.
<1>13. ASSUME NEW r \in Open, NEW x, wire' = BagAdd(Settled(r), x), SystemRequest(x),
              DOMAIN page' = DOMAIN page, page'.userBusy = page.userBusy, page'.saving = page.saving,
              ChangesUsers(x) <=> ChangesUsers(r), PutsEntry(r) => PutsEntry(x),
              page'.loading => page.loading \/ x.op = "memory", r.op = "memory" => x.op = "memory"
       PROVE  SystemInv'
  <2>1. Open' \subseteq Open \cup {x} /\ Open \subseteq Open' \cup {r} /\ x \in Open'
    BY <1>13, FollowOpens
  <2>2. UsersKept'
    BY <1>0, <1>13, UsersFollow
  <2> QED BY <1>0, <1>13, <2>1, <2>2 DEF SystemInv
<1>14. ASSUME NEW r \in Open, wire' = Settled(r),
              DOMAIN page' = DOMAIN page, page'.userBusy <=> page.userBusy /\ ~ChangesUsers(r),
              page'.saving => page.saving /\ ~PutsEntry(r),
              page'.loading => page.loading /\ r.op # "memory"
       PROVE  SystemInv'
  <2>1. Open' \subseteq Open /\ Open \subseteq Open' \cup {r}
    BY <1>14, SettleOpens
  <2>2. UsersKept'
    BY <1>0, <1>14, UsersSettle
  <2> QED BY <1>0, <1>14, <2>1, <2>2 DEF SystemInv
<1>15. ASSUME NEW r \in Open, NEW ok \in BOOLEAN, UserChanged(r, ok) PROVE SystemInv'
  <2>1. ChangesUsers(r) /\ ~PutsEntry(r) /\ r.op # "memory"
    BY <1>15 DEF UserChanged, ChangesUsers, PutsEntry
  <2>2. CASE ok
    <3> DEFINE x == LoadUsers("user")
    <3>1. x.op = "users" /\ x.handler = "user" /\ {"op", "stage", "handler"} \subseteq DOMAIN x
      BY SystemAsks
    <3>2. /\ wire' = BagAdd(Settled(r), x) /\ DOMAIN page' = DOMAIN page
          /\ page'.userBusy = page.userBusy /\ page'.saving = page.saving
          /\ page'.loading = page.loading
      BY <1>0, <1>15, <2>2 DEF UserChanged
    <3> HIDE DEF x
    <3>3. SystemRequest(x) /\ ChangesUsers(x)
      BY <3>1 DEF SystemRequest, ChangesUsers
    <3> QED BY <1>13, <2>1, <3>2, <3>3
  <2>3. CASE ~ok
    <3>1. /\ wire' = Settled(r) /\ DOMAIN page' = DOMAIN page /\ ~page'.userBusy
          /\ page'.saving = page.saving /\ page'.loading = page.loading
      BY <1>0, <1>15, <2>3 DEF UserChanged
    <3> QED BY <1>14, <2>1, <3>1
  <2> QED BY <2>2, <2>3
<1>16. ASSUME NEW r \in Open, NEW ok \in BOOLEAN, UsersLoaded(r, ok) PROVE SystemInv'
  <2>1. SystemRequest(r) /\ r.op = "users"
    BY <1>0, <1>16 DEF UsersLoaded
  <2>2. (ChangesUsers(r) <=> r.handler # "refresh") /\ ~PutsEntry(r) /\ r.op # "memory"
    BY <2>1 DEF SystemRequest, ChangesUsers, PutsEntry
  <2>3. /\ wire' = Settled(r) /\ DOMAIN page' = DOMAIN page
        /\ page'.userBusy = (page.userBusy /\ r.handler = "refresh")
        /\ page'.saving = page.saving /\ page'.loading = page.loading
    BY <1>0, <1>16 DEF UsersLoaded
  <2> QED BY <1>14, <2>2, <2>3
<1>17. ASSUME NEW r \in Open, NEW ok \in BOOLEAN, EntryChanged(r, ok) PROVE SystemInv'
  <2>1. ~ChangesUsers(r) /\ (PutsEntry(r) <=> r.op = "put") /\ r.op # "memory"
    BY <1>17 DEF EntryChanged, ChangesUsers, PutsEntry
  <2>2. CASE ok
    <3> DEFINE x == LoadMemory(r.scope, r.op)
    <3>1. x.op = "memory" /\ x.handler = r.op /\ {"op", "stage", "handler"} \subseteq DOMAIN x
      BY SystemAsks
    <3>2. /\ wire' = BagAdd(Settled(r), x) /\ DOMAIN page' = DOMAIN page
          /\ page'.userBusy = page.userBusy /\ page'.saving = page.saving
      BY <1>0, <1>17, <2>2 DEF EntryChanged
    <3> HIDE DEF x
    <3>3. SystemRequest(x) /\ ~ChangesUsers(x) /\ (r.op = "put" => PutsEntry(x))
      BY <3>1 DEF SystemRequest, ChangesUsers, PutsEntry
    <3> QED BY <1>13, <2>1, <3>1, <3>2, <3>3
  <2>3. CASE ~ok
    <3>1. /\ wire' = Settled(r) /\ DOMAIN page' = DOMAIN page /\ page'.userBusy = page.userBusy
          /\ page'.saving = (page.saving /\ r.op # "put") /\ page'.loading = page.loading
      BY <1>0, <1>17, <2>3 DEF EntryChanged
    <3> QED BY <1>14, <2>1, <3>1
  <2> QED BY <2>2, <2>3
<1>18. ASSUME NEW r \in Open, NEW ok \in BOOLEAN, MemoryLoaded(r, ok) PROVE SystemInv'
  <2>1. ~ChangesUsers(r) /\ (PutsEntry(r) <=> r.handler = "put") /\ r.op = "memory"
    BY <1>18 DEF MemoryLoaded, ChangesUsers, PutsEntry
  <2>3. /\ wire' = Settled(r) /\ DOMAIN page' = DOMAIN page /\ page'.userBusy = page.userBusy
        /\ page'.saving = (page.saving /\ r.handler # "put") /\ ~page'.loading
    BY <1>0, <1>18 DEF MemoryLoaded
  <2> QED BY <1>14, <2>1, <2>3
<1>19. ASSUME NEW r \in Open, ServeSystem(r) PROVE SystemInv'
  <2>0. SystemRequest(r)
    BY <1>0
  <2>1. PICK x : /\ Reply(r, x) /\ {"op", "stage"} \subseteq DOMAIN x /\ x.op = r.op
                 /\ "handler" \in DOMAIN r => "handler" \in DOMAIN x /\ x.handler = r.handler
    <3>1. ASSUME Reply(r, Answered(r)) PROVE
            \E x : /\ Reply(r, x) /\ {"op", "stage"} \subseteq DOMAIN x /\ x.op = r.op
                   /\ "handler" \in DOMAIN r => "handler" \in DOMAIN x /\ x.handler = r.handler
      <4> DEFINE x == Answered(r)
      <4>1. DOMAIN x = DOMAIN r /\ \A k \in DOMAIN r : k # "stage" => x[k] = r[k]
        BY AnswerKeeps
      <4>2. Reply(r, x)
        BY <3>1
      <4> HIDE DEF x
      <4>3. x["op"] = r["op"] /\ ("handler" \in DOMAIN r => x["handler"] = r["handler"])
        BY <2>0, <4>1 DEF SystemRequest
      <4> QED BY <2>0, <4>1, <4>2, <4>3 DEF SystemRequest
    <3>2. ASSUME NEW f, DOMAIN f \cap {"op", "stage", "handler"} = {}, Reply(r, AnsweredWith(r, f)) PROVE
            \E x : /\ Reply(r, x) /\ {"op", "stage"} \subseteq DOMAIN x /\ x.op = r.op
                   /\ "handler" \in DOMAIN r => "handler" \in DOMAIN x /\ x.handler = r.handler
      <4> DEFINE x == AnsweredWith(r, f)
      <4>1. DOMAIN x = DOMAIN r \cup DOMAIN f
            /\ \A k \in DOMAIN r : k \notin DOMAIN f /\ k # "stage" => x[k] = r[k]
        BY AnswerWithKeeps
      <4>2. Reply(r, x)
        BY <3>2
      <4> HIDE DEF x
      <4>3. x["op"] = r["op"] /\ ("handler" \in DOMAIN r => x["handler"] = r["handler"])
        BY <2>0, <3>2, <4>1 DEF SystemRequest
      <4> QED BY <2>0, <4>1, <4>2, <4>3 DEF SystemRequest
    <3>3. CASE Reply(r, AnsweredWith(r, [accounts |-> server.accounts]))
      BY <3>2, <3>3
    <3>4. CASE Reply(r, AnsweredWith(r, [entries |-> {r.scope} \X server.memory[r.scope]]))
      BY <3>2, <3>4
    <3> QED BY <1>19, <2>0, <3>1, <3>3, <3>4 DEF ServeSystem, SystemRequest
  <2>2. wire' = BagAdd(Settled(r), x) /\ page' = page
    BY <1>19, <2>1 DEF ServeSystem, Reply, Settled
  <2>3. SystemRequest(x) /\ (ChangesUsers(x) <=> ChangesUsers(r)) /\ (PutsEntry(r) => PutsEntry(x))
    BY <2>0, <2>1 DEF SystemRequest, ChangesUsers, PutsEntry
  <2> QED BY <1>13, <2>1, <2>2, <2>3
<1> QED
  <2>1. CASE RefreshUsers \/ RefreshMemory \/ PutEntry
    BY <1>6, <1>8, <1>10, <2>1
  <2>2. CASE \E u \in Users : TypeUser(u) \/ \E role \in Roles : UpdateUser(u, role)
    BY <1>5, <1>12, <2>2
  <2>3. CASE \E s \in Scopes : SelectScope(s) \/ \E k \in Keys : EntryExpires(s, k)
    BY <1>9, <1>12, <2>3
  <2> QED BY <1>4, <1>11, <1>12, <1>15, <1>16, <1>17, <1>18, <1>19, <2>1, <2>2, <2>3 DEF SystemNext

-----------------------------------------------------------------------------
(***************************************************************************)
(* The settings.  A save made from what is stored (Sparing) names what the *)
(* backend has, except in the section or for the provider it is of, and so *)
(* is what is then made of it (KeepsRest); a save that is carried out      *)
(* takes that mark from all the others.                                    *)
(***************************************************************************)
Sent == Forms \cup {"absent"}

Sparing(r) ==
  /\ DOMAIN r.values = Sections /\ \A s \in Sections \ {r.of} : r.values[s] = server.values[s]
  /\ \A p \in Providers \ {r.of} : r.auth[p] = Resent(server.auth[p])

\* What HandleUpdate is to write instead of what is stored.
KeepsRest(r) ==
  /\ \A s \in Sections \ {r.of} : r.settings.values[s] = server.values[s]
  /\ \A p \in Providers \ {r.of} :
       \/ r.settings.auth[p] = server.auth[p]
       \/ r.settings.auth[p] = "other" /\ server.auth[p] = "spare"

Partial(v) == DOMAIN v \subseteq Sections /\ \A s \in DOMAIN v : v[s] \in Values

SettingsRequest(r) ==
  /\ {"op", "stage"} \subseteq DOMAIN r /\ r.stage \in {"sent", "read", "ok"}
  /\ r.op \in {"get", "put"} /\ r.stage = "ok" => r.settings \in Settings
  /\ r.op = "put" /\ r.stage = "sent" =>
       /\ DOMAIN r = {"op", "stage", "of", "current", "values", "auth"}
       /\ Partial(r.values) /\ r.auth \in [Providers -> Sent]
       /\ r.current => Sparing(r)
  /\ r.op = "put" /\ r.stage = "read" =>
       /\ DOMAIN r = {"op", "stage", "of", "current", "settings"}
       /\ r.settings \in Settings
       /\ r.current => KeepsRest(r)

SettingsInv ==
  /\ page \in SettingsState
  /\ server \in Settings
  /\ \A r \in Open : SettingsRequest(r)
  /\ SettingsBusyMeansWaiting

LEMMA ResentSent ==
  ASSUME NEW c \in Credentials
  PROVE  Resent(c) \in Sent
BY DEF Credentials, Resent, Sent, Forms

LEMMA MergedKept ==
  ASSUME NEW c \in Credentials, NEW f \in Sent
  PROVE  Merged(c, f) \in Credentials
BY DEF Credentials, Sent, Forms, Merged

LEMMA ResentKept ==
  ASSUME NEW c \in Credentials
  PROVE  Merged(c, Resent(c)) = c \/ (c = "spare" /\ Merged(c, Resent(c)) = "other")
BY DEF Credentials, Merged, Resent

LEMMA UntouchedSettings == Untouched \in Settings
BY SettingsAssumption DEF Untouched, Settings, Credentials

LEMMA ShownState ==
  ASSUME NEW p \in SettingsState
  PROVE  ShownValue(p) \in SettingsState /\ ShownValue(p).diagnosing = p.diagnosing
<1> DEFINE d == [s \in Sections |-> IF s \in p.dirty THEN p.draft[s]
                                    ELSE IF p.known = Nil THEN Default ELSE p.known.values[s]]
<1>1. d \in [Sections -> Values]
  BY SettingsAssumption DEF SettingsState, Settings
<1>2. ShownValue(p) = [p EXCEPT !.draft = d]
  BY DEF ShownValue
<1> HIDE DEF d
<1> QED BY <1>1, <1>2 DEF SettingsState

\* A save keeps what it leaves alone.
LEMMA SparingSpares ==
  ASSUME SettingsInv, NEW r, Sparing(r), NEW x, x.of = r.of, x.settings = SettingsAfter(r)
  PROVE  KeepsRest(x)
<1>1. \A s \in Sections : SettingsAfter(r).values[s] = r.values[s]
  BY DEF SettingsAfter, Joined, Sparing
<1>2. ASSUME NEW p \in Providers \ {r.of}
      PROVE  \/ SettingsAfter(r).auth[p] = server.auth[p]
             \/ SettingsAfter(r).auth[p] = "other" /\ server.auth[p] = "spare"
  <2>1. CASE r.auth = Untouched.auth
    BY <2>1 DEF SettingsAfter
  <2>2. CASE r.auth # Untouched.auth
    <3>1. SettingsAfter(r).auth[p] = Merged(server.auth[p], Resent(server.auth[p]))
      BY <2>2 DEF SettingsAfter, Sparing
    <3>2. server.auth[p] \in Credentials
      BY DEF SettingsInv, Settings
    <3> QED BY <3>1, <3>2, ResentKept
  <2> QED BY <2>1, <2>2
<1> QED BY <1>1, <1>2 DEF KeepsRest, Sparing

LEMMA SavesSpare == SettingsInv /\ route = "settings" => SaveChangesItsOwn
BY DEF SettingsInv, SettingsRequest, KeepsRest, SaveChangesItsOwn, Fresh, Pending

\* Requests other than saves that were made from what is stored.
LEMMA QueryRequest ==
  ASSUME NEW op, op # "put"
  PROVE  SettingsRequest(Query(op)) /\ Query(op).op = op
BY DEF SettingsRequest, Query

LEMMA PutRequest ==
  ASSUME NEW o, NEW v, Partial(v), NEW a, a \in [Providers -> Sent],
         page.known = server => Sparing(Put(o, v, a))
  PROVE  SettingsRequest(Put(o, v, a))
BY DEF SettingsRequest, Put

LEMMA SettingsStart ==
  ASSUME NEW stored \in FirstSettings, SettingsMounted(stored)
  PROVE  SettingsInv'
<1>1. /\ page' = [known |-> Nil, draft |-> Untouched.values, dirty |-> {}, diagnosing |-> TRUE,
                  saves |-> 0]
      /\ server' = stored
      /\ Open' = {Query("get"), Query("diagnose")}
  BY MountOpens DEF SettingsMounted, Mounting
<1>2. page' \in SettingsState
  BY <1>1, UntouchedSettings, SettingsAssumption DEF SettingsState, Settings
<1>3. \A r \in Open' : SettingsRequest(r)'
  BY <1>1 DEF SettingsRequest, Query
<1>4. SettingsBusyMeansWaiting'
  BY <1>1, QueryRequest DEF SettingsBusyMeansWaiting, Pending
<1> QED BY <1>1, <1>2, <1>3, <1>4, FirstSettingsAssumption DEF SettingsInv

\* The server has not changed: neither has what a request may claim.
LEMMA RequestStays ==
  ASSUME UNCHANGED server, NEW r
  PROVE  SettingsRequest(r)' = SettingsRequest(r)
BY DEF SettingsRequest, Sparing, KeepsRest

LEMMA SettingsKept ==
  ASSUME SettingsInv, SettingsNext
  PROVE  SettingsInv'
<1>0. /\ page \in SettingsState /\ server \in Settings /\ \A r \in Open : SettingsRequest(r)
      /\ page.diagnosing => \E r \in Open : r.op = "diagnose"
  BY DEF SettingsInv, SettingsBusyMeansWaiting, Pending
<1>a. KnownAuth \in [Providers -> Sent]
  BY <1>0, ResentSent DEF SettingsState, Settings, KnownAuth, Untouched, Sent
<1>b. Partial(KnownValues)
  BY <1>0 DEF KnownValues, SettingsState, Settings, Partial
<1>c. page.known = server => /\ page.known # Nil
                             /\ \A p \in Providers : KnownAuth[p] = Resent(server.auth[p])
                             /\ KnownValues = server.values /\ DOMAIN server.values = Sections
  BY <1>0, SettingsAssumption DEF Settings, KnownAuth, KnownValues
\* A step of the page that sends one request.
<1>1. ASSUME NEW r, Ask(r), SettingsRequest(r), UNCHANGED server, page' \in SettingsState,
             page'.diagnosing => page.diagnosing \/ r.op = "diagnose"
      PROVE  SettingsInv'
  <2>1. Open' = Open \cup {r}
    BY <1>1, AskOpens
  <2>2. \A x \in Open' : SettingsRequest(x)'
    BY <1>0, <1>1, <2>1, RequestStays
  <2>3. SettingsBusyMeansWaiting'
    BY <1>0, <1>1, <2>1 DEF SettingsBusyMeansWaiting, Pending
  <2> QED BY <1>0, <1>1, <2>2, <2>3 DEF SettingsInv
\* An answer that leaves the wire.
<1>2. ASSUME NEW r \in Open, wire' = Settled(r), UNCHANGED server, page' \in SettingsState,
             page'.diagnosing => page.diagnosing /\ r.op # "diagnose"
      PROVE  SettingsInv'
  <2>1. Open' \subseteq Open /\ Open \subseteq Open' \cup {r}
    BY <1>2, SettleOpens
  <2>2. \A x \in Open' : SettingsRequest(x)'
    BY <1>0, <1>2, <2>1, RequestStays
  <2>3. SettingsBusyMeansWaiting'
    BY <1>0, <1>2, <2>1 DEF SettingsBusyMeansWaiting, Pending
  <2> QED BY <1>0, <1>2, <2>2, <2>3 DEF SettingsInv
<1>3. ASSUME NEW s \in Sections, SaveSection(s) PROVE SettingsInv'
  <2> DEFINE v == With(KnownValues, s, page.draft[s])
             x == Put(s, v, KnownAuth)
  <2>1. Partial(v)
    BY <1>0, <1>b DEF Partial, With, SettingsState
  <2>2. page.known = server => Sparing(x)
    <3> SUFFICES ASSUME page.known = server PROVE Sparing(x)
      OBVIOUS
    <3>1. x.of = s /\ x.values = v /\ x.auth = KnownAuth
      BY DEF Put
    <3>2. DOMAIN v = Sections /\ \A y \in Sections \ {s} : v[y] = server.values[y]
      BY <1>c DEF With
    <3> HIDE DEF v, x
    <3> QED BY <1>c, <3>1, <3>2 DEF Sparing
  <2>3. Ask(x) /\ UNCHANGED server
    BY <1>3 DEF SaveSection
  <2>4. page' \in SettingsState /\ page'.diagnosing = page.diagnosing
    <3> DEFINE u == [page EXCEPT !.dirty = @ \ {s}, !.saves = @ + 1]
    <3>1. page.saves + 1 \in 0..MaxSaves
      BY <1>0, <1>3, SettingsAssumption DEF SaveSection, MaySave, SettingsState
    <3>2. u \in SettingsState /\ u.diagnosing = page.diagnosing
      BY <1>0, <3>1 DEF SettingsState
    <3>3. page' = ShownValue(u)
      BY <1>3 DEF SaveSection
    <3> HIDE DEF u
    <3> QED BY <3>2, <3>3, ShownState
  <2> HIDE DEF v
  <2>5. SettingsRequest(x)
    BY <1>a, <2>1, <2>2, PutRequest
  <2> QED BY <1>1, <2>3, <2>4, <2>5
<1>4. ASSUME NEW p \in Providers, NEW form \in Forms, SaveProvider(p, form) PROVE SettingsInv'
  <2> DEFINE a == [KnownAuth EXCEPT ![p] = form]
             x == Put(p, KnownValues, a)
  <2>1. a \in [Providers -> Sent]
    BY <1>a DEF Sent
  <2>2. page.known = server => Sparing(x)
    <3> SUFFICES ASSUME page.known = server PROVE Sparing(x)
      OBVIOUS
    <3>1. x.of = p /\ x.values = KnownValues /\ x.auth = a
      BY DEF Put
    <3>2. \A q \in Providers \ {p} : a[q] = Resent(server.auth[q])
      BY <1>a, <1>c
    <3> HIDE DEF a, x
    <3> QED BY <1>c, <3>1, <3>2 DEF Sparing
  <2>3. Ask(x) /\ UNCHANGED server
    BY <1>4 DEF SaveProvider
  <2>4. page' \in SettingsState /\ page'.diagnosing = page.diagnosing
    <3>1. page.saves + 1 \in 0..MaxSaves
      BY <1>0, <1>4, SettingsAssumption DEF SaveProvider, MaySave, SettingsState
    <3> QED BY <1>0, <1>4, <3>1 DEF SaveProvider, SettingsState
  <2> HIDE DEF a
  <2>5. SettingsRequest(x)
    BY <1>b, <2>1, <2>2, PutRequest
  <2> QED BY <1>1, <2>3, <2>4, <2>5
<1>5. ASSUME NEW s \in Sections, NEW v \in Values, EditSection(s, v) PROVE SettingsInv'
  <2>1. page' \in SettingsState /\ page'.diagnosing = page.diagnosing
    BY <1>0, <1>5 DEF EditSection, SettingsState
  <2>2. Open' = Open /\ UNCHANGED server
    BY <1>5 DEF EditSection, Open
  <2> QED BY <1>0, <2>1, <2>2, RequestStays DEF SettingsInv, SettingsBusyMeansWaiting, Pending
<1>6. CASE Diagnose
  <2>1. page' \in SettingsState /\ Ask(Query("diagnose")) /\ UNCHANGED server
    BY <1>0, <1>6 DEF Diagnose, SettingsState
  <2>2. SettingsRequest(Query("diagnose")) /\ Query("diagnose").op = "diagnose"
    BY QueryRequest
  <2> QED BY <1>1, <2>1, <2>2
<1>7. ASSUME NEW r \in Open, ServeSettings(r) PROVE SettingsInv'
  <2>1. SettingsRequest(r) /\ r.stage = "sent" /\ UNCHANGED page
    BY <1>0, <1>7 DEF ServeSettings
  <2>2. ASSUME NEW x, Reply(r, x), SettingsRequest(x), x.op = r.op, UNCHANGED server
        PROVE  SettingsInv'
    <3>1. Open' \subseteq Open \cup {x} /\ Open \subseteq Open' \cup {r} /\ x \in Open'
      BY <2>2, ReplyOpens
    <3>2. \A y \in Open' : SettingsRequest(y)'
      BY <1>0, <2>2, <3>1, RequestStays
    <3>3. SettingsBusyMeansWaiting'
      BY <1>0, <2>1, <2>2, <3>1 DEF SettingsBusyMeansWaiting, Pending
    <3> QED BY <1>0, <2>1, <2>2, <3>2, <3>3 DEF SettingsInv
  <2>3. CASE r.op = "get" /\ Reply(r, AnsweredWith(r, [settings |-> server])) /\ UNCHANGED server
    <3> DEFINE x == AnsweredWith(r, [settings |-> server])
    <3>1. {"op", "stage"} \subseteq DOMAIN x /\ x.op = "get" /\ x.stage = "ok" /\ x.settings = server
      BY <2>1, <2>3 DEF SettingsRequest, AnsweredWith, Joined, Answered
    <3> HIDE DEF x
    <3>2. SettingsRequest(x)
      BY <1>0, <3>1 DEF SettingsRequest
    <3> QED BY <2>2, <2>3, <3>1, <3>2 DEF x
  <2>4. CASE r.op = "diagnose" /\ Reply(r, Answered(r)) /\ UNCHANGED server
    <3>1. /\ {"op", "stage"} \subseteq DOMAIN Answered(r)
          /\ Answered(r).op = "diagnose" /\ Answered(r).stage = "ok"
      BY <2>1, <2>4 DEF SettingsRequest, Answered
    <3>2. SettingsRequest(Answered(r))
      BY <3>1 DEF SettingsRequest
    <3> QED BY <2>2, <2>4, <3>1, <3>2
  <2>5. CASE /\ r.op = "put" /\ UNCHANGED server
             /\ Reply(r, [op |-> "put", stage |-> "read", of |-> r.of, current |-> r.current,
                          settings |-> SettingsAfter(r)])
    <3> DEFINE x == [op |-> "put", stage |-> "read", of |-> r.of, current |-> r.current,
                     settings |-> SettingsAfter(r)]
    <3>1. SettingsAfter(r) \in Settings
      <4>1. SettingsAfter(r).values \in [Sections -> Values]
        <5>1. \A s \in Sections : s \in DOMAIN r.values => r.values[s] \in Values
          BY <2>1, <2>5 DEF SettingsRequest, Partial
        <5>2. DOMAIN r.values \cup Sections = Sections
          BY <2>1, <2>5 DEF SettingsRequest, Partial
        <5> QED BY <5>1, <5>2, SettingsAssumption DEF SettingsAfter, Joined
      <4>2. SettingsAfter(r).auth \in [Providers -> Credentials]
        <5>1. server.auth \in [Providers -> Credentials]
          BY <1>0 DEF Settings
        <5>2. CASE r.auth = Untouched.auth
          BY <5>1, <5>2 DEF SettingsAfter
        <5>3. CASE r.auth # Untouched.auth
          <6>1. r.auth \in [Providers -> Sent]
            BY <2>1, <2>5 DEF SettingsRequest
          <6>2. SettingsAfter(r).auth = [p \in Providers |-> Merged(server.auth[p], r.auth[p])]
            BY <5>3 DEF SettingsAfter
          <6> QED BY <5>1, <6>1, <6>2, MergedKept
        <5> QED BY <5>2, <5>3
      <4>3. SettingsAfter(r) = [values |-> SettingsAfter(r).values, auth |-> SettingsAfter(r).auth]
        BY DEF SettingsAfter
      <4> QED BY <4>1, <4>2, <4>3 DEF Settings
    <3>2. r.current => KeepsRest(x)
      BY <2>1, <2>5, SparingSpares DEF SettingsRequest
    <3>3. /\ DOMAIN x = {"op", "stage", "of", "current", "settings"}
          /\ x.op = "put" /\ x.stage = "read" /\ x.current = r.current /\ x.settings = SettingsAfter(r)
      OBVIOUS
    <3>4. Reply(r, x)
      BY <2>5
    <3> HIDE DEF x
    <3>5. SettingsRequest(x)
      BY <3>1, <3>2, <3>3 DEF SettingsRequest
    <3> QED BY <2>2, <2>5, <3>3, <3>4, <3>5
  <2> QED BY <1>7, <2>3, <2>4, <2>5 DEF ServeSettings
<1>10. ASSUME NEW r \in Open, WriteSettings(r) PROVE SettingsInv'
  <2> DEFINE f == [x \in Fresh |-> [x EXCEPT !.current = FALSE]]
             a == [op |-> "put", stage |-> "ok", settings |-> r.settings, current |-> FALSE]
             B == Become(Settled(r), f)
  <2>0. SettingsRequest(r) /\ r.op = "put" /\ r.stage = "read" /\ page' = page
    BY <1>0, <1>10 DEF WriteSettings
  <2>1. r.settings \in Settings /\ server' = r.settings
    BY <1>10, <2>0 DEF SettingsRequest, WriteSettings
  <2>2. DOMAIN f = Fresh /\ \A x \in Fresh : f[x] = [x EXCEPT !.current = FALSE]
    OBVIOUS
  <2>3. a.op = "put" /\ a.stage = "ok" /\ a.settings = r.settings /\ {"op", "stage"} \subseteq DOMAIN a
    OBVIOUS
  <2>4. wire' = BagAdd(B, a)
    BY <1>10 DEF WriteSettings
  <2> HIDE DEF f, a
  <2>5. /\ BagToSet(Settled(r)) \subseteq Open
        /\ Open \subseteq BagToSet(Settled(r)) \cup {r}
    BY RemoveCloses DEF Open, Settled
  <2>6. \A y : y \in BagToSet(B) <=> \/ y \in BagToSet(Settled(r)) /\ y \notin DOMAIN f
                                     \/ \E s \in DOMAIN f : s \in BagToSet(Settled(r)) /\ y = f[s]
    BY BecomeOpens
  <2> HIDE DEF B
  <2>7. Open' = BagToSet(B) \cup {a}
    BY <2>4, AddOpens DEF Open
  <2>8. SettingsRequest(a)'
    BY <2>1, <2>3 DEF SettingsRequest
  <2>9. ASSUME NEW y \in BagToSet(B) PROVE SettingsRequest(y)'
    <3>1. CASE y \in Open /\ y \notin Fresh
      BY <1>0, <3>1 DEF SettingsRequest, Fresh, Pending
    <3>2. ASSUME NEW s \in Fresh, y = f[s] PROVE SettingsRequest(y)'
      <4>1. SettingsRequest(s) /\ s.op = "put"
        BY <1>0 DEF Fresh, Pending
      <4>2. /\ DOMAIN y = DOMAIN s /\ y = [s EXCEPT !.current = FALSE]
            /\ "op" \in DOMAIN s /\ "stage" \in DOMAIN s
            /\ y.op = s.op /\ y.stage = s.stage
        BY <2>2, <3>2, <4>1 DEF SettingsRequest
      <4>3. s.stage = "ok" => y.settings = s.settings
        BY <4>2
      <4>4. s.stage = "sent" => y.values = s.values /\ y.auth = s.auth /\ y.current = FALSE
        BY <4>1, <4>2 DEF SettingsRequest
      <4>5. s.stage = "read" => y.settings = s.settings /\ y.current = FALSE
        BY <4>1, <4>2 DEF SettingsRequest
      <4> QED BY <4>1, <4>2, <4>3, <4>4, <4>5 DEF SettingsRequest
    <3> QED BY <2>2, <2>5, <2>6, <3>1, <3>2
  <2>10. SettingsBusyMeansWaiting'
    <3>1. \A x \in Fresh : x.op = "put"
      BY DEF Fresh, Pending
    <3>2. ASSUME NEW x \in Open, x.op = "diagnose" PROVE x \in Open'
      BY <2>0, <2>2, <2>5, <2>6, <2>7, <3>1, <3>2
    <3> QED BY <1>0, <2>0, <3>2 DEF SettingsBusyMeansWaiting, Pending
  <2>11. \A y \in Open' : SettingsRequest(y)'
    BY <2>7, <2>8, <2>9
  <2> QED BY <1>0, <2>0, <2>1, <2>10, <2>11 DEF SettingsInv
<1>8. ASSUME NEW r \in Open, Diagnosed(r) PROVE SettingsInv'
  <2>1. /\ page' \in SettingsState /\ page'.diagnosing = FALSE
        /\ wire' = Settled(r) /\ UNCHANGED server
    BY <1>0, <1>8 DEF Diagnosed, SettingsState
  <2> QED BY <1>2, <2>1
<1>9. ASSUME NEW r \in Open, NEW ok \in BOOLEAN, SettingsArrive(r, ok) PROVE SettingsInv'
  <2>1. r.op # "diagnose" /\ wire' = Settled(r) /\ UNCHANGED server
    BY <1>9 DEF SettingsArrive
  <2>2. page' \in SettingsState /\ page'.diagnosing = page.diagnosing
    <3>1. CASE ok
      <4>1. r.settings \in Settings
        BY <1>0, <1>9, <3>1 DEF SettingsArrive, Ends, SettingsRequest
      <4>2. [page EXCEPT !.known = r.settings] \in SettingsState
            /\ [page EXCEPT !.known = r.settings].diagnosing = page.diagnosing
        BY <1>0, <4>1 DEF SettingsState
      <4> QED BY <1>9, <3>1, <4>2, ShownState DEF SettingsArrive
    <3>2. CASE ~ok
      BY <1>0, <1>9, <3>2 DEF SettingsArrive
    <3> QED BY <3>1, <3>2
  <2> QED BY <1>2, <2>1, <2>2
<1> QED BY <1>3, <1>4, <1>5, <1>6, <1>7, <1>8, <1>9, <1>10 DEF SettingsNext

-----------------------------------------------------------------------------
(***************************************************************************)
(* The audit log: every change of a filter loads, and any answer ends.     *)
(***************************************************************************)
LedgerInv ==
  /\ "phase" \in DOMAIN page
  /\ \A r \in Open : {"op", "stage"} \subseteq DOMAIN r
  /\ LedgerBusyMeansWaiting

LEMMA LogIsRequest ==
  ASSUME NEW p
  PROVE  {"op", "stage"} \subseteq DOMAIN LoadLog(p) /\ LoadLog(p).op = "log"
BY DEF LoadLog

LEMMA LedgerStart ==
  ASSUME LedgerMounted(<<>>)
  PROVE  LedgerInv'
<1> DEFINE x == LoadLog(FirstLog(Len(<<>>)))
           y == Query("roster")
<1>1. Open' = {x, y} /\ "phase" \in DOMAIN page'
  BY MountOpens DEF LedgerMounted, Mounting, FirstLog
<1>2. {"op", "stage"} \subseteq DOMAIN x /\ x.op = "log" /\ {"op", "stage"} \subseteq DOMAIN y
  BY LogIsRequest DEF Query
<1> HIDE DEF x, y
<1> QED BY <1>1, <1>2 DEF LedgerInv, LedgerBusyMeansWaiting, Pending

LEMMA LedgerReloads ==
  ASSUME LedgerInv, NEW p, "phase" \in DOMAIN p, Reloading(p)
  PROVE  LedgerInv'
<1> DEFINE x == LoadLog(p)
<1>1. Open' = Open \cup {x} /\ "phase" \in DOMAIN page'
  BY AskOpens DEF Reloading
<1>2. {"op", "stage"} \subseteq DOMAIN x /\ x.op = "log"
  BY LogIsRequest
<1> HIDE DEF x
<1> QED BY <1>1, <1>2 DEF LedgerInv, LedgerBusyMeansWaiting, Pending

LEMMA LedgerKept ==
  ASSUME LedgerInv, LedgerNext
  PROVE  LedgerInv'
<1>0. /\ "phase" \in DOMAIN page
      /\ \A r \in Open : {"op", "stage"} \subseteq DOMAIN r
      /\ page.phase = "loading" => \E r \in Open : r.op = "log"
  BY DEF LedgerInv, LedgerBusyMeansWaiting, Pending
<1>1. ASSUME NEW t, SelectLogTeam(t) PROVE LedgerInv'
  <2>1. "phase" \in DOMAIN [page EXCEPT !.team = t, !.member = Nil]
    BY <1>0
  <2> QED BY <1>1, <2>1, LedgerReloads DEF SelectLogTeam
<1>2. ASSUME NEW m, SelectMember(m) PROVE LedgerInv'
  <2>1. "phase" \in DOMAIN [page EXCEPT !.member = m]
    BY <1>0
  <2> QED BY <1>2, <2>1, LedgerReloads DEF SelectMember
<1>3. ASSUME NEW u, SelectPreset(u) PROVE LedgerInv'
  <2>1. "phase" \in DOMAIN [page EXCEPT !.until = u]
    BY <1>0
  <2> QED BY <1>3, <2>1, LedgerReloads DEF SelectPreset
<1>4. ASSUME NEW u, ResetFilters(u) PROVE LedgerInv'
  <2>1. "phase" \in DOMAIN [page EXCEPT !.team = Nil, !.member = Nil, !.until = u]
    BY <1>0
  <2> QED BY <1>4, <2>1, LedgerReloads DEF ResetFilters
<1>5. CASE Refresh \/ AutoRefresh
  BY <1>0, <1>5, LedgerReloads DEF Refresh, AutoRefresh
<1>6. ASSUME ToggleAuto \/ \E m \in LogMembers : EventHappens(m) PROVE LedgerInv'
  <2>1. Open' = Open /\ "phase" \in DOMAIN page' /\ page'.phase = page.phase
    BY <1>0, <1>6 DEF ToggleAuto, EventHappens, Open
  <2> QED BY <1>0, <2>1 DEF LedgerInv, LedgerBusyMeansWaiting, Pending
<1>7. ASSUME NEW r \in Open, ServeLog(r) PROVE LedgerInv'
  <2>1. PICK x : Reply(r, x) /\ {"op", "stage"} \subseteq DOMAIN x /\ x.op = r.op
    <3>1. CASE Reply(r, Answered(r))
      BY <1>0, <3>1, AnswerKeeps
    <3>2. CASE Reply(r, AnsweredWith(r, [items |-> MatchingEvents(r)]))
      <4>1. DOMAIN [items |-> MatchingEvents(r)] \cap {"op", "stage"} = {}
        OBVIOUS
      <4> QED BY <1>0, <3>2, <4>1, AnswerWithAsks
    <3> QED BY <1>7, <3>1, <3>2 DEF ServeLog
  <2>2. Open' \subseteq Open \cup {x} /\ Open \subseteq Open' \cup {r} /\ x \in Open'
    BY <2>1, ReplyOpens
  <2>3. page' = page
    BY <1>7 DEF ServeLog
  <2> QED BY <1>0, <2>1, <2>2, <2>3 DEF LedgerInv, LedgerBusyMeansWaiting, Pending
<1>8. ASSUME NEW r \in Open, NEW ok \in BOOLEAN, LogLoaded(r, ok) PROVE LedgerInv'
  <2>1. Open' \subseteq Open /\ "phase" \in DOMAIN page' /\ page'.phase # "loading"
    BY <1>0, <1>8, SettleOpens DEF LogLoaded
  <2> QED BY <1>0, <2>1 DEF LedgerInv, LedgerBusyMeansWaiting
<1>9. ASSUME NEW r \in Open, NEW ok \in BOOLEAN, LogRosterLoaded(r, ok) PROVE LedgerInv'
  <2>1. /\ Open' \subseteq Open /\ Open \subseteq Open' \cup {r} /\ r.op # "log"
        /\ "phase" \in DOMAIN page' /\ page'.phase = page.phase
    BY <1>0, <1>9, SettleOpens DEF LogRosterLoaded
  <2> QED BY <1>0, <2>1 DEF LedgerInv, LedgerBusyMeansWaiting, Pending
<1> QED BY <1>1, <1>2, <1>3, <1>4, <1>5, <1>6, <1>7, <1>8, <1>9 DEF LedgerNext

-----------------------------------------------------------------------------
(***************************************************************************)
(* Signing in.  While the session is restored there is one call, fetchMe;  *)
(* while the form is disabled the tab is signed out, and has none such.    *)
(***************************************************************************)
SignInInv ==
  /\ {"status", "signing", "stored"} \subseteq DOMAIN page
  /\ \A r \in Open : {"op", "stage"} \subseteq DOMAIN r
  /\ SignInBusyMeansWaiting
  /\ page.signing => page.status = "out"
  /\ OneAtMost(Pending("me"))
  /\ Pending("me") # {} => page.status = "loading" /\ Pending("login") = {}

LEMMA FetchIsRequest ==
  ASSUME NEW who
  PROVE  {"op", "stage"} \subseteq DOMAIN FetchMe(who) /\ FetchMe(who).op = "me"
BY DEF FetchMe

LEMMA SignInStart ==
  ASSUME NEW s, NEW a, SignInMounted(s, a)
  PROVE  SignInInv'
<1>1. Open' = {}
  BY MountEmpty DEF SignInMounted
<1>2. {"status", "signing", "stored"} \subseteq DOMAIN page' /\ page'.status = "out" /\ ~page'.signing
  BY DEF SignInMounted, Mounting, Restoring
<1> QED BY <1>1, <1>2 DEF SignInInv, SignInBusyMeansWaiting, Pending, OneAtMost

LEMMA SignInKept ==
  ASSUME SignInInv, SignInNext
  PROVE  SignInInv'
<1>0. /\ {"status", "signing", "stored"} \subseteq DOMAIN page
      /\ \A r \in Open : {"op", "stage"} \subseteq DOMAIN r
      /\ page.signing => \E r \in Open : r.op = "login"
      /\ page.status = "loading" => \E r \in Open : r.op = "me"
      /\ page.signing => page.status = "out"
      /\ OneAtMost(Pending("me"))
      /\ \A r \in Open : r.op = "me" => page.status = "loading" /\ \A x \in Open : x.op # "login"
  BY DEF SignInInv, SignInBusyMeansWaiting, Pending
<1>1. ASSUME ReloadTab PROVE SignInInv'
  <2> DEFINE x == FetchMe(page.stored)
  <2>1. /\ {"status", "signing", "stored"} \subseteq DOMAIN page' /\ ~page'.signing
        /\ page'.status = IF page.stored = Nil THEN "out" ELSE "loading"
    BY <1>0, <1>1 DEF ReloadTab, Restoring
  <2>2. Open' = IF page.stored = Nil THEN {} ELSE {x}
    BY <1>1 DEF ReloadTab, Open, BagToSet, SetToBag, EmptyBag
  <2>3. x.op = "me" /\ {"op", "stage"} \subseteq DOMAIN x
    BY FetchIsRequest
  <2>4. \A y \in Open' : Copies(y)' = 1
    BY <1>1 DEF ReloadTab, Open, BagToSet, SetToBag, EmptyBag, Copies
  <2> HIDE DEF x
  <2> QED BY <2>1, <2>2, <2>3, <2>4 DEF SignInInv, SignInBusyMeansWaiting, Pending, OneAtMost
<1>2. ASSUME UNCHANGED wire, page'.signing = page.signing, page'.status = page.status,
             DOMAIN page' = DOMAIN page
      PROVE  SignInInv'
  <2>1. Open' = Open /\ \A y : Copies(y)' = Copies(y)
    BY <1>2 DEF Open, Copies
  <2> QED BY <1>2, <2>1 DEF SignInInv, SignInBusyMeansWaiting, Pending, OneAtMost
<1>3. ASSUME \/ RedirectByRole
             \/ \E a \in Accounts : TypeAccount(a) \/ RoleChanges(a)
             \/ \E p \in Paths : NavigateTo(p) \/ TypePath(p)
      PROVE  SignInInv'
  <2>1. UNCHANGED wire
    BY <1>3 DEF RedirectByRole, TypeAccount, RoleChanges, NavigateTo, TypePath, Becomes
  <2>2. page'.signing = page.signing /\ page'.status = page.status /\ DOMAIN page' = DOMAIN page
    BY <1>0, <1>3 DEF RedirectByRole, TypeAccount, RoleChanges, NavigateTo, TypePath, Becomes
  <2> QED BY <1>2, <2>1, <2>2
<1>4. ASSUME NEW x, Ask(x), {"op", "stage"} \subseteq DOMAIN x, x.op \in {"login", "cluster"},
             page.status # "loading", DOMAIN page' = DOMAIN page, page'.status = page.status,
             page'.signing => (page.status = "out" /\ x.op = "login") \/ page.signing
      PROVE  SignInInv'
  <2>1. Open' = Open \cup {x}
    BY <1>4, AskOpens
  <2>2. \A y \in Open' : y.op # "me"
    BY <1>0, <1>4, <2>1
  <2> QED BY <1>0, <1>4, <2>1, <2>2 DEF SignInInv, SignInBusyMeansWaiting, Pending, OneAtMost
<1>5. CASE SubmitLogin
  <2>1. {"op", "stage"} \subseteq DOMAIN Login(page.account) /\ Login(page.account).op = "login"
    BY DEF Login
  <2>2. /\ Ask(Login(page.account)) /\ page.status = "out" /\ DOMAIN page' = DOMAIN page
        /\ page'.status = page.status
    BY <1>0, <1>5 DEF SubmitLogin
  <2> QED BY <1>4, <2>1, <2>2
<1>6. CASE RefreshCluster
  <2>1. {"op", "stage"} \subseteq DOMAIN Query("cluster") /\ Query("cluster").op = "cluster"
    BY DEF Query
  <2>2. /\ Ask(Query("cluster")) /\ page.status = "in" /\ page' = page
    BY <1>6 DEF RefreshCluster
  <2> QED BY <1>4, <2>1, <2>2
<1>7. CASE Logout
  <2>1. Open' = {}
    BY <1>7 DEF Logout, Open, BagToSet, EmptyBag, SetToBag
  <2>2. /\ {"status", "signing", "stored"} \subseteq DOMAIN page' /\ ~page'.signing
        /\ page'.status = "out"
    BY <1>0, <1>7 DEF Logout
  <2> QED BY <2>1, <2>2 DEF SignInInv, SignInBusyMeansWaiting, Pending, OneAtMost
\* An answer comes or ends, and no call of fetchMe is sent.
<1>8. ASSUME NEW r \in Open, Open' \subseteq Open, Open \subseteq Open' \cup {r},
             \A y : y # r => Copies(y)' = Copies(y),
             r.op = "me" => r \notin Open',
             {"status", "signing", "stored"} \subseteq DOMAIN page',
             page'.signing => page.signing /\ r.op # "login",
             (page'.status = page.status /\ r.op # "me")
               \/ (page'.status \in {"in", "out"} /\ r.op = "me")
               \/ (page'.status = "in" /\ r.op = "login" /\ ~page'.signing)
      PROVE  SignInInv'
  <2>1. \A y \in Open' : {"op", "stage"} \subseteq DOMAIN y
    BY <1>0, <1>8
  <2>2. r.op = "me" => \A y \in Open' : y.op # "me"
    BY <1>0, <1>8 DEF OneAtMost, Pending
  <2>3. page'.signing => page'.status = "out" /\ \E y \in Open' : y.op = "login"
    BY <1>0, <1>8
  <2>4. page'.status = "loading" => \E y \in Open' : y.op = "me"
    BY <1>0, <1>8
  <2>5. \A y \in Open' : y.op = "me" => page'.status = "loading" /\ \A x \in Open' : x.op # "login"
    BY <1>0, <1>8, <2>2
  <2>6. OneAtMost(Pending("me"))'
    BY <1>0, <1>8, <2>2 DEF OneAtMost, Pending
  <2> QED BY <1>8, <2>1, <2>3, <2>4, <2>5, <2>6 DEF SignInInv, SignInBusyMeansWaiting, Pending
<1>9. ASSUME NEW r \in Open, NEW ok \in BOOLEAN,
             MeAnswered(r, ok) \/ LoginAnswered(r, ok) \/ ClusterRead(r, ok)
      PROVE  SignInInv'
  <2>1. Open' \subseteq Open /\ Open \subseteq Open' \cup {r}
    BY <1>9, SettleOpens DEF MeAnswered, LoginAnswered, ClusterRead
  <2>2. /\ \A y : y # r => Copies(y)' = Copies(y)
        /\ r.op = "me" => r \notin Open'
    BY <1>0, <1>9, SettleCopies DEF MeAnswered, LoginAnswered, ClusterRead, OneAtMost, Pending
  <2>3. CASE MeAnswered(r, ok)
    <3>1. /\ {"status", "signing", "stored"} \subseteq DOMAIN page' /\ page'.signing = page.signing
          /\ page'.status \in {"in", "out"} /\ r.op = "me"
      BY <1>0, <2>3 DEF MeAnswered
    <3> QED BY <1>8, <2>1, <2>2, <3>1
  <2>4. CASE LoginAnswered(r, ok)
    <3>1. /\ {"status", "signing", "stored"} \subseteq DOMAIN page' /\ ~page'.signing /\ r.op = "login"
          /\ page'.status = page.status \/ page'.status = "in"
      BY <1>0, <2>4 DEF LoginAnswered
    <3> QED BY <1>8, <2>1, <2>2, <3>1
  <2>5. CASE ClusterRead(r, ok)
    <3>1. /\ {"status", "signing", "stored"} \subseteq DOMAIN page' /\ page'.signing = page.signing
          /\ page'.status = page.status /\ r.op = "cluster"
      BY <1>0, <2>5 DEF ClusterRead
    <3> QED BY <1>8, <2>1, <2>2, <3>1
  <2> QED BY <1>9, <2>3, <2>4, <2>5
<1>10. ASSUME NEW r \in Open, ServeSignIn(r) PROVE SignInInv'
  <2>1. PICK x : Reply(r, x) /\ {"op", "stage"} \subseteq DOMAIN x /\ x.op = r.op
    <3>1. CASE Reply(r, Answered(r))
      BY <1>0, <3>1, AnswerKeeps
    <3>2. CASE Reply(r, AnsweredWith(r, [role |-> server[r.account]]))
      <4>1. DOMAIN [role |-> server[r.account]] \cap {"op", "stage"} = {}
        OBVIOUS
      <4> QED BY <1>0, <3>2, <4>1, AnswerWithAsks
    <3> QED BY <1>10, <3>1, <3>2 DEF ServeSignIn
  <2>2. Open' \subseteq Open \cup {x} /\ Open \subseteq Open' \cup {r} /\ x \in Open'
    BY <2>1, ReplyOpens
  <2>3. page' = page
    BY <1>10 DEF ServeSignIn
  <2>4. OneAtMost(Pending("me"))'
    <3> DEFINE C == Pending("me")
               D == Pending("me")'
    <3>1. C \subseteq Open /\ D \subseteq Open' /\ OneAtMost(C)
          /\ (\A y \in Open : y \in Open' => (y \in D <=> y \in C)) /\ (x \in D => r \in C)
      BY <1>0, <2>1 DEF Pending
    <3> HIDE DEF C, D
    <3>2. \A y, z \in D : y = z /\ Copies(y)' = 1
      BY <2>1, <3>1, ChainReply
    <3> QED BY <3>2 DEF D, OneAtMost
  <2>5. \A y \in Open' : y.op = "me" => page'.status = "loading" /\ \A z \in Open' : z.op # "login"
    BY <1>0, <2>1, <2>2, <2>3
  <2>6. /\ page'.signing => \E y \in Open' : y.op = "login"
        /\ page'.status = "loading" => \E y \in Open' : y.op = "me"
        /\ \A y \in Open' : {"op", "stage"} \subseteq DOMAIN y
    BY <1>0, <2>1, <2>2, <2>3
  <2> QED BY <1>0, <2>3, <2>4, <2>5, <2>6 DEF SignInInv, SignInBusyMeansWaiting, Pending
<1> QED BY <1>1, <1>3, <1>5, <1>6, <1>7, <1>9, <1>10 DEF SignInNext

-----------------------------------------------------------------------------
(***************************************************************************)
(* Approvals.  A decision that was ever held is in the log and stays there, *)
(* so a list that was read before, and the answer to a decision, say        *)
(* nothing that the log or the start of the server does not.                *)
(***************************************************************************)
Agrees(l) == DOMAIN l = Requests /\ \A q \in Requests : l[q] \in {FirstStatus[q]} \cup InLog(q)

ApprovalRequest(r) ==
  /\ {"op", "stage"} \subseteq DOMAIN r /\ r.op \in {"list", "decide"}
  /\ r.op = "list" /\ r.stage = "ok" => "status" \in DOMAIN r /\ Agrees(r.status)
  /\ r.op = "decide" =>
       /\ {"request", "decision"} \subseteq DOMAIN r
       /\ r.request \in Requests /\ r.decision \in Decisions
       /\ r.stage = "ok" => r.decision \in InLog(r.request)

Audited ==
  /\ {"status", "audit", "strays"} \subseteq DOMAIN server
  /\ server.status \in [Requests -> Decisions \cup {"pending"}] /\ DOMAIN server.audit = Requests
  /\ DOMAIN server.strays = Requests
  /\ \A q \in Requests :
       /\ server.audit[q] = IF server.status[q] = FirstStatus[q] THEN <<>> ELSE <<server.status[q]>>
       /\ server.status[q] = "pending" => FirstStatus[q] = "pending"

ListAgrees == page.list # Nil => Agrees(page.list)

ApprovalsInv ==
  /\ {"list", "decision", "submitting"} \subseteq DOMAIN page
  /\ page.decision \in (Requests \X Decisions) \cup {Nil}
  /\ ListAgrees
  /\ Audited
  /\ \A r \in Open : ApprovalRequest(r)
  /\ page.submitting => \E r \in Open : r.op = "decide" /\ page.decision = <<r.request, r.decision>>
  /\ Pending("decide") # {} => page.submitting
  /\ OneAtMost(Pending("decide"))

\* The log has an entry for every decision that is held.
LEMMA HeldIsLogged ==
  ASSUME Audited
  PROVE  Agrees(server.status)
<1>1. ASSUME NEW q \in Requests, server.status[q] # FirstStatus[q]
      PROVE  server.status[q] \in InLog(q)
  <2>1. server.audit[q] = <<server.status[q]>>
    BY <1>1 DEF Audited
  <2>2. PICK d : d = server.status[q]
    OBVIOUS
  <2>3. d \in Range(<<d>>)
    BY DEF Range
  <2> QED BY <2>1, <2>2, <2>3 DEF InLog
<1> QED BY <1>1 DEF Agrees, Audited

\* Nothing is taken from the log.
LogGrows == \A q \in Requests : InLog(q) \subseteq InLog(q)'

LEMMA AgreesStill ==
  ASSUME LogGrows
  PROVE  /\ \A l : Agrees(l) => Agrees(l)'
         /\ \A r : ApprovalRequest(r) => ApprovalRequest(r)'
<1>1. ASSUME NEW l, Agrees(l) PROVE Agrees(l)'
  BY <1>1 DEF Agrees, LogGrows
<1>2. ASSUME NEW r, ApprovalRequest(r) PROVE ApprovalRequest(r)'
  <2>1. CASE r.op = "list"
    BY <1>1, <1>2, <2>1 DEF ApprovalRequest
  <2>2. CASE r.op = "decide"
    BY <1>2, <2>2 DEF ApprovalRequest, LogGrows
  <2> QED BY <1>2, <2>1, <2>2 DEF ApprovalRequest
<1> QED BY <1>1, <1>2

LEMMA DecidedGrows ==
  ASSUME Audited, NEW q \in Requests, NEW d \in Decisions, server.status[q] = "pending", Decided(q, d)
  PROVE  LogGrows /\ Audited' /\ d \in InLog(q)'
<1>1. /\ server'.status = [server.status EXCEPT ![q] = d]
      /\ server'.audit = [server.audit EXCEPT ![q] = Append(server.audit[q], d)]
      /\ server'.strays = server.strays
      /\ {"status", "audit", "strays"} \subseteq DOMAIN server'
  BY DEF Audited, Decided
<1>2. server.audit[q] = <<>> /\ Append(<<>>, d) = <<d>> /\ d # "pending" /\ FirstStatus[q] = "pending"
  <2>1. Append(<<>>, d) = <<d>>
    OBVIOUS
  <2> QED BY <2>1 DEF Audited, Decisions
<1>3. /\ server'.status \in [Requests -> Decisions \cup {"pending"}] /\ DOMAIN server'.audit = Requests
      /\ server'.status[q] = d /\ server'.audit[q] = <<d>>
      /\ \A x \in Requests \ {q} :
           server'.status[x] = server.status[x] /\ server'.audit[x] = server.audit[x]
  BY <1>1, <1>2 DEF Audited
<1>4. Audited'
  BY <1>1, <1>2, <1>3 DEF Audited
<1>5. Range(<<>>) = {} /\ Range(<<d>>) = {d}
  BY DEF Range
<1>6. \A x \in Requests : Range(server.audit[x]) \subseteq Range(server'.audit[x])
  BY <1>2, <1>3, <1>5
<1> QED BY <1>1, <1>3, <1>4, <1>5, <1>6 DEF LogGrows, InLog

\* A restart forgets the decisions, and the log does not.
LEMMA RestartsKeepLog ==
  ASSUME Audited, ServerRestarts
  PROVE  LogGrows /\ Audited'
<1>1. /\ server'.status = FirstStatus /\ server'.audit = [q \in Requests |-> <<>>]
      /\ server'.strays = [q \in Requests |-> InLog(q)]
      /\ {"status", "audit", "strays"} \subseteq DOMAIN server'
  <2>1. PICK f : f = [q \in Requests |-> InLog(q)]
    OBVIOUS
  <2>2. server' = With(Started, "strays", f)
    BY <2>1 DEF ServerRestarts
  <2> QED BY <2>1, <2>2 DEF With, Started
<1>2. Audited'
  BY <1>1, ApprovalsAssumption DEF Audited
<1>3. \A q \in Requests : server'.strays[q] = InLog(q)
  BY <1>1
<1> QED BY <1>2, <1>3 DEF LogGrows, InLog

LEMMA LogOnlyGrows ==
  ASSUME Audited, NEW q \in Requests, NEW d \in Decisions, LogOnly(q, d)
  PROVE  LogGrows /\ Audited'
<1>1. /\ server'.status = server.status /\ server'.audit = server.audit
      /\ server'.strays = [server.strays EXCEPT ![q] = @ \cup {d}]
      /\ {"status", "audit", "strays"} \subseteq DOMAIN server'
  BY DEF Audited, LogOnly
<1>2. Audited'
  BY <1>1 DEF Audited
<1>3. \A x \in Requests : server.strays[x] \subseteq server'.strays[x]
  BY <1>1 DEF Audited
<1> QED BY <1>1, <1>2, <1>3 DEF LogGrows, InLog

LEMMA ApprovalsStart ==
  ASSUME NEW b, ApprovalsMounted(b)
  PROVE  ApprovalsInv'
<1>1. Open' = {Query("list")}
  BY MountOpens DEF ApprovalsMounted
<1>2. /\ {"list", "decision", "submitting"} \subseteq DOMAIN page' /\ page'.decision = Nil
      /\ page'.list = Nil /\ ~page'.submitting
      /\ server' = With(Started, "strays", [q \in Requests |-> {}])
  BY DEF ApprovalsMounted, Mounting
<1>3. Audited'
  <2>1. /\ server'.status = FirstStatus /\ server'.audit = [q \in Requests |-> <<>>]
        /\ server'.strays = [q \in Requests |-> {}]
        /\ {"status", "audit", "strays"} \subseteq DOMAIN server'
    BY <1>2 DEF With, Started
  <2> QED BY <2>1, ApprovalsAssumption DEF Audited
<1>4. ApprovalRequest(Query("list"))'
  BY DEF ApprovalRequest, Query
<1>5. Query("list").op = "list"
  BY DEF Query
<1> QED BY <1>1, <1>2, <1>3, <1>4, <1>5 DEF ApprovalsInv, ListAgrees, Pending, OneAtMost

LEMMA ApprovalsKept ==
  ASSUME ApprovalsInv, ApprovalsNext
  PROVE  ApprovalsInv'
<1>0. /\ {"list", "decision", "submitting"} \subseteq DOMAIN page
      /\ page.decision \in (Requests \X Decisions) \cup {Nil}
      /\ ListAgrees
      /\ Audited
      /\ \A r \in Open : ApprovalRequest(r)
      /\ page.submitting => \E r \in Open : r.op = "decide" /\ page.decision = <<r.request, r.decision>>
      /\ \A r \in Open : r.op = "decide" => page.submitting
      /\ OneAtMost(Pending("decide"))
  BY DEF ApprovalsInv, Pending
<1>1. ASSUME UNCHANGED server PROVE LogGrows /\ Audited'
  BY <1>0, <1>1 DEF LogGrows, Audited, InLog
\* Nothing is sent or answered.
<1>2. ASSUME UNCHANGED wire, LogGrows, Audited',
             {"list", "decision", "submitting"} \subseteq DOMAIN page', page'.list = page.list,
             page'.submitting = page.submitting,
             \/ page'.decision = page.decision
             \/ ~page.submitting /\ page'.decision \in (Requests \X Decisions) \cup {Nil}
      PROVE  ApprovalsInv'
  <2>1. Open' = Open /\ \A y : Copies(y)' = Copies(y)
    BY <1>2 DEF Open, Copies
  <2>2. \A r \in Open' : ApprovalRequest(r)'
    BY <1>0, <1>2, <2>1, AgreesStill
  <2>3. ListAgrees'
    <3>1. page.list # Nil => \A l : l = page.list => Agrees(l)'
      BY <1>0, <1>2, AgreesStill DEF ListAgrees
    <3> QED BY <1>2, <3>1 DEF Agrees, ListAgrees
  <2>4. OneAtMost(Pending("decide"))'
    BY <1>0, <2>1 DEF OneAtMost, Pending
  <2> QED BY <1>0, <1>2, <2>1, <2>2, <2>3, <2>4 DEF ApprovalsInv, Pending
<1>3. ASSUME NEW q \in Requests, NEW d \in Decisions, OpenDecision(q, d) PROVE ApprovalsInv'
  <2>1. ~page.submitting
    BY <1>0, <1>3, ApprovalsAssumption DEF OpenDecision, DecideOffered, ApprovalRequest
  <2>2. /\ {"list", "decision", "submitting"} \subseteq DOMAIN page' /\ page'.list = page.list
        /\ page'.submitting = page.submitting /\ page'.decision = <<q, d>>
        /\ UNCHANGED <<server, wire>>
    BY <1>0, <1>3 DEF OpenDecision, Edits
  <2>3. page'.decision \in Requests \X Decisions
    BY <2>2
  <2> QED BY <1>1, <1>2, <2>1, <2>2, <2>3
<1>4. CASE TypePhrase \/ CloseDecision
  <2>1. /\ {"list", "decision", "submitting"} \subseteq DOMAIN page' /\ page'.list = page.list
        /\ page'.submitting = page.submitting
        /\ page'.decision = page.decision \/ (~page.submitting /\ page'.decision = Nil)
        /\ UNCHANGED <<server, wire>>
    BY <1>0, <1>4 DEF TypePhrase, CloseDecision, Edits
  <2> QED BY <1>1, <1>2, <2>1
<1>5. ASSUME NEW q \in Requests, NEW d \in Decisions, OthersDecide(q, d) PROVE ApprovalsInv'
  <2>1. LogGrows /\ Audited'
    BY <1>0, <1>5, DecidedGrows DEF OthersDecide, AcceptsDecision
  <2> QED BY <1>0, <1>2, <1>5, <2>1 DEF OthersDecide
<1>10. ASSUME NEW q \in Requests, NEW d \in Decisions, LogOnly(q, d) PROVE ApprovalsInv'
  <2>1. LogGrows /\ Audited' /\ UNCHANGED <<page, wire>>
    BY <1>0, <1>10, LogOnlyGrows DEF LogOnly
  <2> QED BY <1>0, <1>2, <2>1
<1>11. CASE ServerRestarts
  <2>1. LogGrows /\ Audited' /\ UNCHANGED <<page, wire>>
    BY <1>0, <1>11, RestartsKeepLog DEF ServerRestarts
  <2> QED BY <1>0, <1>2, <2>1
<1>6. CASE SubmitDecision
  <2> DEFINE x == Decide(page.decision[1], page.decision[2], page.phrase)
  <2>1. ~page.submitting /\ page.decision \in Requests \X Decisions
    BY <1>0, <1>6 DEF SubmitDecision, SubmitDisabled
  <2>2. PICK q \in Requests, d \in Decisions : page.decision = <<q, d>>
    BY <2>1
  <2>3. /\ x = Decide(q, d, page.phrase)
    BY <2>2
  <2>4. /\ {"op", "stage", "request", "decision"} \subseteq DOMAIN x /\ x.op = "decide"
        /\ x.stage = "sent" /\ x.request = q /\ x.decision = d
    BY <2>3 DEF Decide
  <2>5. /\ Ask(x) /\ UNCHANGED server /\ {"list", "decision", "submitting"} \subseteq DOMAIN page'
        /\ page'.list = page.list /\ page'.decision = page.decision /\ page'.submitting
    BY <1>0, <1>6 DEF SubmitDecision
  <2> HIDE DEF x
  <2>6. Open' = Open \cup {x}
    BY <2>5, AskOpens
  <2>7. \A y : y = x => ApprovalRequest(y)'
    BY <2>4 DEF ApprovalRequest
  <2>8. \A y \in Open' : ApprovalRequest(y)'
    BY <1>0, <1>1, <2>5, <2>6, <2>7, AgreesStill
  <2>9. OneAtMost(Pending("decide"))'
    <3> DEFINE C == Pending("decide")
               D == Pending("decide")'
    <3>1. C = {} /\ C \subseteq Open /\ D \subseteq Open' /\ OneAtMost(C)
          /\ (\A y \in Open : y \in D <=> y \in C)
      BY <1>0, <2>1, <2>6 DEF Pending
    <3> HIDE DEF C, D
    <3>2. \A y, z \in D : y = z /\ Copies(y)' = 1
      BY <2>5, <3>1, ChainAsk
    <3> QED BY <3>2 DEF D, OneAtMost
  <2>10. ListAgrees'
    BY <1>0, <1>1, <2>5, AgreesStill DEF ListAgrees
  <2>11. \E r \in Open' : r.op = "decide" /\ page'.decision = <<r.request, r.decision>>
    BY <2>2, <2>4, <2>5, <2>6
  <2> QED BY <1>0, <1>1, <2>5, <2>8, <2>9, <2>10, <2>11 DEF ApprovalsInv
<1>7. ASSUME NEW r \in Open, NEW ok \in BOOLEAN, ApprovalsLoaded(r, ok) PROVE ApprovalsInv'
  <2>1. /\ wire' = Settled(r) /\ UNCHANGED server /\ ApprovalRequest(r) /\ r.op = "list"
        /\ ok => r.stage = "ok"
    BY <1>0, <1>7 DEF ApprovalsLoaded, Ends
  <2>2. /\ {"list", "decision", "submitting"} \subseteq DOMAIN page' /\ page'.decision = page.decision
        /\ page'.submitting = page.submitting
        /\ page'.list = page.list \/ (ok /\ page'.list = r.status)
    BY <1>0, <1>7 DEF ApprovalsLoaded
  <2>3. ListAgrees'
    <3>1. page'.list # Nil => Agrees(page'.list)
      BY <1>0, <2>1, <2>2 DEF ApprovalRequest, ListAgrees
    <3>3. page'.list # Nil => \A l : l = page'.list => Agrees(l)'
      BY <1>1, <2>1, <3>1, AgreesStill
    <3> QED BY <3>3 DEF Agrees, ListAgrees
  <2>4. Open' \subseteq Open /\ Open \subseteq Open' \cup {r}
    BY <2>1, SettleOpens
  <2>5. OneAtMost(Pending("decide"))'
    <3>1. \A y : y # r => Copies(y)' = Copies(y)
      BY <2>1, SettleCopies
    <3> QED BY <1>0, <2>1, <2>4, <3>1 DEF OneAtMost, Pending
  <2>6. \A y \in Open' : ApprovalRequest(y)'
    BY <1>0, <1>1, <2>1, <2>4, AgreesStill
  <2>7. page'.submitting => \E y \in Open' : y.op = "decide" /\ page'.decision = <<y.request, y.decision>>
    BY <1>0, <2>1, <2>2, <2>4
  <2> QED BY <1>0, <1>1, <2>1, <2>2, <2>3, <2>4, <2>5, <2>6, <2>7 DEF ApprovalsInv, Pending
<1>8. ASSUME NEW r \in Open, NEW ok \in BOOLEAN, DecisionAnswered(r, ok) PROVE ApprovalsInv'
  <2>1. /\ wire' = Settled(r) /\ UNCHANGED server /\ ApprovalRequest(r) /\ r.op = "decide"
        /\ ok => r.stage = "ok"
    BY <1>0, <1>8 DEF DecisionAnswered, Ends
  <2>2. /\ {"list", "decision", "submitting"} \subseteq DOMAIN page' /\ ~page'.submitting
        /\ page'.decision \in {page.decision, Nil}
        /\ page'.list \in {page.list, IF page.list = Nil THEN Nil
                                      ELSE [page.list EXCEPT ![r.request] = r.decision]}
        /\ ~ok => page'.list = page.list
    BY <1>0, <1>8 DEF DecisionAnswered
  <2>3. ListAgrees'
    <3>1. ok => r.request \in Requests /\ r.decision \in InLog(r.request)
      BY <2>1 DEF ApprovalRequest
    <3>2. page'.list # Nil => Agrees(page'.list)
      BY <1>0, <2>2, <3>1 DEF Agrees, ListAgrees
    <3>3. page'.list # Nil => \A l : l = page'.list => Agrees(l)'
      BY <1>1, <2>1, <3>2, AgreesStill
    <3> QED BY <3>3 DEF Agrees, ListAgrees
  <2>4. Open' \subseteq Open /\ Open \subseteq Open' \cup {r}
    BY <2>1, SettleOpens
  <2>5. Pending("decide")' = {}
    <3>1. Copies(r) = 1 /\ \A y \in Open : y.op = "decide" => y = r
      BY <1>0, <2>1 DEF OneAtMost, Pending
    <3>2. r \notin Open'
      BY <2>1, <3>1, SettleCopies
    <3> QED BY <2>4, <3>1, <3>2 DEF Pending
  <2>6. \A y \in Open' : ApprovalRequest(y)'
    BY <1>0, <1>1, <2>1, <2>4, AgreesStill
  <2> QED BY <1>0, <1>1, <2>1, <2>2, <2>3, <2>5, <2>6 DEF ApprovalsInv, OneAtMost
<1>9. ASSUME NEW r \in Open, ServeApprovals(r) PROVE ApprovalsInv'
  <2>1. ApprovalRequest(r)
    BY <1>0
  <2>2. PICK x : /\ Reply(r, x) /\ ApprovalRequest(x)' /\ x.op = r.op
                 /\ r.op = "decide" => x.request = r.request /\ x.decision = r.decision
                 /\ LogGrows /\ Audited'
    <3>1. CASE /\ r.op = "list" /\ Reply(r, AnsweredWith(r, [status |-> server.status]))
               /\ UNCHANGED server
      <4>0. PICK f : f = [status |-> server.status]
        OBVIOUS
      <4>1. DOMAIN f = {"status"} /\ f["status"] = server.status
        BY <4>0
      <4> DEFINE x == AnsweredWith(r, f)
      <4>2. Reply(r, x)
        BY <3>1, <4>0
      <4>3. x.op = r.op /\ x.stage = "ok" /\ {"op", "stage"} \subseteq DOMAIN x
        BY <2>1, <4>1, AnswerWithAsks DEF ApprovalRequest
      <4>4. "status" \in DOMAIN x /\ x["status"] = f["status"]
        BY <4>1 DEF AnsweredWith, Joined
      <4> HIDE DEF x
      <4>6. "status" \in DOMAIN x /\ x["status"] = server.status
        BY <4>1, <4>4
      <4>5. \A y : y = x => ApprovalRequest(y)'
        BY <1>0, <1>1, <3>1, <4>3, <4>6, HeldIsLogged, AgreesStill DEF ApprovalRequest
      <4> QED BY <1>1, <3>1, <4>2, <4>3, <4>5
    <3>2. CASE /\ r.op = "decide" /\ AcceptsDecision(r.request, r.phrase)
               /\ Decided(r.request, r.decision) /\ Reply(r, Answered(r))
      <4> DEFINE x == Answered(r)
      <4>1. DOMAIN x = DOMAIN r /\ x["stage"] = "ok" /\ \A k \in DOMAIN r : k # "stage" => x[k] = r[k]
        BY <2>1, AnswerKeeps DEF ApprovalRequest
      <4>2. Reply(r, x)
        BY <3>2
      <4> HIDE DEF x
      <4>3. x["op"] = r["op"] /\ x["request"] = r["request"] /\ x["decision"] = r["decision"]
        BY <2>1, <3>2, <4>1 DEF ApprovalRequest
      <4>4. LogGrows /\ Audited' /\ r.decision \in InLog(r.request)'
        BY <1>0, <2>1, <3>2, DecidedGrows DEF ApprovalRequest, AcceptsDecision
      <4>5. \A y : y = x => ApprovalRequest(y)'
        BY <2>1, <3>2, <4>1, <4>3, <4>4 DEF ApprovalRequest
      <4> QED BY <4>2, <4>3, <4>4, <4>5
    <3> QED BY <1>9, <3>1, <3>2 DEF ServeApprovals
  <2>3. Open' \subseteq Open \cup {x} /\ Open \subseteq Open' \cup {r} /\ x \in Open'
    BY <2>2, ReplyOpens
  <2>4. page' = page
    BY <1>9 DEF ServeApprovals
  <2>5. OneAtMost(Pending("decide"))'
    <3> DEFINE C == Pending("decide")
               D == Pending("decide")'
    <3>1. C \subseteq Open /\ D \subseteq Open' /\ OneAtMost(C)
          /\ (\A y \in Open : y \in Open' => (y \in D <=> y \in C)) /\ (x \in D => r \in C)
      BY <1>0, <2>2 DEF Pending
    <3> HIDE DEF C, D
    <3>2. \A y, z \in D : y = z /\ Copies(y)' = 1
      BY <2>2, <3>1, ChainReply
    <3> QED BY <3>2 DEF D, OneAtMost
  <2>6. \A y \in Open' : ApprovalRequest(y)'
    BY <1>0, <2>2, <2>3, AgreesStill
  <2>7. ListAgrees'
    <3>1. page.list # Nil => \A l : l = page.list => Agrees(l)'
      BY <1>0, <2>2, AgreesStill DEF ListAgrees
    <3> QED BY <2>4, <3>1 DEF Agrees, ListAgrees
  <2>8. page'.submitting => \E y \in Open' : y.op = "decide" /\ page'.decision = <<y.request, y.decision>>
    BY <1>0, <2>2, <2>3, <2>4
  <2>9. Pending("decide")' # {} => page'.submitting
    BY <1>0, <2>2, <2>3, <2>4 DEF Pending
  <2> QED BY <1>0, <2>2, <2>4, <2>5, <2>6, <2>7, <2>8, <2>9 DEF ApprovalsInv
<1> QED BY <1>3, <1>4, <1>5, <1>6, <1>7, <1>8, <1>9, <1>10, <1>11 DEF ApprovalsNext

LEMMA ApprovalsDecide == ApprovalsInv => ApprovalsNoDoubleSubmit /\ DecidedOnce
BY DEF ApprovalsInv, ListAgrees, Audited, Agrees, ApprovalsNoDoubleSubmit, DecidedOnce

-----------------------------------------------------------------------------
(***************************************************************************)
(* The tab.                                                                *)
(***************************************************************************)
TeamInv ==
  /\ route = "chat" => ChatInv
  /\ route = "store" => StoreInv
  /\ route = "sessions" => SessionsInv
  /\ route = "socket" => SocketInv
  /\ route = "members" => MembersInv
  /\ route = "nodes" => NodesInv
  /\ route = "namespaces" => NamespacesInv
  /\ route = "system" => SystemInv
  /\ route = "settings" => SettingsInv
  /\ route = "ledger" => LedgerInv
  /\ route = "approvals" => ApprovalsInv
  /\ route = "signin" => SignInInv

\* A step that changes nothing keeps each of them.
LEMMA TeamStutters ==
  ASSUME TeamInv, UNCHANGED tab
  PROVE  TeamInv'
<1>1. page' = page /\ server' = server /\ route' = route /\ wire' = wire
  BY DEF tab
<1>2. Open' = Open /\ \A r : Copies(r)' = Copies(r)
  BY <1>1 DEF Open, Copies
<1>3. ChatInv => ChatInv'
  <2>1. Logged' = Logged
    BY <1>1 DEF Logged
  <2>2. LogsKept => LogsKept'
    BY <1>1, <2>1 DEF LogsKept
  <2>3. SendsKept => SendsKept'
    BY <1>2, <2>1 DEF SendsKept
  <2>4. ScreenKept => ScreenKept'
    BY <1>1, <2>1 DEF ScreenKept
  <2>5. ChatWaits => ChatWaits'
    BY <1>1, <1>2 DEF ChatWaits
  <2> QED BY <2>2, <2>3, <2>4, <2>5 DEF ChatInv
<1>4. (StoreInv => StoreInv') /\ (SessionsInv => SessionsInv')
  BY <1>1, <1>2 DEF StoreInv, StoreTyped, SessionsInv
<1>5. SocketInv => SocketInv'
  BY <1>1, <1>2 DEF SocketInv
<1>6. MembersInv => MembersInv'
  BY <1>1, <1>2 DEF MembersInv, MembersRequest, Kept, WorkFor, OneAtMost
<1>7. NodesInv => NodesInv'
  BY <1>1, <1>2 DEF NodesInv, HeldKept, Held, HolderChain, RegisterChain, ChainOf, OneAtMost
<1>8. (NamespacesInv => NamespacesInv') /\ (SystemInv => SystemInv')
  BY <1>1, <1>2 DEF NamespacesInv, SystemInv, UsersKept, UserChain, Pending, OneAtMost
<1>9. (SettingsInv => SettingsInv') /\ (LedgerInv => LedgerInv')
  <2>1. \A r : (Sparing(r)' <=> Sparing(r)) /\ (KeepsRest(r)' <=> KeepsRest(r))
    BY <1>1 DEF Sparing, KeepsRest
  <2>2. \A r : SettingsRequest(r)' <=> SettingsRequest(r)
    BY <2>1 DEF SettingsRequest
  <2>3. SettingsInv => SettingsInv'
    BY <1>1, <1>2, <2>2 DEF SettingsInv, SettingsBusyMeansWaiting, Pending
  <2>4. LedgerInv => LedgerInv'
    BY <1>1, <1>2 DEF LedgerInv, LedgerBusyMeansWaiting, Pending
  <2> QED BY <2>3, <2>4
<1>10. (ApprovalsInv => ApprovalsInv') /\ (SignInInv => SignInInv')
  BY <1>1, <1>2 DEF ApprovalsInv, ApprovalRequest, ListAgrees, Audited, Agrees, InLog, SignInInv,
     SignInBusyMeansWaiting, Pending, OneAtMost
<1> QED BY <1>1, <1>3, <1>4, <1>5, <1>6, <1>7, <1>8, <1>9, <1>10 DEF TeamInv

\* The page that is mounted starts in its invariant.
LEMMA TeamMounts ==
  ASSUME route = "none", OpenPage
  PROVE  TeamInv'
<1>1. [Next]_tab
  BY DEF Next
<1>2. route' # "none"
  BY DEF OpenPage, ChatMounted, ComposerMounted, StoreMounted, SidebarMounted,
     SessionsMounted, SocketMounted, MembersMounted, TeamRosterMounted,
     NoticesMounted, NodesMounted, NamespacesMounted, SystemMounted,
     SettingsMounted, LedgerMounted, ApprovalsMounted, SignInMounted, Mounting
<1>3. ASSUME route' = "chat" PROVE ChatInv'
  BY <1>1, <1>3, ChatStep, ChatStart DEF tab
<1>4. ASSUME route' = "store" PROVE StoreInv'
  BY <1>1, <1>4, StoreStep, StoreStarts DEF tab
<1>5. ASSUME route' = "sessions" PROVE SessionsInv'
  BY <1>1, <1>5, SessionsStep, SessionsStart DEF tab
<1>6. ASSUME route' = "socket" PROVE SocketInv'
  BY <1>1, <1>6, SocketStep, SocketStarts DEF tab
<1>7. ASSUME route' = "members" PROVE MembersInv'
  BY <1>1, <1>7, MembersStep, MembersStart DEF tab
<1>8. ASSUME route' = "nodes" PROVE NodesInv'
  BY <1>1, <1>8, NodesStep, NodesStart DEF tab
<1>9. ASSUME route' = "namespaces" PROVE NamespacesInv'
  BY <1>1, <1>9, NamespacesStep, NamespacesStart DEF tab
<1>10. ASSUME route' = "system" PROVE SystemInv'
  BY <1>1, <1>10, SystemStep, SystemStart DEF tab
<1>11. ASSUME route' = "settings" PROVE SettingsInv'
  BY <1>1, <1>11, SettingsStep, SettingsStart DEF tab
<1>12. ASSUME route' = "ledger" PROVE LedgerInv'
  BY <1>1, <1>12, LedgerStep, LedgerStart DEF tab
<1>13. ASSUME route' = "approvals" PROVE ApprovalsInv'
  BY <1>1, <1>13, ApprovalsStep, ApprovalsStart DEF tab
<1>14. ASSUME route' = "signin" PROVE SignInInv'
  BY <1>1, <1>14, SignInStep, SignInStart DEF tab
<1> QED
  BY <1>3, <1>4, <1>5, <1>6, <1>7, <1>8, <1>9, <1>10, <1>11, <1>12, <1>13, <1>14 DEF TeamInv

\* A page that is shown keeps its invariant.
LEMMA TeamSteps ==
  ASSUME TeamInv, route # "none", Next
  PROVE  TeamInv'
<1>1. [Next]_tab
  OBVIOUS
<1>2. CASE UNCHANGED tab
  BY <1>2, TeamStutters
<1>3. CASE ~UNCHANGED tab
  <2>1. ASSUME route' = "chat" PROVE ChatInv'
    BY <1>1, <1>3, <2>1, ChatStep, ChatKept DEF TeamInv
  <2>2. ASSUME route' = "store" PROVE StoreInv'
    BY <1>1, <1>3, <2>2, StoreStep, StoreKept DEF TeamInv
  <2>3. ASSUME route' = "sessions" PROVE SessionsInv'
    BY <1>1, <1>3, <2>3, SessionsStep, SessionsKept DEF TeamInv
  <2>4. ASSUME route' = "socket" PROVE SocketInv'
    BY <1>1, <1>3, <2>4, SocketStep, SocketKeeps DEF TeamInv
  <2>5. ASSUME route' = "members" PROVE MembersInv'
    BY <1>1, <1>3, <2>5, MembersStep, MembersKept DEF TeamInv
  <2>6. ASSUME route' = "nodes" PROVE NodesInv'
    BY <1>1, <1>3, <2>6, NodesStep, NodesKept DEF TeamInv
  <2>7. ASSUME route' = "namespaces" PROVE NamespacesInv'
    BY <1>1, <1>3, <2>7, NamespacesStep, NamespacesKept DEF TeamInv
  <2>8. ASSUME route' = "system" PROVE SystemInv'
    BY <1>1, <1>3, <2>8, SystemStep, SystemKept DEF TeamInv
  <2>9. ASSUME route' = "settings" PROVE SettingsInv'
    BY <1>1, <1>3, <2>9, SettingsStep, SettingsKept DEF TeamInv
  <2>10. ASSUME route' = "ledger" PROVE LedgerInv'
    BY <1>1, <1>3, <2>10, LedgerStep, LedgerKept DEF TeamInv
  <2>11. ASSUME route' = "approvals" PROVE ApprovalsInv'
    BY <1>1, <1>3, <2>11, ApprovalsStep, ApprovalsKept DEF TeamInv
  <2>12. ASSUME route' = "signin" PROVE SignInInv'
    BY <1>1, <1>3, <2>12, SignInStep, SignInKept DEF TeamInv
  <2> QED
    BY <2>1, <2>2, <2>3, <2>4, <2>5, <2>6, <2>7, <2>8, <2>9, <2>10, <2>11, <2>12 DEF TeamInv
<1> QED BY <1>2, <1>3

\* The page that is shown is in its invariant, for every page at once.
THEOREM TeamInvariant == Spec => []TeamInv
<1>1. Init => TeamInv
  BY DEF Init, TeamInv
<1>2. TeamInv /\ [Next]_tab => TeamInv'
  <2> SUFFICES ASSUME TeamInv, [Next]_tab PROVE TeamInv'
    OBVIOUS
  <2>1. CASE UNCHANGED tab
    BY <2>1, TeamStutters
  <2>2. CASE route = "none" /\ Next
    BY <2>2, TeamMounts DEF Next
  <2>3. CASE route # "none" /\ Next
    BY <2>3, TeamSteps
  <2> QED BY <2>1, <2>2, <2>3
<1> QED BY <1>1, <1>2, PTL DEF Spec

\* Behind every page the tab keeps one connection, whatever sockets open late, close
\* or break, and however often the page is changed (app/providers, realtime-client.ts).
THEOREM OneConnection == Spec => []SocketKept
<1>1. TeamInv => SocketKept
  <2> SUFFICES ASSUME TeamInv, route = "socket" PROVE SocketKept
    BY DEF SocketKept, OneLiveSocket, NeverGivesUp
  <2>1. SocketInv
    BY DEF TeamInv
  <2> QED BY <2>1 DEF SocketInv, SocketKept, OneLiveSocket, NeverGivesUp, Live, Keyed
<1> QED BY <1>1, TeamInvariant, PTL

\* A message is on the screen once under one id, although it can come in the page of
\* a conversation, as an event and in the answer of its own send, and what is shown as
\* saved is held by the backend: for any conversations, messages and open requests
\* (ChatPage.tsx).
THEOREM MessagesShownOnce == Spec => []ChatShowsOnce
<1>1. TeamInv => ChatShowsOnce
  <2> SUFFICES ASSUME TeamInv PROVE ChatShowsOnce
    OBVIOUS
  <2>1. route = "chat" => ChatShowsOnce
    BY ChatOnce DEF TeamInv
  <2> QED BY <2>1 DEF ChatShowsOnce
<1> QED BY <1>1, TeamInvariant, PTL

\* The list that follows a batch of assistants is only asked for as "assistants added"
\* when the roster has all of them (MembersPage.tsx), for a batch of any length and
\* whatever other dialogs create meanwhile.
THEOREM BatchIsInvited == Spec => []InviteComplete
<1>1. TeamInv => InviteComplete
  BY DEF TeamInv, MembersInv, MembersRequest, InviteComplete, Pending
<1> QED BY <1>1, TeamInvariant, PTL

\* A save that was made from what the backend still has changes its section or its
\* provider and no other, and drops no key of another provider, although the page never
\* knows one (SettingsPage.tsx): for any sections, providers and values.
THEOREM SavesAreSparing == Spec => []SaveChangesItsOwn
<1>1. TeamInv => SaveChangesItsOwn
  <2> SUFFICES ASSUME TeamInv PROVE SaveChangesItsOwn
    OBVIOUS
  <2>1. route = "settings" => SaveChangesItsOwn
    BY SavesSpare DEF TeamInv
  <2> QED BY <2>1 DEF SaveChangesItsOwn
<1> QED BY <1>1, TeamInvariant, PTL

\* No page of the people, agents and machines keeps a spinner or a disabled control
\* with no request under way, for any conversations, members, nodes, namespaces,
\* accounts and requests, and in whatever order the answers come.
THEOREM NoTeamPageHangs == Spec => []BusyMeansWaiting
<1>1. TeamInv => BusyMeansWaiting
  <2> SUFFICES ASSUME TeamInv PROVE BusyMeansWaiting
    OBVIOUS
  <2>1. route = "chat" => ChatBusyMeansWaiting
    BY ChatNotices DEF TeamInv
  <2>2. route = "store" => StoreBusyMeansWaiting
    BY StoreWaits DEF TeamInv
  <2>3. route = "sessions" => SessionsBusyMeansWaiting
    BY DEF TeamInv, SessionsInv, SessionsBusyMeansWaiting, Stops, Pending
  <2>4. route = "members" => MembersBusyMeansWaiting
    BY DEF TeamInv, MembersInv, Kept, MembersBusyMeansWaiting
  <2>5. route = "nodes" => NodesBusyMeansWaiting
    BY NodesWait DEF TeamInv
  <2>6. route = "namespaces" => NamespacesBusyMeansWaiting
    BY NamespacesWait DEF TeamInv
  <2>7. route = "system" => SystemBusyMeansWaiting
    BY DEF TeamInv, SystemInv, UsersKept, PutsEntry, SystemBusyMeansWaiting, Pending
  <2>8. route = "settings" => SettingsBusyMeansWaiting
    BY DEF TeamInv, SettingsInv
  <2>9. route = "ledger" => LedgerBusyMeansWaiting
    BY DEF TeamInv, LedgerInv
  <2>10. route = "approvals" => ApprovalsBusyMeansWaiting
    BY DEF TeamInv, ApprovalsInv, ApprovalsBusyMeansWaiting, Pending
  <2>11. route = "signin" => SignInBusyMeansWaiting
    BY DEF TeamInv, SignInInv
  <2> QED
    BY <2>1, <2>2, <2>3, <2>4, <2>5, <2>6, <2>7, <2>8, <2>9, <2>10, <2>11 DEF BusyMeansWaiting
<1> QED BY <1>1, TeamInvariant, PTL

\* However the dialogs are left, opened and filled meanwhile, no member, batch, team,
\* assignment, registration, account or decision is under way twice, and no approval
\* is decided twice, with any of them.
THEOREM NoTeamPageSubmitsTwice == Spec => []NoDoubleSubmit
<1>1. TeamInv => NoDoubleSubmit
  <2> SUFFICES ASSUME TeamInv PROVE NoDoubleSubmit
    OBVIOUS
  <2>1. route = "members" => MembersNoDoubleSubmit
    BY DEF TeamInv, MembersInv, Kept, MembersNoDoubleSubmit
  <2>2. route = "nodes" => NodesNoDoubleSubmit
    BY NodesWait DEF TeamInv
  <2>3. route = "system" => SystemNoDoubleSubmit
    BY DEF TeamInv, SystemInv, UsersKept, SystemNoDoubleSubmit
  <2>4. route = "approvals" => ApprovalsNoDoubleSubmit /\ DecidedOnce
    BY ApprovalsDecide DEF TeamInv
  <2> QED BY <2>1, <2>2, <2>3, <2>4 DEF NoDoubleSubmit
<1> QED BY <1>1, TeamInvariant, PTL
=============================================================================
