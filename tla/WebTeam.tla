------------------------------ MODULE WebTeam ------------------------------
(***************************************************************************)
(* A tab on the pages of the people, agents and machines: the chat with    *)
(* its list, its composer and its store, the sessions of the terminals,    *)
(* the members with their teams and the nodes, and what is administered:   *)
(* namespaces, accounts and memory, settings, the audit log, approvals and *)
(* the session itself; and, behind every page, the websocket and the       *)
(* notices.                                                                *)
(*                                                                         *)
(* Each module EXTENDed here has the page it is named for, and the part of *)
(* the backend it talks to.  WebPlan has the other pages.                  *)
(***************************************************************************)
EXTENDS ChatPage, ChatComposer, ChatStore, ChatSidebar, TerminalSessions,
        RealtimeSocket, TabNotices, MembersPage, TeamRoster, NodesPage, NamespacesPage, SystemPage,
        SettingsPage, LedgerPage, ApprovalsPage, SignIn

\* What the backend holds when a page is mounted; the default is nothing.
CONSTANTS FirstRooms,        \* the conversations of the workspace
          FirstRows,         \* the members of the roster,
          FirstTeams,        \* and its teams
          FirstAccounts,     \* the accounts of the system page
          FirstNamespaces,
          FirstSettings,     \* the settings of the member
          FirstRoles         \* the accounts that may sign in

ASSUME FirstRoomsAssumption == FirstRooms \in Seq(Rooms) /\ IsInjective(FirstRooms)
ASSUME FirstSettingsAssumption == FirstSettings \subseteq Settings
ASSUME FirstRolesAssumption == FirstRoles \in [Accounts -> SessionRoles \cup {Nil}]

\* A roster that no change has been made to has every member in a team.
ASSUME FirstTeamsAssumption ==
  /\ FirstRows \in Seq(RosterRow)
  /\ FirstTeams \in Seq([team : Teams, members : Seq(Ids)])
  /\ Unplaced(FirstRows, FirstTeams) = {}

Init == route = "none" /\ page = Nil /\ server = Nil /\ wire = EmptyBag

OpenPage ==
  \/ ChatMounted
  \/ \E c \in Convs : ComposerMounted(c)
  \/ StoreMounted(<<>>)
  \/ SidebarMounted(FirstRooms)
  \/ SessionsMounted(<<>>)
  \/ \E p \in Pathnames, id \in SocketIds : SocketMounted(p, id)
  \/ \E keys \in SUBSET KeyOwners, known \in BOOLEAN, d \in Dialogs :
       MembersMounted(keys, known, d)
  \/ TeamRosterMounted(FirstRows, FirstTeams)
  \/ NoticesMounted
  \/ \E f \in Fleets : NodesMounted(f)
  \/ NamespacesMounted(FirstNamespaces)
  \/ \E owner \in BOOLEAN, a \in FirstAccounts : SystemMounted(owner, a)
  \/ \E s \in FirstSettings : SettingsMounted(s)
  \/ LedgerMounted(<<>>)
  \/ \E b \in BOOLEAN : ApprovalsMounted(b)
  \/ \E a \in Accounts : SignInMounted(FirstRoles, a)

Next ==
  \/ route = "none" /\ OpenPage
  \/ route = "chat" /\ ChatNext
  \/ route = "composer" /\ ComposerNext
  \/ route = "store" /\ StoreNext
  \/ route = "sidebar" /\ SidebarNext
  \/ route = "sessions" /\ SessionsNext
  \/ route = "socket" /\ SocketNext
  \/ route = "members" /\ MembersNext
  \/ route = "roster" /\ TeamRosterNext
  \/ route = "notices" /\ NoticesNext
  \/ route = "nodes" /\ NodesNext
  \/ route = "namespaces" /\ NamespacesNext
  \/ route = "system" /\ SystemNext
  \/ route = "settings" /\ SettingsNext
  \/ route = "ledger" /\ LedgerNext
  \/ route = "approvals" /\ ApprovalsNext
  \/ route = "signin" /\ SignInNext

Spec == Init /\ [][Next]_tab

-----------------------------------------------------------------------------
\* The cells of each page keep their types, and the open requests their bound.
TypeOK ==
  /\ BagCardinality(wire) <= IF route = "socket" THEN MaxSockets ELSE MaxOpen
  /\ CASE route = "chat"       -> page \in ChatState
       [] route = "composer"   -> page \in ComposerState
       [] route = "store"      -> page \in StoreState
       [] route = "sidebar"    -> page \in SidebarState
       [] route = "sessions"   -> page \in SessionsState
       [] route = "socket"     -> page \in SocketState
       [] route = "members"    -> page \in MembersState
       [] route = "roster"     -> page \in TeamRosterState
       [] route = "notices"    -> page \in NoticesState
       [] route = "nodes"      -> page \in NodesState
       [] route = "namespaces" -> page \in NamespacesState
       [] route = "system"     -> page \in SystemState
       [] route = "settings"   -> page \in SettingsState
       [] route = "ledger"     -> page \in LedgerState
       [] route = "approvals"  -> page \in ApprovalsState
       [] route = "signin"     -> page \in SignInState
       [] OTHER                -> page = Nil

\* A spinner or a disabled control is never left over: while a page shows one,
\* the request it stands for is open, although cells are shared by handlers that
\* overlap (acting of NamespacesPage.tsx, closing of TerminalPage.tsx, the flag
\* of chat-store.ts), a conversation or a dialog is left meanwhile,
\* and answers come in any order or not at all.
BusyMeansWaiting ==
  CASE route = "chat"       -> ChatBusyMeansWaiting
    [] route = "store"      -> StoreBusyMeansWaiting
    [] route = "sessions"   -> SessionsBusyMeansWaiting
    [] route = "members"    -> MembersBusyMeansWaiting
    [] route = "nodes"      -> NodesBusyMeansWaiting
    [] route = "namespaces" -> NamespacesBusyMeansWaiting
    [] route = "system"     -> SystemBusyMeansWaiting
    [] route = "settings"   -> SettingsBusyMeansWaiting
    [] route = "ledger"     -> LedgerBusyMeansWaiting
    [] route = "approvals"  -> ApprovalsBusyMeansWaiting
    [] route = "signin"     -> SignInBusyMeansWaiting
    [] OTHER                -> TRUE

\* No member, batch of assistants, team, assignment, registration, account or
\* decision is submitted a second time while it is under way (MembersPage.tsx,
\* NodesPage.tsx, SystemPage.tsx, ApprovalsPage.tsx), also across dialogs that
\* are closed and opened again; and while the server runs, no approval is decided
\* twice, and what is decided is in its audit log.
NoDoubleSubmit ==
  CASE route = "members"   -> MembersNoDoubleSubmit
    [] route = "nodes"     -> NodesNoDoubleSubmit
    [] route = "system"    -> SystemNoDoubleSubmit
    [] route = "approvals" -> ApprovalsNoDoubleSubmit /\ DecidedOnce
    [] OTHER               -> TRUE

\* Behind every page the tab keeps one connection: one socket that is not closed,
\* the one it would send on and close next, or a timer that opens one.
SocketKept == OneLiveSocket /\ NeverGivesUp

\* Cells and rows that several handlers write, and that belong together, agree after
\* any sequence of edits, answers and failures: the attachments and the highlighted
\* entry of the composer and the conversations beside it (ChatPage.tsx), the notices
\* and the toasts of the shell (notification-store.ts, AppProviders.tsx), the members
\* and the teams of the backend (roster.go), the team and the member of the audit log
\* (LedgerPage.tsx), and the session of the tab and of localStorage.
CellsAgree ==
  /\ AttachedOnce /\ PickExists
  /\ ListedOnce
  /\ LatestNoticed /\ ToastsEnd
  /\ MemberPlaced
  /\ MemberOfTeam /\ SessionStored

\* The views of one list show all of it, as often as the list has it, and the same
\* figures: the members and figures shown under the teams (member-page-model.ts), the
\* shells, each once, and the members without (TerminalPage.tsx), and the header, the
\* rows and the dialogs of the fleet (NodesPage.tsx).
ListsShownWhole ==
  /\ MetricsAddUp /\ ViewsShowAll /\ ShellsListedOnce
  /\ FleetShownAlike
=============================================================================
