\* Every page of WebTeam, mounted in turn.
CONSTANTS
  Nil = Nil
  MaxOpen = 2
  \* Conversations, ChatPage, ChatComposer, ChatStore
  Convs = {"c1", "c2"}
  FirstConv = "c1"
  Msgs = {g1, g2}
  MaxEvents = 1
  Files = {"f1", "f2"}
  MaxCandidates = 2
  MaxMessages = 1
  \* ChatSidebar, TabNotices
  Rooms = {"r1", "r2", "r3", "r4"}
  RoomOf <- FourRooms
  FirstRooms <- ThreeOfThem
  MaxPosts = 1
  MaxPreviewItems = 2
  MaxClock = 2
  Toasts = {"n1", "n2"}
  \* TerminalSessions
  Members = {"m1"}
  MaxSessions = 2
  \* RealtimeSocket
  SocketIds = {"w1", "w2", "w3"}
  Pathnames = {"/chat", "/roadmap"}
  MaxSockets = 3
  MaxPublished = 3
  ReplayCapacity = 2
  \* MembersPage, TeamRoster, NodesPage
  Ids = {"a1", "a2"}
  Teams = {"t0", "t1"}
  DefaultTeam = "t0"
  RosterRoles = {"assistant", "guest"}
  MaxListed = 2
  MaxCalls = 3
  FirstRows <- OneAssistant
  FirstTeams <- TwoTeams
  Nodes = {"n1"}
  Agents = {b1, b2}
  Capacity = 1
  \* NamespacesPage, SystemPage, SettingsPage
  Namespaces = {"n1"}
  NamespaceFilters = {"all", "archived"}
  FirstNamespaces <- OneActive
  Users = {"u1"}
  Roles = {"member"}
  Scopes = {"g1", "g2"}
  FirstScope = "g1"
  Keys = {"k1"}
  FirstAccounts <- NoAccount
  Sections = {"profile", "notices"}
  Values = {0, 1}
  Default = 0
  Omitted <- SoundsOff
  Providers = {"p1", "p2"}
  MaxSaves = 2
  FirstSettings <- NoneOrTwoKeys
  \* LedgerPage, ApprovalsPage, SignIn
  LogMembers = {"m1", "m2"}
  LogTeams = {"t1", "t2"}
  TeamOf <- TeamOfMember
  MaxLog = 1
  Requests = {"q1", "q2", "q3"}
  HighRisk = {"q1"}
  FirstStatus <- TwoOpen
  Accounts = {"a1", "a2"}
  SessionRoles = {"owner", "member"}
  Paths = {"dashboard", "system"}
  FirstRoles <- AllOwners
SPECIFICATION Spec
INVARIANTS
  TypeOK
  BusyMeansWaiting
  NoDoubleSubmit
  ChatShowsOnce
  SocketKept
  InviteComplete
  SaveChangesItsOwn
  CellsAgree
  ListsShownWhole
SYMMETRY Symmetry
CHECK_DEADLOCK FALSE
