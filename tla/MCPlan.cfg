\* Every page of WebPlan, mounted in turn.
CONSTANTS
  Nil = Nil
  MaxOpen = 2
  \* TaskMapPage
  NoHost = NoHost
  Hosts = {"h1"}
  Works = {"t1"}
  \* TaskCanvas
  CanvasTasks = 1
  MaxSteps = 1
  MaxLocal = 1
  MaxDrawn = 1
  Mentions <- OneMention
  \* RoadmapPage, RoadmapViews
  MaxWrites = 2
  TaskIds = {1, 2, 3}
  MaxNumber = 4
  MaxTasks = 3
  Columns = {"todo", "done"}
  \* RunsPage
  Runs = {"x1"}
  Flows = {"w1", "w2"}
  Steps = {"s1", "s2"}
  FirstFlows <- NoSteps
  \* DashboardPage
  Agents = {"a1"}
  FleetNodes = {"n1"}
  Reports <- TwoReports
  NoReport <- Unreported
  MaxLoads = 3
  FirstFleet <- OneNodeOnline
  \* TerminalPanel
  Sessions = {"k1", "k2"}
  Talking = {"k1"}
  MaxOut = 2
  MaxInbox = 2
  \* SkillsPage
  Assistants = {"p1", "p2"}
  FirstAssistant = "p1"
  Skills = {"k1"}
  Files = {"f1", "f2"}
  Pairs <- ThreePairs
  Unknown <- UnknownPairs
  Content <- TwoFiles
  Definitions = {"d1", "d2"}
  \* PluginsPage
  Plugins = {"g1", "g2"}
SPECIFICATION Spec
INVARIANTS
  TypeOK
  BusyMeansWaiting
  NoDoubleSubmit
  WaitingTasksUnheld
  SaveReplacesItsBase
  DeltasFollowOn
  CellsAgree
PROPERTY
  MapAddsNoCycle
CHECK_DEADLOCK FALSE
