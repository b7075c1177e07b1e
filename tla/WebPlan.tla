------------------------------ MODULE WebPlan ------------------------------
(***************************************************************************)
(* A tab on the pages on which work is planned and followed: the task map  *)
(* with its canvas, the roadmap with the project data, its list and its    *)
(* views, the runs with their flows and steps, the dashboard, the panel of  *)
(* the terminal in which an agent works, the skills and the plugins.       *)
(*                                                                         *)
(* The router mounts one page (routes of src/web/src); each module EXTENDed *)
(* here has the page it is named for, and the part of the backend it talks *)
(* to.  WebTeam has the other pages.                                       *)
(***************************************************************************)
EXTENDS TaskMapPage, TaskCanvas, RoadmapPage, RoadmapViews, RunsPage,
        DashboardPage, TerminalPanel, SkillsPage, PluginsPage

\* What the backend holds when a page is mounted; the default is nothing.
CONSTANTS FirstFlows,     \* of the run that is opened
          FirstFleet      \* what the dashboard shows

ASSUME FirstFlowsAssumption ==
  \A s \in FirstFlows : DOMAIN s \subseteq Flows /\ \A f \in DOMAIN s : s[f] \in Seq(Steps)
ASSUME FirstFleetAssumption == FirstFleet \in Fleets

Init == route = "none" /\ page = Nil /\ server = Nil /\ wire = EmptyBag

OpenPage ==
  \/ TaskMapMounted(<<>>)
  \/ CanvasMounted
  \/ RoadmapMounted
  \/ TasksMounted
  \/ ViewsMounted
  \/ \E f \in Listings : RunsMounted(f)
  \/ \E s \in FirstFlows : DetailMounted(s)
  \/ DashboardMounted(FirstFleet)
  \/ \E t \in Sessions : TerminalMounted(t)
  \/ \E c \in SUBSET Skills, b \in Bindings : AssignmentsMounted(c, b)
  \/ \E b \in SUBSET Pairs : ImportMounted(b)
  \/ \E D \in SUBSET Definitions : LibraryMounted(D)
  \/ PluginsMounted(<<>>)

Next ==
  \/ route = "none" /\ OpenPage
  \/ route = "taskmap" /\ TaskMapNext
  \/ route = "canvas" /\ CanvasNext
  \/ route = "roadmap" /\ RoadmapNext
  \/ route = "tasks" /\ TasksNext
  \/ route = "views" /\ ViewsNext
  \/ route = "runs" /\ RunsNext
  \/ route = "run" /\ DetailNext
  \/ route = "dashboard" /\ DashboardNext
  \/ route = "terminal" /\ TerminalNext
  \/ route = "assignments" /\ AssignmentsNext
  \/ route = "import" /\ ImportNext
  \/ route = "library" /\ LibraryNext
  \/ route = "plugins" /\ PluginsNext

Spec == Init /\ [][Next]_tab

-----------------------------------------------------------------------------
\* The cells of each page keep their types, and the open requests their bound.
TypeOK ==
  /\ BagCardinality(wire) <= IF route = "dashboard" THEN MaxLoads ELSE MaxOpen
  /\ CASE route = "taskmap"     -> page \in TaskMapState
       [] route = "canvas"      -> page \in CanvasState
       [] route = "roadmap"     -> page \in RoadmapState
       [] route = "tasks"       -> page \in TasksState
       [] route = "views"       -> page \in ViewsState
       [] route = "runs"        -> page \in RunsState
       [] route = "run"         -> page \in DetailState
       [] route = "dashboard"   -> page \in DashboardState
       [] route = "terminal"    -> page \in TerminalState
       [] route = "assignments" -> page \in AssignmentsState
       [] route = "import"      -> page \in ImportState
       [] route = "library"     -> page \in LibraryState
       [] route = "plugins"     -> page \in PluginsState
       [] route = "none"        -> page = Nil
       [] route = "left"        ->
            page[1] \in {"ledger", "members", "nodes", "taskmap", "approvals", "terminal"}

\* A spinner or a disabled control is never left over: while a page shows one,
\* the request it stands for is open, although one cell serves several handlers
\* (controlBusy, TaskMapPage.tsx), two panels load and save at once (store.ts of
\* the roadmap), terminals, tabs and dialogs are left with a request under way,
\* and answers come in any order or not at all.
BusyMeansWaiting ==
  CASE route = "taskmap"     -> TaskMapBusyMeansWaiting
    [] route = "roadmap"     -> RoadmapBusyMeansWaiting
    [] route = "runs"        -> RunsBusyMeansWaiting
    [] route = "run"         -> DetailBusyMeansWaiting
    [] route = "dashboard"   -> DashboardBusyMeansWaiting
    [] route = "terminal"    -> TerminalBusyMeansWaiting
    [] route = "assignments" -> AssignmentsBusyMeansWaiting
    [] route = "import"      -> ImportBusyMeansWaiting
    [] route = "library"     -> LibraryBusyMeansWaiting
    [] route = "plugins"     -> PluginsBusyMeansWaiting
    [] OTHER                 -> TRUE

\* The dialogs of runs, flows, steps and skills, and the import, have one request
\* under way at most (NewRunDialog, AddFlowDialog and AddStepDialog of RunsPage.tsx,
\* SkillsPage.tsx), however they are left, closed, opened and filled meanwhile.
NoDoubleSubmit ==
  CASE route = "runs"    -> RunsNoDoubleSubmit
    [] route = "run"     -> DetailNoDoubleSubmit
    [] route = "import"  -> ImportNoDoubleSubmit
    [] route = "library" -> LibraryNoDoubleSubmit
    [] OTHER             -> TRUE

\* Cells that several handlers write, and that belong together, agree after any
\* sequence of edits, answers and failures: the edges, nodes and scope of the
\* canvas (TaskMapPage.tsx), the list, map and board of the roadmap and the order
\* of its draft (features/roadmap-project-data), the steps below a flow, the
\* skill that is selected, and the figures of the dashboard.
CellsAgree ==
  /\ EdgesConnect /\ OneNodePerTask /\ ScopeHolds
  /\ DraftInOrder /\ ViewsAgree
  /\ StepsShownExist /\ SelectedExists /\ FiguresAgree
=============================================================================
