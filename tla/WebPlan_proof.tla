---------------------------- MODULE WebPlan_proof ----------------------------
(***************************************************************************)
(* The pages of WebPlan, for any tasks, nodes, documents and statuses.     *)
(* Each part has the invariant of one page and shows that its mounting     *)
(* starts it and its steps keep it; what another page does is told apart   *)
(* by the route.  The theorems are at the end.                             *)
(***************************************************************************)
EXTENDS WebPlan, WebTab_proof

-----------------------------------------------------------------------------
(***************************************************************************)
(* Routes.  Only the links of the dashboard lead away from a page.         *)
(***************************************************************************)
LEMMA TaskMapRoute == ASSUME TaskMapNext PROVE route' = route
BY DEF TaskMapNext, TaskMapUser, ConfirmDelete, EraseTaskNode, RunTask,
       AssignTaskAgent, SelectHost, FinishTask, SelectScope, AddNode, Control,
       Keep, PollQueue, RoadmapLoaded, TaskMapBackend, CallReads, CallWrites,
       ServeTaskMap, OutsideCall, QueueLoaded, ControlAnswered

LEMMA CanvasRoute == ASSUME CanvasNext PROVE route' = route
BY DEF CanvasNext, CanvasUser, PollCanvas, ServeCanvas, CanvasLoaded,
       CloseNodeEditor, ConfirmDeleteNode, OutsideTask, OutsideStep,
       SelectRoadmapScope, OnConnect, OnReconnect, DeleteEdge, DuplicateNode,
       EraseNode, OpenNodeEditor, RequestDeleteNode, AddDecision, AddLocal,
       Edited

LEMMA RoadmapRoute == ASSUME RoadmapNext PROVE route' = route
BY DEF RoadmapNext, ClickReload, KeepDraft, DiscardAndReload, ClickSave,
       OthersWrite, Edit, AppendTask, StorageTurns, ServeRoadmap, RoadmapAnswer,
       BothLoaded, DocSaved

LEMMA TasksRoute == ASSUME TasksNext PROVE route' = route
BY DEF TasksNext, AddRoadmapTask, RemoveRoadmapTask, PinTask,
       ReorderRoadmapTask, SaveTasks, DraftBecomes

LEMMA ViewsRoute == ASSUME ViewsNext PROVE route' = route
BY DEF ViewsNext, ChangeView, ChangeFilter, AddTask, Select, AskDeleteTask,
       KeepTask, DeleteTask, ChangeStatus, ChangeDependencies, Shows

LEMMA RunsRoute == ASSUME RunsNext PROVE route' = route
BY DEF RunsNext, OpenNewRun, CloseNewRun, TypeNewRun, LoadRuns, SubmitRun,
       RunAdvances, ToggleExpand, ClickState, SetFilter, ServeRuns, RunsLoaded,
       RunsFailed, RunChanged, Edits

LEMMA DetailRoute == ASSUME DetailNext PROVE route' = route
BY DEF DetailNext, AddFlow, CloseFlowForm, CloseStepForm, SubmitFlow,
       SubmitStep, ToggleFlow, AddStep, ServeDetail, Refreshed, FlowCreated,
       FlowsLoaded, StepsLoaded, StepCreated, DetailEdits

LEMMA DashboardRoute == ASSUME DashboardNext PROVE route' \in {route, "left"}
BY DEF DashboardNext, RefreshDashboard, FleetMoves, FollowLink, ServeDashboard,
       StatsLoaded, RuntimeLoaded

LEMMA TerminalRoute == ASSUME TerminalNext PROVE route' = route
BY DEF TerminalNext, SelectSession, Produce, AttachAgain, ClickClear, SendInput,
       StatusEvent, HandleTerminalEvent, ServeStream, Resubscribe, Reconnected,
       ServeTerminal, TerminalAnswer, InputSent, AttachAnswered, ResyncAnswered

LEMMA AssignmentsRoute == ASSUME AssignmentsNext PROVE route' = route
BY DEF AssignmentsNext, SelectAssistant, SetDraft, LeaveTab, EnterTab,
       ClickReloadCatalog, LoadAssignments, ClickSaveSkills, DirectoryChanges,
       ServeAssignments, CatalogRescanned, CatalogLoaded, AssignmentsLoaded,
       SkillsSaved

LEMMA ImportRoute == ASSUME ImportNext PROVE route' = route
BY DEF ImportNext, PickFile, PickBadFile, CancelPreview, ApplyImport,
       SelectStrategy, ServeImport, Validated, ImportApplied

LEMMA LibraryRoute == ASSUME LibraryNext PROVE route' = route
BY DEF LibraryNext, SelectDefinition, TypeForm, NewDefinition, CancelForm,
       RetryDefs, SubmitForm, LeaveLibrary, EnterLibrary, ServeLibrary,
       DefinitionCreated, DefsLoaded, LibraryEdits

LEMMA PluginsRoute == ASSUME PluginsNext PROVE route' = route
BY DEF PluginsNext, Click, ServePlugins, PluginChanged, PluginsLoaded

\* A step after which a page is shown mounts it, is a step of it or changes nothing.
LEMMA PageStep ==
  ASSUME [Next]_tab, route' # "left"
  PROVE  \/ UNCHANGED tab
         \/ route = "none" /\ OpenPage
         \/ route' = route /\ route # "none" /\ Next
BY TaskMapRoute, CanvasRoute, RoadmapRoute, TasksRoute, ViewsRoute, RunsRoute, DetailRoute,
   DashboardRoute, TerminalRoute, AssignmentsRoute, ImportRoute, LibraryRoute, PluginsRoute DEF Next

LEMMA TaskMapStep ==
  ASSUME [Next]_tab, route' = "taskmap"
  PROVE  \/ UNCHANGED tab
         \/ route = "none" /\ TaskMapMounted(<<>>)
         \/ route = "taskmap" /\ TaskMapNext
<1>1. CASE route = "none" /\ OpenPage
  BY <1>1 DEF OpenPage, TaskMapMounted, CanvasMounted, RoadmapMounted, TasksMounted, ViewsMounted,
     RunsMounted, DetailMounted, DashboardMounted, TerminalMounted, AssignmentsMounted,
     ImportMounted, LibraryMounted, PluginsMounted, Mounting
<1>2. CASE route = "taskmap" /\ Next
  BY <1>2 DEF Next
<1> QED BY <1>1, <1>2, PageStep

LEMMA CanvasStep ==
  ASSUME [Next]_tab, route' = "canvas"
  PROVE  \/ UNCHANGED tab
         \/ route = "none" /\ CanvasMounted
         \/ route = "canvas" /\ CanvasNext
<1>1. CASE route = "none" /\ OpenPage
  BY <1>1 DEF OpenPage, TaskMapMounted, CanvasMounted, RoadmapMounted, TasksMounted, ViewsMounted,
     RunsMounted, DetailMounted, DashboardMounted, TerminalMounted, AssignmentsMounted,
     ImportMounted, LibraryMounted, PluginsMounted, Mounting
<1>2. CASE route = "canvas" /\ Next
  BY <1>2 DEF Next
<1> QED BY <1>1, <1>2, PageStep

LEMMA TasksStep ==
  ASSUME [Next]_tab, route' = "tasks"
  PROVE  \/ UNCHANGED tab
         \/ route = "none" /\ TasksMounted
         \/ route = "tasks" /\ TasksNext
<1>1. CASE route = "none" /\ OpenPage
  BY <1>1 DEF OpenPage, TaskMapMounted, CanvasMounted, RoadmapMounted, TasksMounted, ViewsMounted,
     RunsMounted, DetailMounted, DashboardMounted, TerminalMounted, AssignmentsMounted,
     ImportMounted, LibraryMounted, PluginsMounted, Mounting
<1>2. CASE route = "tasks" /\ Next
  BY <1>2 DEF Next
<1> QED BY <1>1, <1>2, PageStep

LEMMA RoadmapStep ==
  ASSUME [Next]_tab, route' = "roadmap"
  PROVE  \/ UNCHANGED tab
         \/ route = "none" /\ RoadmapMounted
         \/ route = "roadmap" /\ RoadmapNext
<1>1. CASE route = "none" /\ OpenPage
  BY <1>1 DEF OpenPage, TaskMapMounted, CanvasMounted, RoadmapMounted, TasksMounted, ViewsMounted,
     RunsMounted, DetailMounted, DashboardMounted, TerminalMounted, AssignmentsMounted,
     ImportMounted, LibraryMounted, PluginsMounted, Mounting
<1>2. CASE route = "roadmap" /\ Next
  BY <1>2 DEF Next
<1> QED BY <1>1, <1>2, PageStep

LEMMA ViewsStep ==
  ASSUME [Next]_tab, route' = "views"
  PROVE  \/ UNCHANGED tab
         \/ route = "none" /\ ViewsMounted
         \/ route = "views" /\ ViewsNext
<1>1. CASE route = "none" /\ OpenPage
  BY <1>1 DEF OpenPage, TaskMapMounted, CanvasMounted, RoadmapMounted, TasksMounted, ViewsMounted,
     RunsMounted, DetailMounted, DashboardMounted, TerminalMounted, AssignmentsMounted,
     ImportMounted, LibraryMounted, PluginsMounted, Mounting
<1>2. CASE route = "views" /\ Next
  BY <1>2 DEF Next
<1> QED BY <1>1, <1>2, PageStep

LEMMA RunsStep ==
  ASSUME [Next]_tab, route' = "runs"
  PROVE  \/ UNCHANGED tab
         \/ route = "none" /\ (\E f \in Listings : RunsMounted(f))
         \/ route = "runs" /\ RunsNext
<1>1. CASE route = "none" /\ OpenPage
  BY <1>1 DEF OpenPage, TaskMapMounted, CanvasMounted, RoadmapMounted, TasksMounted, ViewsMounted,
     RunsMounted, DetailMounted, DashboardMounted, TerminalMounted, AssignmentsMounted,
     ImportMounted, LibraryMounted, PluginsMounted, Mounting
<1>2. CASE route = "runs" /\ Next
  BY <1>2 DEF Next
<1> QED BY <1>1, <1>2, PageStep

LEMMA DetailStep ==
  ASSUME [Next]_tab, route' = "run"
  PROVE  \/ UNCHANGED tab
         \/ route = "none" /\ (\E s \in FirstFlows : DetailMounted(s))
         \/ route = "run" /\ DetailNext
<1>1. CASE route = "none" /\ OpenPage
  BY <1>1 DEF OpenPage, TaskMapMounted, CanvasMounted, RoadmapMounted, TasksMounted, ViewsMounted,
     RunsMounted, DetailMounted, DashboardMounted, TerminalMounted, AssignmentsMounted,
     ImportMounted, LibraryMounted, PluginsMounted, Mounting
<1>2. CASE route = "run" /\ Next
  BY <1>2 DEF Next
<1> QED BY <1>1, <1>2, PageStep

LEMMA DashboardStep ==
  ASSUME [Next]_tab, route' = "dashboard"
  PROVE  \/ UNCHANGED tab
         \/ route = "none" /\ DashboardMounted(FirstFleet)
         \/ route = "dashboard" /\ DashboardNext
<1>1. CASE route = "none" /\ OpenPage
  BY <1>1 DEF OpenPage, TaskMapMounted, CanvasMounted, RoadmapMounted, TasksMounted, ViewsMounted,
     RunsMounted, DetailMounted, DashboardMounted, TerminalMounted, AssignmentsMounted,
     ImportMounted, LibraryMounted, PluginsMounted, Mounting
<1>2. CASE route = "dashboard" /\ Next
  BY <1>2 DEF Next
<1> QED BY <1>1, <1>2, PageStep

LEMMA TerminalStep ==
  ASSUME [Next]_tab, route' = "terminal"
  PROVE  \/ UNCHANGED tab
         \/ route = "none" /\ (\E t \in Sessions : TerminalMounted(t))
         \/ route = "terminal" /\ TerminalNext
<1>1. CASE route = "none" /\ OpenPage
  BY <1>1 DEF OpenPage, TaskMapMounted, CanvasMounted, RoadmapMounted, TasksMounted, ViewsMounted,
     RunsMounted, DetailMounted, DashboardMounted, TerminalMounted, AssignmentsMounted,
     ImportMounted, LibraryMounted, PluginsMounted, Mounting
<1>2. CASE route = "terminal" /\ Next
  BY <1>2 DEF Next
<1> QED BY <1>1, <1>2, PageStep

LEMMA AssignmentsStep ==
  ASSUME [Next]_tab, route' = "assignments"
  PROVE  \/ UNCHANGED tab
         \/ route = "none" /\ (\E c \in SUBSET Skills, b \in Bindings : AssignmentsMounted(c, b))
         \/ route = "assignments" /\ AssignmentsNext
<1>1. CASE route = "none" /\ OpenPage
  BY <1>1 DEF OpenPage, TaskMapMounted, CanvasMounted, RoadmapMounted, TasksMounted, ViewsMounted,
     RunsMounted, DetailMounted, DashboardMounted, TerminalMounted, AssignmentsMounted,
     ImportMounted, LibraryMounted, PluginsMounted, Mounting
<1>2. CASE route = "assignments" /\ Next
  BY <1>2 DEF Next
<1> QED BY <1>1, <1>2, PageStep

LEMMA ImportStep ==
  ASSUME [Next]_tab, route' = "import"
  PROVE  \/ UNCHANGED tab
         \/ route = "none" /\ (\E b \in SUBSET Pairs : ImportMounted(b))
         \/ route = "import" /\ ImportNext
<1>1. CASE route = "none" /\ OpenPage
  BY <1>1 DEF OpenPage, TaskMapMounted, CanvasMounted, RoadmapMounted, TasksMounted, ViewsMounted,
     RunsMounted, DetailMounted, DashboardMounted, TerminalMounted, AssignmentsMounted,
     ImportMounted, LibraryMounted, PluginsMounted, Mounting
<1>2. CASE route = "import" /\ Next
  BY <1>2 DEF Next
<1> QED BY <1>1, <1>2, PageStep

LEMMA LibraryStep ==
  ASSUME [Next]_tab, route' = "library"
  PROVE  \/ UNCHANGED tab
         \/ route = "none" /\ (\E D \in SUBSET Definitions : LibraryMounted(D))
         \/ route = "library" /\ LibraryNext
<1>1. CASE route = "none" /\ OpenPage
  BY <1>1 DEF OpenPage, TaskMapMounted, CanvasMounted, RoadmapMounted, TasksMounted, ViewsMounted,
     RunsMounted, DetailMounted, DashboardMounted, TerminalMounted, AssignmentsMounted,
     ImportMounted, LibraryMounted, PluginsMounted, Mounting
<1>2. CASE route = "library" /\ Next
  BY <1>2 DEF Next
<1> QED BY <1>1, <1>2, PageStep

LEMMA PluginsStep ==
  ASSUME [Next]_tab, route' = "plugins"
  PROVE  \/ UNCHANGED tab
         \/ route = "none" /\ PluginsMounted(<<>>)
         \/ route = "plugins" /\ PluginsNext
<1>1. CASE route = "none" /\ OpenPage
  BY <1>1 DEF OpenPage, TaskMapMounted, CanvasMounted, RoadmapMounted, TasksMounted, ViewsMounted,
     RunsMounted, DetailMounted, DashboardMounted, TerminalMounted, AssignmentsMounted,
     ImportMounted, LibraryMounted, PluginsMounted, Mounting
<1>2. CASE route = "plugins" /\ Next
  BY <1>2 DEF Next
<1> QED BY <1>1, <1>2, PageStep

-----------------------------------------------------------------------------
(***************************************************************************)
(* The views of the roadmap.                                               *)
(***************************************************************************)
\* The tasks that x reaches.
Reach(x, tasks) == {y \in Ids : HasDependencyPath(x, y, tasks)}

\* What a task reaches is closed, and holds it.
LEMMA ReachClosed ==
  ASSUME NEW tasks \in [Ids -> RoadmapTask], NEW x \in Ids
  PROVE  /\ x \in Reach(x, tasks)
         /\ Closed(Reach(x, tasks), tasks)
<1>1. x \in Reach(x, tasks)
  BY DEF Reach, HasDependencyPath
<1>2. ASSUME NEW y \in Reach(x, tasks), NEW z \in tasks[y].dependencies
      PROVE  z \in Reach(x, tasks)
  <2>1. z \in Ids
    BY <1>2 DEF Reach, RoadmapTask
  <2>2. ASSUME NEW S \in SUBSET Ids, x \in S, Closed(S, tasks)
        PROVE  z \in S
    BY <1>2, <2>2 DEF Reach, HasDependencyPath, Closed
  <2> QED BY <2>1, <2>2 DEF Reach, HasDependencyPath
<1> QED BY <1>1, <1>2 DEF Closed

\* Who is reached reaches no more.
LEMMA ReachShrinks ==
  ASSUME NEW tasks \in [Ids -> RoadmapTask], NEW x \in Ids,
         NEW y \in Reach(x, tasks)
  PROVE  Reach(y, tasks) \subseteq Reach(x, tasks)
<1>1. Reach(x, tasks) \in SUBSET Ids /\ Closed(Reach(x, tasks), tasks)
  BY ReachClosed DEF Reach
<1> QED BY <1>1 DEF Reach, HasDependencyPath

\* Dropping dependencies closes no cycle.
LEMMA FewerDependencies ==
  ASSUME NEW old \in [Ids -> RoadmapTask], NEW new \in [Ids -> RoadmapTask],
         \A x \in Ids : new[x].dependencies \subseteq old[x].dependencies,
         Acyclic(old)
  PROVE  Acyclic(new)
<1>1. ASSUME NEW S \in SUBSET Ids, Closed(S, old)
      PROVE  Closed(S, new)
  BY <1>1 DEF Closed
<1>2. ASSUME NEW d \in Ids, NEW t \in Ids, HasDependencyPath(d, t, new)
      PROVE  HasDependencyPath(d, t, old)
  BY <1>1, <1>2 DEF HasDependencyPath
<1>3. \A t \in Ids : new[t].dependencies \subseteq Ids
  BY DEF RoadmapTask
<1> QED BY <1>2, <1>3 DEF Acyclic

\* Choosing tasks that do not reach t as the dependencies of t, however many at
\* once, closes no cycle.
LEMMA ChosenDependencies ==
  ASSUME NEW old \in [Ids -> RoadmapTask], NEW t \in Ids, NEW D \in SUBSET Ids,
         NEW new \in [Ids -> RoadmapTask],
         new[t].dependencies = D,
         \A x \in Ids \ {t} : new[x].dependencies = old[x].dependencies,
         Acyclic(old),
         \A d \in D : ~HasDependencyPath(d, t, old)
  PROVE  Acyclic(new)
<1>1. \A d \in D : t \notin Reach(d, old)
  BY DEF Reach
<1>2. ASSUME NEW S \in SUBSET Ids, Closed(S, old), t \notin S
      PROVE  Closed(S, new)
  BY <1>2 DEF Closed
<1> SUFFICES ASSUME NEW u \in Ids, NEW e \in new[u].dependencies,
                    HasDependencyPath(e, u, new)
             PROVE  FALSE
  BY DEF Acyclic
<1>3. e \in Ids
  BY DEF RoadmapTask
<1> DEFINE R == Reach(e, old)
<1>4. R \in SUBSET Ids /\ e \in R /\ Closed(R, old)
  BY <1>3, ReachClosed DEF Reach
<1>5. u \notin R
  <2>1. CASE u = t
    BY <1>1, <2>1
  <2>2. CASE u # t
    BY <2>2 DEF Acyclic, Reach
  <2> QED BY <2>1, <2>2
<1>6. CASE t \notin R
  <2>1. Closed(R, new)
    BY <1>2, <1>4, <1>6
  <2> QED BY <2>1, <1>4, <1>5 DEF HasDependencyPath
<1>7. CASE t \in R
  <2> DEFINE S == R \cup UNION {Reach(d, old) : d \in D}
  <2>1. S \in SUBSET Ids /\ e \in S
    BY <1>4 DEF Reach
  <2>2. D \subseteq S
    BY ReachClosed
  <2>3. ASSUME NEW x \in S, x # t
        PROVE  new[x].dependencies \subseteq S
    <3>1. new[x].dependencies = old[x].dependencies
      BY <2>1, <2>3
    <3>2. CASE x \in R
      BY <3>1, <3>2, <1>4 DEF Closed
    <3>3. ASSUME NEW d \in D, x \in Reach(d, old)
          PROVE  old[x].dependencies \subseteq Reach(d, old)
      BY <3>3, ReachClosed DEF Closed
    <3> QED BY <3>1, <3>2, <3>3
  <2>4. Closed(S, new)
    BY <2>2, <2>3 DEF Closed
  <2>5. u \in S
    BY <2>1, <2>4 DEF HasDependencyPath
  <2>6. PICK d \in D : u \in Reach(d, old)
    BY <2>5, <1>5
  <2>7. u # t
    BY <2>6, <1>1
  <2>8. e \in Reach(d, old)
    <3>1. Closed(Reach(d, old), old)
      BY ReachClosed
    <3>2. e \in old[u].dependencies
      BY <2>7
    <3> QED BY <3>1, <3>2, <2>6 DEF Closed
  <2>9. R \subseteq Reach(d, old)
    BY <2>8, ReachShrinks
  <2> QED BY <2>9, <1>7, <1>1
<1> QED BY <1>6, <1>7

-----------------------------------------------------------------------------
\* The type of a page, whichever task is selected.
Typed(p) ==
  p \in [ viewMode : {"map", "list", "kanban"},
          statusFilter : Columns \cup {"all"},
          existing : SUBSET Ids,
          tasks : [Ids -> RoadmapTask],
          added : 0..MaxTasks,
          selectedTaskId : {p.selectedTaskId},
          confirming : SUBSET Ids ]

\* Drawing a page leaves the tasks alone.
LEMMA RenderedType ==
  ASSUME NEW p, Typed(p)
  PROVE  /\ Typed(Rendered(p))
         /\ Rendered(p).tasks = p.tasks
<1> DEFINE chosen == IF p.viewMode # "map" \/ Filtered(p) = {} THEN Nil
                     ELSE IF p.selectedTaskId \in Filtered(p) THEN p.selectedTaskId
                     ELSE Min(Filtered(p))
           asked == IF p.viewMode = "list" THEN p.confirming \cap Filtered(p) ELSE {}
<1>1. Rendered(p) = [p EXCEPT !.confirming = asked, !.selectedTaskId = chosen]
  BY DEF Rendered
<1>2. asked \in SUBSET Ids
  BY DEF Typed
<1> HIDE DEF chosen, asked
<1> QED BY <1>1, <1>2 DEF Typed

\* What each edit makes of the page, before it is drawn.
LEMMA EditType ==
  ASSUME ViewsConstants, Typed(page)
  PROVE  /\ \A v \in {"map", "list", "kanban"} :
              LET p == [page EXCEPT !.viewMode = v]
              IN Typed(p) /\ p.tasks = page.tasks
         /\ \A f \in Columns \cup {"all"} :
              LET p == [page EXCEPT !.statusFilter = f]
              IN Typed(p) /\ p.tasks = page.tasks
         /\ \A t \in Ids :
              LET p == [page EXCEPT !.selectedTaskId = t]
              IN Typed(p) /\ p.tasks = page.tasks
         /\ \A C \in SUBSET Ids :
              LET p == [page EXCEPT !.confirming = C]
              IN Typed(p) /\ p.tasks = page.tasks
         /\ page.added < MaxTasks =>
              LET p == [page EXCEPT !.added = @ + 1,
                                    !.existing = @ \cup {page.added + 1}]
              IN Typed(p) /\ p.tasks = page.tasks
         /\ \A t \in Ids :
              LET p == [page EXCEPT !.existing = @ \ {t}, !.tasks[t] = NewTask]
              IN Typed(p) /\ p.tasks = [page.tasks EXCEPT ![t] = NewTask]
         /\ \A t \in Ids, s \in Columns :
              LET p == [page EXCEPT !.tasks[t].status = s]
              IN Typed(p) /\ p.tasks = [page.tasks EXCEPT ![t].status = s]
         /\ \A t \in Ids, D \in SUBSET Ids :
              LET p == [page EXCEPT !.tasks[t].dependencies = D]
              IN Typed(p) /\ p.tasks = [page.tasks EXCEPT ![t].dependencies = D]
<1>1. page.added < MaxTasks => page.added + 1 \in 0..MaxTasks /\ page.added + 1 \in Ids
  BY DEF ViewsConstants, Typed, Ids
<1>2. page.tasks \in [Ids -> RoadmapTask] /\ NewTask \in RoadmapTask
  BY DEF ViewsConstants, Typed, RoadmapTask, NewTask
<1>3. \A t \in Ids : [page.tasks EXCEPT ![t] = NewTask] \in [Ids -> RoadmapTask]
  BY <1>2
<1>4. \A t \in Ids, s \in Columns :
        [page.tasks EXCEPT ![t].status = s] \in [Ids -> RoadmapTask]
  BY <1>2 DEF RoadmapTask
<1>5. \A t \in Ids, D \in SUBSET Ids :
        [page.tasks EXCEPT ![t].dependencies = D] \in [Ids -> RoadmapTask]
  BY <1>2 DEF RoadmapTask
<1> HIDE DEF RoadmapTask
<1>6. page.added < MaxTasks =>
        LET p == [page EXCEPT !.added = @ + 1, !.existing = @ \cup {page.added + 1}]
        IN Typed(p) /\ p.tasks = page.tasks
  BY <1>1 DEF Typed
<1>7. ASSUME NEW t \in Ids
      PROVE  LET p == [page EXCEPT !.existing = @ \ {t}, !.tasks[t] = NewTask]
             IN Typed(p) /\ p.tasks = [page.tasks EXCEPT ![t] = NewTask]
  BY <1>3 DEF Typed
<1>8. ASSUME NEW t \in Ids, NEW s \in Columns
      PROVE  LET p == [page EXCEPT !.tasks[t].status = s]
             IN Typed(p) /\ p.tasks = [page.tasks EXCEPT ![t].status = s]
  BY <1>4 DEF Typed
<1>9. ASSUME NEW t \in Ids, NEW D \in SUBSET Ids
      PROVE  LET p == [page EXCEPT !.tasks[t].dependencies = D]
             IN Typed(p) /\ p.tasks = [page.tasks EXCEPT ![t].dependencies = D]
  BY <1>5 DEF Typed
<1>10. \A v \in {"map", "list", "kanban"} :
         LET p == [page EXCEPT !.viewMode = v]
         IN Typed(p) /\ p.tasks = page.tasks
  BY DEF Typed
<1>11. \A f \in Columns \cup {"all"} :
         LET p == [page EXCEPT !.statusFilter = f]
         IN Typed(p) /\ p.tasks = page.tasks
  BY DEF Typed
<1>12. \A t \in Ids :
         LET p == [page EXCEPT !.selectedTaskId = t]
         IN Typed(p) /\ p.tasks = page.tasks
  BY DEF Typed
<1>13. \A C \in SUBSET Ids :
         LET p == [page EXCEPT !.confirming = C]
         IN Typed(p) /\ p.tasks = page.tasks
  BY DEF Typed
<1> QED BY <1>6, <1>7, <1>8, <1>9, <1>10, <1>11, <1>12, <1>13

\* A step either leaves the tasks alone, or resets, sets the status of, or sets
\* the dependencies of one of them.
LEMMA ViewsKept ==
  ASSUME ViewsConstants, Typed(page), ViewsNext
  PROVE  /\ Typed(page')
         /\ \/ page'.tasks = page.tasks
            \/ \E t \in Ids : page'.tasks = [page.tasks EXCEPT ![t] = NewTask]
            \/ \E t \in Ids, s \in Columns :
                 page'.tasks = [page.tasks EXCEPT ![t].status = s]
            \/ \E t \in Ids, D \in SUBSET Ids :
                 /\ D \subseteq DependencyOptions(t)
                 /\ page'.tasks = [page.tasks EXCEPT ![t].dependencies = D]
<1>0. page.confirming \in SUBSET Ids
  BY DEF Typed
<1> USE RenderedType, EditType
<1>1. ASSUME NEW v \in {"map", "list", "kanban"}, ChangeView(v)
      PROVE  Typed(page') /\ page'.tasks = page.tasks
  BY <1>1 DEF ChangeView, Shows
<1>2. ASSUME NEW f \in Columns \cup {"all"}, ChangeFilter(f)
      PROVE  Typed(page') /\ page'.tasks = page.tasks
  BY <1>2 DEF ChangeFilter, Shows
<1>3. CASE AddTask
  BY <1>3 DEF AddTask, Shows
<1>4. ASSUME NEW t \in Ids, Select(t) \/ AskDeleteTask(t) \/ KeepTask(t)
      PROVE  Typed(page') /\ page'.tasks = page.tasks
  <2>1. CASE Select(t)
    BY <2>1 DEF Select, Shows
  <2>2. page.confirming \cup {t} \in SUBSET Ids /\ page.confirming \ {t} \in SUBSET Ids
    BY <1>0
  <2>3. CASE AskDeleteTask(t)
    BY <2>2, <2>3 DEF AskDeleteTask, Shows
  <2>4. CASE KeepTask(t)
    BY <2>2, <2>4 DEF KeepTask, Shows
  <2> QED BY <1>4, <2>1, <2>3, <2>4
<1>5. ASSUME NEW t \in Ids, DeleteTask(t)
      PROVE  Typed(page') /\ page'.tasks = [page.tasks EXCEPT ![t] = NewTask]
  BY <1>5 DEF DeleteTask, Shows, Existing
<1>6. ASSUME NEW t \in Ids, NEW s \in Columns, ChangeStatus(t, s)
      PROVE  Typed(page') /\ page'.tasks = [page.tasks EXCEPT ![t].status = s]
  <2> DEFINE p == [page EXCEPT !.tasks[t].status = s]
  <2>1. Typed(p) /\ p.tasks = [page.tasks EXCEPT ![t].status = s]
    OBVIOUS
  <2>2. page' = Rendered(p)
    BY <1>6 DEF ChangeStatus, Shows
  <2> HIDE DEF p
  <2> QED BY <2>1, <2>2
<1>7. ASSUME NEW t \in Ids, NEW D \in SUBSET Ids, ChangeDependencies(t, D)
      PROVE  /\ Typed(page')
             /\ D \subseteq DependencyOptions(t)
             /\ page'.tasks = [page.tasks EXCEPT ![t].dependencies = D]
  BY <1>7 DEF ChangeDependencies, Shows
<1> HIDE RenderedType, EditType
<1>8. \/ \E v \in {"map", "list", "kanban"} : ChangeView(v)
      \/ \E f \in Columns \cup {"all"} : ChangeFilter(f)
      \/ AddTask
      \/ \E t \in Ids : Select(t) \/ AskDeleteTask(t) \/ KeepTask(t)
      \/ \E t \in Ids : DeleteTask(t)
      \/ \E t \in Ids, s \in Columns : ChangeStatus(t, s)
      \/ \E t \in Ids, D \in SUBSET Ids : ChangeDependencies(t, D)
  BY DEF ViewsNext
<1>9. Typed(page')
  BY <1>1, <1>2, <1>3, <1>4, <1>5, <1>6, <1>7, <1>8
<1>10. CASE \/ \E v \in {"map", "list", "kanban"} : ChangeView(v)
            \/ \E f \in Columns \cup {"all"} : ChangeFilter(f)
            \/ AddTask
            \/ \E t \in Ids : Select(t) \/ AskDeleteTask(t) \/ KeepTask(t)
  BY <1>1, <1>2, <1>3, <1>4, <1>9, <1>10
<1>11. CASE \E t \in Ids : DeleteTask(t)
  BY <1>5, <1>9, <1>11
<1>12. CASE \E t \in Ids, s \in Columns : ChangeStatus(t, s)
  BY <1>6, <1>9, <1>12
<1>13. CASE \E t \in Ids, D \in SUBSET Ids : ChangeDependencies(t, D)
  BY <1>7, <1>9, <1>13
<1> QED BY <1>8, <1>10, <1>11, <1>12, <1>13

\* One step in the map closes no cycle.
LEMMA MapStep ==
  ASSUME ViewsConstants, Typed(page), ViewsNext, page.viewMode = "map",
         Acyclic(page.tasks)
  PROVE  Acyclic(page'.tasks)
<1>1. page.tasks \in [Ids -> RoadmapTask] /\ page'.tasks \in [Ids -> RoadmapTask]
  BY ViewsKept DEF Typed
<1>2. CASE page'.tasks = page.tasks
  BY <1>2
<1>3. ASSUME NEW t \in Ids, page'.tasks = [page.tasks EXCEPT ![t] = NewTask]
      PROVE  Acyclic(page'.tasks)
  <2>1. \A x \in Ids : page'.tasks[x].dependencies \subseteq page.tasks[x].dependencies
    BY <1>1, <1>3 DEF NewTask
  <2> QED BY <1>1, <2>1, FewerDependencies
<1>4. ASSUME NEW t \in Ids, NEW s \in Columns,
             page'.tasks = [page.tasks EXCEPT ![t].status = s]
      PROVE  Acyclic(page'.tasks)
  <2>1. \A x \in Ids : page'.tasks[x].dependencies \subseteq page.tasks[x].dependencies
    BY <1>1, <1>4 DEF RoadmapTask
  <2> QED BY <1>1, <2>1, FewerDependencies
<1>5. ASSUME NEW t \in Ids, NEW D \in SUBSET Ids, D \subseteq DependencyOptions(t),
             page'.tasks = [page.tasks EXCEPT ![t].dependencies = D]
      PROVE  Acyclic(page'.tasks)
  <2>1. /\ page'.tasks[t].dependencies = D
        /\ \A x \in Ids \ {t} : page'.tasks[x].dependencies = page.tasks[x].dependencies
    BY <1>1, <1>5 DEF RoadmapTask
  <2>2. ASSUME NEW d \in D PROVE ~HasDependencyPath(d, t, page.tasks)
    <3>1. d \in Dependencies(t) \/ ~CreatesCycle(d, t, page.tasks)
      BY <1>5 DEF DependencyOptions
    <3> QED BY <3>1 DEF Dependencies, CreatesCycle, Acyclic
  <2> DEFINE old == page.tasks
             new == page'.tasks
  <2>3. /\ old \in [Ids -> RoadmapTask] /\ new \in [Ids -> RoadmapTask]
        /\ new[t].dependencies = D
        /\ \A x \in Ids \ {t} : new[x].dependencies = old[x].dependencies
        /\ Acyclic(old)
        /\ \A d \in D : ~HasDependencyPath(d, t, old)
    BY <1>1, <2>1, <2>2
  <2> HIDE DEF old, new
  <2>4. Acyclic(new)
    BY <2>3, ChosenDependencies
  <2> QED BY <2>4 DEF new
<1> QED BY <1>2, <1>3, <1>4, <1>5, ViewsKept

LEMMA ViewsStart ==
  ASSUME ViewsMounted
  PROVE  Typed(page')
BY ViewsAssumption DEF ViewsMounted, Mounting, Typed, NewTask, RoadmapTask, ViewsConstants

-----------------------------------------------------------------------------
(***************************************************************************)
(* The queue.                                                              *)
(***************************************************************************)

LEMMA QueueShape ==
  ASSUME NEW q
  PROVE  q \in Queues <=> DOMAIN q \subseteq Works /\ q \in [DOMAIN q -> Rows]
BY DEF Queues

\* A call that is let through by the row it read makes of it rows that are unheld if
\* they wait.
LEMMA WritesUnheld ==
  ASSUME NEW op \in Calls \cup {"timeout", "promote"}, NEW h \in Hosts \cup {NoHost},
         NEW t \in Rows, Unheld(t), Passes(op, h, t),
         NEW u \in After(op, h, t)
  PROVE  u \in Rows /\ Unheld(u)
<1> USE HostAssumption DEF Rows, Unheld, Statuses, Active, Waiting
<1>1. CASE op = "claim"
  BY <1>1 DEF After, Claimed
<1>2. CASE op = "start"
  <2>1. t.status = "claimed"
    BY <1>2 DEF Passes, CanTransitionTo, Successors
  <2> QED BY <1>2, <2>1 DEF After
<1>3. CASE op = "ack"
  <2>1. t.status = "running"
    BY <1>3 DEF Passes, CanTransitionTo, Successors
  <2> QED BY <1>3, <2>1 DEF After
<1>4. CASE op = "cancel"
  BY <1>4 DEF After
<1>5. CASE op = "promote"
  BY <1>5 DEF After, Passes
<1>6. CASE op \in {"nack", "timeout"}
  BY <1>6 DEF After, Nacked
<1> QED BY <1>1, <1>2, <1>3, <1>4, <1>5, <1>6 DEF Calls

-----------------------------------------------------------------------------
(* The requests that may be open.                                           *)

Hosted == Hosts \cup {NoHost}
Handlers == {"poll", "control"}
Loads == [op : {"list"}, stage : {"sent"}, handler : Handlers]
QueueListings == [op : {"list"}, stage : {"ok"}, handler : Handlers, queue : Queues]
Made == [op : {"create", "assign", "change"}, stage : {"sent", "ok"}]
Called == {r \in [op : Calls, stage : {"sent", "ok"}, task : Works, host : Hosted] :
             r.op \in {"claim", "start"} => r.host \in Hosts}
Half == {r \in [op : Calls, stage : {"read"}, task : Works, host : Hosted, row : Rows] :
           /\ r.op \in {"claim", "start"} => r.host \in Hosts
           /\ Unheld(r.row) /\ Passes(r.op, r.host, r.row)}
Asked == Loads \cup QueueListings \cup Made \cup Called \cup Half

MapPages == [ list : Queues, canvas : UNION {[S -> Hosted] : S \in SUBSET Works}, busy : BOOLEAN ]

PageKept ==
  /\ page \in MapPages
  /\ DOMAIN page.canvas \subseteq DOMAIN page.list

QueueKept ==
  /\ server \in [queue : Queues]
  /\ \A w \in DOMAIN server.queue : Unheld(server.queue[w])

\* Every row in the queue, and every row that a call has read, is unheld if it waits.
MapInv == PageKept /\ QueueKept /\ Open \subseteq Asked

-----------------------------------------------------------------------------
LEMMA MapMounted ==
  ASSUME TaskMapMounted(<<>>)
  PROVE  MapInv'
<1>1. <<>> \in Queues
  BY DEF Queues
<1>2. DOMAIN <<>> = {} /\ <<>> \in UNION {[S -> Hosted] : S \in SUBSET Works}
  OBVIOUS
<1>3. PageKept'
  <2>1. page' = [list |-> <<>>, canvas |-> <<>>, busy |-> FALSE]
    BY DEF TaskMapMounted, Mounting
  <2> QED BY <1>1, <1>2, <2>1 DEF PageKept, MapPages
<1>4. QueueKept'
  <2>1. server' = [queue |-> <<>>]
    BY DEF TaskMapMounted, Mounting
  <2> QED BY <1>1, <1>2, <2>1 DEF QueueKept
<1>5. Open' \subseteq Asked
  <2>2. Open' = {Load("poll")}
    BY MountOpens DEF TaskMapMounted
  <2>3. Load("poll") \in Loads
    BY DEF Load, Loads, Handlers
  <2> QED BY <2>2, <2>3 DEF Asked
<1> QED BY <1>3, <1>4, <1>5 DEF MapInv

\* Drawing the canvas anew keeps the page.
LEMMA RedrawnKept ==
  ASSUME PageKept, NEW q \in Queues
  PROVE  /\ RedrawnTasks(q) \in MapPages
         /\ DOMAIN RedrawnTasks(q).canvas = DOMAIN q
         /\ RedrawnTasks(q).list = q
         /\ RedrawnTasks(q).busy = page.busy
<1>1. DOMAIN q \subseteq Works /\ \A w \in DOMAIN q : q[w] \in Rows
  BY QueueShape
<1>2. [w \in DOMAIN q |-> q[w].host] \in [DOMAIN q -> Hosted]
  BY <1>1 DEF Rows, Hosted
<1>3. [w \in DOMAIN q |-> q[w].host] \in UNION {[S -> Hosted] : S \in SUBSET Works}
  BY <1>1, <1>2
<1> QED BY <1>2, <1>3 DEF RedrawnTasks, PageKept, MapPages

\* What the page offers starts no call but these.
LEMMA HostOfTask ==
  ASSUME PageKept, NEW w \in OnCanvas
  PROVE  /\ w \in Works /\ page.canvas[w] \in Hosted /\ Listed(w) \in Rows
         /\ HostsFor(w) \subseteq Hosts
<1>1. w \in Works /\ page.canvas[w] \in Hosted /\ w \in DOMAIN page.list
  BY DEF PageKept, MapPages, OnCanvas
<1>2. Listed(w) \in Rows
  BY <1>1, QueueShape DEF PageKept, MapPages, Listed
<1>3. Listed(w).host \in Hosted
  BY <1>2 DEF Rows, Hosted
<1> QED BY <1>1, <1>2, <1>3 DEF HostsFor, Hosted

-----------------------------------------------------------------------------
(* The steps.                                                               *)

\* What a handler may put on the wire first, with the page it leaves.
LEMMA ControlKept ==
  ASSUME MapInv, NEW x \in Asked, Control(x)
  PROVE  MapInv'
<1>1. PageKept'
  BY DEF Control, PageKept, MapPages, MapInv, MapPages
<1>2. QueueKept'
  BY DEF Control, QueueKept, MapInv
<1>3. Open' \subseteq Asked
  BY AskKept DEF Control, MapInv
<1> QED BY <1>1, <1>2, <1>3 DEF MapInv

\* A step of the page alone.
LEMMA MapEditKept ==
  ASSUME MapInv, NEW p, page' = p, Keep,
         p \in MapPages,
         DOMAIN p.canvas \subseteq DOMAIN p.list
  PROVE  MapInv'
<1>1. PageKept'
  BY DEF PageKept, MapPages
<1>2. QueueKept' /\ Open' \subseteq Asked
  BY DEF Keep, QueueKept, MapInv, Open
<1> QED BY <1>1, <1>2 DEF MapInv

\* A canvas of fewer nodes, or with another host for one of them.
LEMMA CanvasEdited ==
  ASSUME PageKept, NEW f, DOMAIN f \subseteq OnCanvas, f \in [DOMAIN f -> Hosted]
  PROVE  /\ [page EXCEPT !.canvas = f] \in MapPages
         /\ DOMAIN [page EXCEPT !.canvas = f].canvas \subseteq DOMAIN [page EXCEPT !.canvas = f].list
<1>1. DOMAIN f \subseteq Works
  BY DEF PageKept, MapPages, OnCanvas
<1>2. f \in UNION {[S -> Hosted] : S \in SUBSET Works}
  BY <1>1
<1> QED BY <1>2 DEF PageKept, MapPages, OnCanvas

LEMMA MapUserKept ==
  ASSUME MapInv, TaskMapUser
  PROVE  MapInv'
<1>0. PageKept /\ page \in MapPages /\ DOMAIN page.canvas \subseteq DOMAIN page.list
      /\ page.canvas \in [OnCanvas -> Hosted] /\ OnCanvas \subseteq Works
  BY DEF MapInv, PageKept, MapPages, OnCanvas
<1>2. ASSUME NEW w \in Works, EraseTaskNode(w) PROVE MapInv'
  <2> DEFINE f == Restrict(page.canvas, OnCanvas \ {w})
  <2>1. DOMAIN f \subseteq OnCanvas /\ f \in [DOMAIN f -> Hosted]
    BY <1>0 DEF Restrict
  <2>2. page' = [page EXCEPT !.canvas = f] /\ Keep
    BY <1>2 DEF EraseTaskNode
  <2> HIDE DEF f
  <2> QED BY <1>0, <2>1, <2>2, MapEditKept, CanvasEdited
<1>3. ASSUME NEW w \in Works, RunTask(w) PROVE MapInv'
  <2>1. PICK h \in HostsFor(w) : Control(FirstCall(w, h))
    BY <1>3 DEF RunTask
  <2>2. w \in OnCanvas
    BY <1>3 DEF RunTask, ControlOffered
  <2>3. h \in Hosts /\ Listed(w).host \in Hosted
    BY <1>0, <2>1, <2>2, HostOfTask DEF Rows, Hosted
  <2>4. Call("claim", w, h) \in Called
    BY <2>3 DEF Call, Called, Calls, Hosted
  <2>5. Call("start", w, IF Listed(w).host # NoHost THEN Listed(w).host ELSE h) \in Called
    BY <2>3 DEF Call, Called, Calls, Hosted
  <2>6. Load("control") \in Loads
    BY DEF Load, Loads, Handlers
  <2>7. FirstCall(w, h) \in Asked
    BY <2>4, <2>5, <2>6 DEF FirstCall, Asked
  <2> QED BY <1>0, <2>1, <2>7, ControlKept
<1>4. ASSUME NEW w \in Works, AssignTaskAgent(w) PROVE MapInv'
  <2>1. w \in OnCanvas /\ Control(Query("assign"))
    BY <1>4 DEF AssignTaskAgent, ContextOffered
  <2>2. Query("assign") \in Made
    BY DEF Query, Made
  <2> QED BY <1>0, <2>1, <2>2, ControlKept DEF Asked
<1>5. ASSUME NEW w \in Works, NEW h \in Hosts, SelectHost(w, h) PROVE MapInv'
  <2> DEFINE f == [page.canvas EXCEPT ![w] = h]
  <2>1. DOMAIN f \subseteq OnCanvas /\ f \in [DOMAIN f -> Hosted]
    BY <1>0 DEF Hosted
  <2>2. page' = [page EXCEPT !.canvas = f] /\ Keep
    BY <1>5, <1>0 DEF SelectHost
  <2> HIDE DEF f
  <2> QED BY <1>0, <2>1, <2>2, MapEditKept, CanvasEdited
<1>6. ASSUME NEW w \in Works, NEW op \in {"ack", "nack", "cancel"}, FinishTask(w, op) PROVE MapInv'
  <2>1. w \in OnCanvas /\ Control(Call(op, w, Listed(w).host))
    BY <1>6 DEF FinishTask, ControlOffered
  <2>2. Listed(w).host \in Hosted
    BY <1>0, <2>1, HostOfTask DEF Rows, Hosted
  <2>3. Call(op, w, Listed(w).host) \in Called
    BY <2>2 DEF Call, Called, Calls
  <2> QED BY <1>0, <2>1, <2>3, ControlKept DEF Asked
<1>7. ASSUME NEW S \in SUBSET Works, SelectScope(S) PROVE MapInv'
  <2> DEFINE p == RedrawnTasks(page.list)
             f == Restrict(p.canvas, S)
             u == [p EXCEPT !.canvas = f]
  <2>1. p \in MapPages /\ DOMAIN p.canvas = DOMAIN page.list /\ p.list = page.list
    BY <1>0, RedrawnKept DEF MapPages
  <2>2. S \subseteq DOMAIN page.list /\ page' = u /\ Keep
    BY <1>7 DEF SelectScope
  <2> HIDE DEF p
  <2>3. f \in [S -> Hosted]
    BY <2>1, <2>2 DEF Restrict, MapPages
  <2>4. f \in UNION {[T -> Hosted] : T \in SUBSET Works}
    BY <2>3
  <2>5. DOMAIN f = S
    BY <2>3
  <2> HIDE DEF f
  <2>6. u \in MapPages /\ u.canvas = f /\ u.list = p.list
    BY <2>1, <2>4 DEF MapPages
  <2> HIDE DEF u
  <2> QED BY <2>1, <2>2, <2>5, <2>6, MapEditKept
<1>8. ASSUME NEW w \in Works, ConfirmDelete(w) PROVE MapInv'
  <2>1. Call("cancel", w, NoHost) \in Called
    BY DEF Call, Called, Calls, Hosted
  <2> QED BY <1>8, <2>1, ControlKept DEF Asked, ConfirmDelete
<1>9. ASSUME AddNode PROVE MapInv'
  <2>1. Control(Query("create"))
    BY <1>9 DEF AddNode
  <2>2. Query("create") \in Made
    BY DEF Query, Made
  <2> QED BY <1>0, <2>1, <2>2, ControlKept DEF Asked
<1> QED BY <1>2, <1>3, <1>4, <1>5, <1>6, <1>7, <1>8, <1>9 DEF TaskMapUser

LEMMA MapLoadsKept ==
  ASSUME MapInv, PollQueue \/ RoadmapLoaded
  PROVE  MapInv'
<1>1. CASE PollQueue
  <2>1. Load("poll") \in Asked
    BY DEF Load, Loads, Handlers, Asked
  <2>2. Open' \subseteq Asked
    BY <1>1, <2>1, AskKept DEF PollQueue, MapInv
  <2> QED BY <1>1, <2>2 DEF PollQueue, MapInv, PageKept, MapPages, QueueKept
<1>2. CASE RoadmapLoaded
  BY <1>2, RedrawnKept, MapEditKept DEF RoadmapLoaded, MapInv, PageKept, MapPages
<1> QED BY <1>1, <1>2

\* The queue after a write of a row that is unheld if it waits.
LEMMA WriteKept ==
  ASSUME QueueKept, NEW w \in Works, NEW t \in Rows, Unheld(t),
         \/ server' = [server EXCEPT !.queue[w] = t]
         \/ server' = [server EXCEPT !.queue = Inserted(@, w)]
  PROVE  QueueKept'
<1> DEFINE q == server.queue
<1>1. q \in [DOMAIN q -> Rows] /\ DOMAIN q \subseteq Works
  BY QueueShape DEF QueueKept
<1>2. PICK n : n \in Queues /\ server' = [server EXCEPT !.queue = n]
               /\ \A v \in DOMAIN n : Unheld(n[v])
  <2>1. CASE server' = [server EXCEPT !.queue[w] = t]
    <3> DEFINE n == [q EXCEPT ![w] = t]
    <3>1. DOMAIN n = DOMAIN q /\ n \in [DOMAIN q -> Rows]
      BY <1>1
    <3>2. n \in Queues
      BY <1>1, <3>1, QueueShape
    <3>3. \A v \in DOMAIN n : Unheld(n[v])
      BY <1>1 DEF QueueKept
    <3>4. server' = [server EXCEPT !.queue = n]
      BY <2>1 DEF QueueKept
    <3> HIDE DEF n
    <3> QED BY <3>2, <3>3, <3>4
  <2>2. CASE server' = [server EXCEPT !.queue = Inserted(@, w)]
    <3> DEFINE n == Inserted(q, w)
    <3>1. Enqueued \in Rows /\ Unheld(Enqueued)
      BY DEF Enqueued, Rows, Unheld, Statuses, Active, Waiting
    <3>2. DOMAIN n = DOMAIN q \cup {w} /\ n \in [DOMAIN n -> Rows]
      BY <1>1, <3>1 DEF Inserted
    <3>3. n \in Queues
      BY <1>1, <3>2, QueueShape
    <3>4. \A v \in DOMAIN n : Unheld(n[v])
      BY <3>1 DEF QueueKept, Inserted
    <3>5. server' = [server EXCEPT !.queue = n]
      BY <2>2
    <3> HIDE DEF n
    <3> QED BY <3>3, <3>4, <3>5
  <2> QED BY <2>1, <2>2
<1> QED BY <1>2 DEF QueueKept

LEMMA MapBackendKept ==
  ASSUME MapInv, TaskMapBackend
  PROVE  MapInv'
<1>0. PageKept /\ QueueKept /\ Open \subseteq Asked /\ server.queue \in Queues
  BY DEF MapInv, QueueKept
<1>1. ASSUME NEW r \in Open, CallReads(r) PROVE MapInv'
  <2>1. r \in Called /\ r.task \in DOMAIN Queue /\ Passes(r.op, r.host, Row(r.task))
    <3>1. r \in Asked
      BY <1>0
    <3> QED BY <1>1, <3>1 DEF CallReads, Asked, Loads, QueueListings, Made, Half, Called, Calls
  <2>2. Row(r.task) \in Rows /\ Unheld(Row(r.task))
    BY <1>0, <2>1, QueueShape DEF Row, Queue, QueueKept
  <2>3. ReadBy(r, Row(r.task)) \in Half
    BY <2>1, <2>2 DEF ReadBy, Half, Called
  <2>4. Open' \subseteq Asked
    BY <1>0, <1>1, <2>3, ReplyKept DEF CallReads, Asked
  <2> QED BY <1>0, <1>1, <2>4 DEF CallReads, MapInv, PageKept, MapPages, QueueKept
<1>2. ASSUME NEW r \in Open, CallWrites(r) PROVE MapInv'
  <2>1. r \in Half
    <3>1. r \in Asked
      BY <1>0
    <3> QED BY <1>2, <3>1 DEF CallWrites, Asked, Loads, QueueListings, Made, Half, Called
  <2>2. PICK t \in After(r.op, r.host, r.row) : server' = [server EXCEPT !.queue[r.task] = t]
    BY <1>2 DEF CallWrites
  <2>3. t \in Rows /\ Unheld(t)
    BY <2>1, WritesUnheld DEF Half, Hosted
  <2>4. QueueKept'
    BY <1>0, <2>1, <2>2, <2>3, WriteKept DEF Half
  <2>5. Done(r.op, r.task, r.host) \in Called \cup Made
    BY <2>1 DEF Half, Done, Answered, Call, Called, Query, Made
  <2>6. Open' \subseteq Asked
    BY <1>0, <1>2, <2>5, ReplyKept DEF CallWrites, Asked
  <2> QED BY <1>0, <1>2, <2>4, <2>6 DEF CallWrites, MapInv, PageKept, MapPages
<1>3. ASSUME NEW r \in Open, ServeTaskMap(r) PROVE MapInv'
  <2>0. r \in Asked /\ r.stage = "sent" /\ UNCHANGED <<route, page>>
    BY <1>0, <1>3 DEF ServeTaskMap
  <2>1. CASE r.op = "list"
    <3>1. r \in Loads
      BY <2>0, <2>1 DEF Asked, Loads, QueueListings, Made, Half, Called, Calls
    <3>2. Listing(r) \in QueueListings
      BY <1>0, <3>1 DEF Listing, QueueListings, Loads, Queue
    <3>3. Reply(r, Listing(r)) /\ UNCHANGED server
      BY <1>3, <2>1 DEF ServeTaskMap
    <3>4. Open' \subseteq Asked
      BY <1>0, <3>2, <3>3, ReplyKept DEF Asked
    <3> QED BY <1>0, <2>0, <3>3, <3>4 DEF MapInv, PageKept, MapPages, QueueKept
  <2>2. CASE r.op \in {"create", "assign"}
    <3>1. r \in Made
      BY <2>0, <2>2 DEF Asked, Loads, QueueListings, Made, Half, Called, Calls
    <3>2. Done(r.op, Nil, NoHost) \in Made
      BY <2>2 DEF Answered, Made, Done, Query
    <3>3. Reply(r, Done(r.op, Nil, NoHost))
      BY <1>3, <2>2 DEF ServeTaskMap
    <3>4. Open' \subseteq Asked
      BY <1>0, <3>2, <3>3, ReplyKept DEF Asked
    <3>5. Enqueued \in Rows /\ Unheld(Enqueued)
      BY DEF Enqueued, Rows, Unheld, Statuses, Active, Waiting
    <3>6. QueueKept'
      <4>1. CASE r.op = "create"
        <5>1. PICK w \in Works : server' = [server EXCEPT !.queue = Inserted(@, w)]
          BY <1>3, <4>1 DEF ServeTaskMap
        <5> QED BY <1>0, <3>5, <5>1, WriteKept
      <4>2. CASE r.op = "assign"
        BY <1>0, <1>3, <4>2 DEF ServeTaskMap, QueueKept
      <4> QED BY <2>2, <4>1, <4>2
    <3> QED BY <1>0, <2>0, <3>4, <3>6 DEF MapInv, PageKept, MapPages
  <2> QED BY <1>3, <2>1, <2>2 DEF ServeTaskMap
<1>4. ASSUME NEW w \in Works, NEW op \in Calls \cup {"timeout", "promote"},
             NEW h \in Hosts \cup {NoHost}, OutsideCall(op, w, h)
      PROVE  MapInv'
  <2>1. w \in DOMAIN Queue /\ Passes(op, h, Row(w))
    BY <1>4 DEF OutsideCall
  <2>2. PICK t \in After(op, h, Row(w)) : server' = [server EXCEPT !.queue[w] = t]
    BY <1>4 DEF OutsideCall
  <2>3. Row(w) \in Rows /\ Unheld(Row(w))
    BY <1>0, <2>1, QueueShape DEF Row, Queue, QueueKept
  <2>4. t \in Rows /\ Unheld(t)
    BY <2>1, <2>3, WritesUnheld
  <2>5. QueueKept'
    BY <1>0, <2>2, <2>4, WriteKept
  <2> QED BY <1>0, <1>4, <2>5 DEF OutsideCall, MapInv, PageKept, MapPages, Open
<1> QED BY <1>1, <1>2, <1>3, <1>4 DEF TaskMapBackend

LEMMA MapAnswersKept ==
  ASSUME MapInv, NEW r \in Open, NEW ok \in BOOLEAN, QueueLoaded(r, ok) \/ ControlAnswered(r, ok)
  PROVE  MapInv'
<1>0. PageKept /\ QueueKept /\ Open \subseteq Asked /\ r \in Asked
      /\ page \in MapPages /\ DOMAIN page.canvas \subseteq DOMAIN page.list
  BY DEF MapInv, PageKept, MapPages
<1>1. CASE QueueLoaded(r, ok)
  <2> DEFINE p == IF ok THEN RedrawnTasks(r.queue) ELSE page
  <2>1. ok => r \in QueueListings
    BY <1>0, <1>1 DEF QueueLoaded, Ends, Asked, Loads, QueueListings, Made, Half, Called, Calls
  <2>2. p \in MapPages /\ DOMAIN p.canvas \subseteq DOMAIN p.list
    <3>1. CASE ok
      <4>1. r.queue \in Queues
        BY <2>1, <3>1 DEF QueueListings
      <4> QED BY <1>0, <3>1, <4>1, RedrawnKept
    <3>2. CASE ~ok
      BY <1>0, <3>2
    <3> QED BY <3>1, <3>2
  <2>3. page' = [p EXCEPT !.busy = @ /\ r.handler = "poll"] /\ wire' = Settled(r) /\ UNCHANGED server
    BY <1>1 DEF QueueLoaded
  <2> HIDE DEF p
  <2>4. page' \in MapPages /\ page'.canvas = p.canvas /\ page'.list = p.list
    <3>1. (p.busy /\ r.handler = "poll") \in BOOLEAN
      OBVIOUS
    <3>2. PICK b \in BOOLEAN : page' = [p EXCEPT !.busy = b]
      BY <2>2, <2>3, <3>1 DEF MapPages
    <3> QED BY <2>2, <3>2 DEF MapPages
  <2>5. Open' \subseteq Asked
    BY <1>0, <2>3, SettleKept
  <2> QED BY <1>0, <2>2, <2>3, <2>4, <2>5 DEF MapInv, PageKept, MapPages, QueueKept
<1>2. CASE ControlAnswered(r, ok)
  <2>1. r \in Called \/ r \in Made \/ r \in Half
    BY <1>0, <1>2 DEF ControlAnswered, Asked, Loads, QueueListings, Calls
  <2>2. CASE ok
    <3> DEFINE next == IF r.op = "claim" THEN Call("start", r.task, r.host) ELSE Load("control")
    <3>1. Load("control") \in Loads
      BY DEF Load, Loads, Handlers
    <3>2. r.op = "claim" => Call("start", r.task, r.host) \in Called
      BY <2>1 DEF Called, Made, Half, Call, Calls, Hosted
    <3>3. next \in Asked
      BY <3>1, <3>2 DEF Asked
    <3>4. wire' = BagAdd(Settled(r), next) /\ UNCHANGED <<page, server>>
      BY <1>2, <2>2 DEF ControlAnswered
    <3> HIDE DEF next
    <3>5. Open' \subseteq Asked
      BY <1>0, <3>3, <3>4, FollowKept
    <3> QED BY <1>0, <3>4, <3>5 DEF MapInv, PageKept, MapPages, QueueKept
  <2>3. CASE ~ok
    <3>1. wire' = Settled(r) /\ page' = [page EXCEPT !.busy = FALSE] /\ UNCHANGED server
      BY <1>2, <2>3 DEF ControlAnswered
    <3>2. Open' \subseteq Asked
      BY <1>0, <3>1, SettleKept
    <3> QED BY <1>0, <3>1, <3>2 DEF MapInv, PageKept, MapPages, QueueKept
  <2> QED BY <2>2, <2>3
<1> QED BY <1>1, <1>2

LEMMA MapKept ==
  ASSUME MapInv, TaskMapNext
  PROVE  MapInv'
BY MapUserKept, MapLoadsKept, MapBackendKept, MapAnswersKept DEF TaskMapNext

\* While the controls are disabled, the chain of calls of some control goes on.
LEMMA MapWaits ==
  ASSUME MapInv, TaskMapBusyMeansWaiting, TaskMapNext
  PROVE  TaskMapBusyMeansWaiting'
<1> DEFINE Waits(r) == r.op # "list" \/ r.handler = "control"
<1>0. Open \subseteq Asked /\ page \in MapPages
  BY DEF MapInv, PageKept
<1>1. ASSUME NEW x, Waits(x), Control(x) PROVE TaskMapBusyMeansWaiting'
  BY <1>1, AskOpens DEF Control, TaskMapBusyMeansWaiting
<1>2. ASSUME page'.busy => page.busy, Open \subseteq Open' PROVE TaskMapBusyMeansWaiting'
  BY <1>2 DEF TaskMapBusyMeansWaiting
<1>3. ASSUME TaskMapUser PROVE TaskMapBusyMeansWaiting'
  <2>1. ASSUME Keep, page'.busy = page.busy PROVE TaskMapBusyMeansWaiting'
    BY <1>2, <2>1 DEF Keep, Open
  <2>2. ASSUME NEW w \in Works, ConfirmDelete(w) PROVE TaskMapBusyMeansWaiting'
    BY <1>1, <2>2 DEF ConfirmDelete, Call
  <2>3. ASSUME NEW w \in Works, EraseTaskNode(w) PROVE TaskMapBusyMeansWaiting'
    BY <1>0, <2>1, <2>3 DEF EraseTaskNode, MapPages
  <2>4. ASSUME NEW w \in Works, RunTask(w) PROVE TaskMapBusyMeansWaiting'
    BY <1>1, <2>4 DEF RunTask, FirstCall, Call, Load
  <2>5. ASSUME NEW w \in Works, AssignTaskAgent(w) PROVE TaskMapBusyMeansWaiting'
    BY <1>1, <2>5 DEF AssignTaskAgent, Query
  <2>6. ASSUME NEW w \in Works, NEW h \in Hosts, SelectHost(w, h) PROVE TaskMapBusyMeansWaiting'
    BY <1>0, <2>1, <2>6 DEF SelectHost, MapPages
  <2>7. ASSUME NEW w \in Works, NEW op \in {"ack", "nack", "cancel"}, FinishTask(w, op)
        PROVE  TaskMapBusyMeansWaiting'
    BY <1>1, <2>7 DEF FinishTask, Call
  <2>8. ASSUME NEW S \in SUBSET Works, SelectScope(S) PROVE TaskMapBusyMeansWaiting'
    BY <1>0, <2>1, <2>8 DEF SelectScope, RedrawnTasks, MapPages
  <2>9. ASSUME AddNode PROVE TaskMapBusyMeansWaiting'
    BY <1>1, <2>9 DEF AddNode, Query
  <2> QED BY <1>3, <2>2, <2>3, <2>4, <2>5, <2>6, <2>7, <2>8, <2>9 DEF TaskMapUser
<1>4. ASSUME PollQueue \/ RoadmapLoaded PROVE TaskMapBusyMeansWaiting'
  <2>1. CASE PollQueue
    BY <1>2, <2>1, AskOpens DEF PollQueue
  <2>2. CASE RoadmapLoaded
    BY <1>0, <1>2, <2>2 DEF RoadmapLoaded, RedrawnTasks, Keep, Open, MapPages
  <2> QED BY <1>4, <2>1, <2>2
<1>5. ASSUME TaskMapBackend PROVE TaskMapBusyMeansWaiting'
  <2>1. ASSUME NEW r \in Open, NEW x, Reply(r, x), Waits(r) => Waits(x), page' = page
        PROVE  TaskMapBusyMeansWaiting'
    BY <2>1, ReplyOpens DEF TaskMapBusyMeansWaiting
  <2>2. ASSUME NEW r \in Open, CallReads(r) PROVE TaskMapBusyMeansWaiting'
    BY <2>1, <2>2 DEF CallReads, ReadBy, Calls
  <2>3. ASSUME NEW r \in Open, CallWrites(r) PROVE TaskMapBusyMeansWaiting'
    BY <2>1, <2>3 DEF CallWrites, Done, Answered, Call, Query
  <2>4. ASSUME NEW r \in Open, ServeTaskMap(r) PROVE TaskMapBusyMeansWaiting'
    BY <2>1, <2>4 DEF ServeTaskMap, Done, Answered, Call, Query, Listing
  <2>5. ASSUME NEW w \in Works, NEW op, NEW h, OutsideCall(op, w, h) PROVE TaskMapBusyMeansWaiting'
    BY <1>2, <2>5 DEF OutsideCall, Open
  <2> QED BY <1>5, <2>2, <2>3, <2>4, <2>5 DEF TaskMapBackend
<1>6. ASSUME NEW r \in Open, NEW ok \in BOOLEAN, QueueLoaded(r, ok)
      PROVE  TaskMapBusyMeansWaiting'
  <2>1. page'.busy => page.busy /\ r.handler = "poll"
    BY <1>0, <1>6 DEF QueueLoaded, RedrawnTasks, MapPages
  <2>2. Open \subseteq Open' \cup {r} /\ r.op = "list"
    BY <1>6, SettleOpens DEF QueueLoaded
  <2> QED BY <2>1, <2>2 DEF TaskMapBusyMeansWaiting
<1>7. ASSUME NEW r \in Open, NEW ok \in BOOLEAN, ControlAnswered(r, ok)
      PROVE  TaskMapBusyMeansWaiting'
  <2>1. CASE ok
    BY <1>7, <2>1, FollowOpens DEF ControlAnswered, Call, Load, TaskMapBusyMeansWaiting
  <2>2. CASE ~ok
    BY <1>0, <1>7, <2>2 DEF ControlAnswered, TaskMapBusyMeansWaiting, MapPages
  <2> QED BY <2>1, <2>2
<1> QED BY <1>3, <1>4, <1>5, <1>6, <1>7 DEF TaskMapNext

-----------------------------------------------------------------------------
(***************************************************************************)
(* The roadmap and the project data.                                       *)
(***************************************************************************)

DocParts == UNION {[S -> Docs] : S \in SUBSET Panels}
LoadsOfDocs == {r \in [op : {"load"}, stage : {"sent", "ok"}, docs : DocParts] :
                  r.stage = "ok" => DOMAIN r.docs = Panels}
SavesSent == {r \in [op : {"save"}, stage : {"sent"}, panel : Panels, expected : 0..MaxWrites,
                     over : Docs] : r.expected = r.over.v}
SavesDone == [op : {"save"}, stage : {"ok"}, panel : Panels, expected : 0..MaxWrites,
              over : Docs, doc : Docs]
DocRequests == LoadsOfDocs \cup SavesSent \cup SavesDone

\* Every version was given out by one write.
DocsKept ==
  /\ server \in [ work : [Panels -> Docs \cup {Nil}], app : [Panels -> Docs \cup {Nil}],
                  writes : 0..MaxWrites, writable : BOOLEAN, fellBack : BOOLEAN ]
  /\ \A p \in Panels : ReadDocument(p).v <= server.writes
  /\ ~server.fellBack => \A p \in Panels : server.app[p] = Nil

\* A document with the current version is the current document.
Known(p, d) ==
  /\ d.v <= ReadDocument(p).v
  /\ d.v = ReadDocument(p).v => d = ReadDocument(p)

\* So is every document that a panel shows, or that a request carries.
HeldKnown ==
  /\ \A p \in Panels : Known(p, page[p].doc)
  /\ \A r \in Open :
       /\ r.op = "load" => \A p \in DOMAIN r.docs : Known(p, r.docs[p])
       /\ r.op = "save" => Known(r.panel, r.over)
       /\ r.op = "save" /\ r.stage = "ok" => Known(r.panel, r.doc)

RoadmapTyped == page \in RoadmapState /\ DocsKept /\ Open \subseteq DocRequests

RoadmapInv ==
  /\ RoadmapTyped
  /\ ~server.fellBack => HeldKnown
  /\ RoadmapBusyMeansWaiting

LEMMA DocRead ==
  ASSUME DocsKept
  PROVE  /\ \A p \in Panels : ReadDocument(p) \in Docs
         /\ ~server.fellBack => \A p \in Panels :
              ReadDocument(p) = IF server.work[p] # Nil THEN server.work[p] ELSE Blank
BY RoadmapAssumption DEF DocsKept, ReadDocument, Docs, Blank

LEMMA RoadmapStarts ==
  ASSUME RoadmapMounted
  PROVE  RoadmapInv'
<1>1. Open' = {LoadAll}
  BY MountOpens DEF RoadmapMounted
<1>2. /\ page' = [p \in Panels |-> MarkLoading(Hydrated(Blank))]
      /\ server' = [work |-> [p \in Panels |-> Nil], app |-> [p \in Panels |-> Nil],
                    writes |-> 0, writable |-> TRUE, fellBack |-> FALSE]
  BY DEF RoadmapMounted, Mounting
<1>3. LoadAll \in LoadsOfDocs
  <2>1. <<>> \in DocParts /\ DOMAIN <<>> = {}
    BY DEF DocParts
  <2> QED BY <2>1 DEF LoadAll, LoadsOfDocs
<1>4. Blank \in Docs
  BY RoadmapAssumption DEF Blank, Docs
<1>5. page' \in RoadmapState
  BY <1>2, <1>4 DEF RoadmapState, PanelState, MarkLoading, Hydrated
<1>6. \A p \in Panels : ReadDocument(p)' = Blank
  BY <1>2 DEF ReadDocument
<1>7. DocsKept'
  BY <1>2, <1>6, RoadmapAssumption DEF DocsKept, Blank
<1>8. HeldKnown'
  <2>1. \A p \in Panels : page'[p].doc = Blank
    BY <1>2 DEF MarkLoading, Hydrated
  <2> QED BY <1>1, <1>6, <2>1 DEF HeldKnown, Known, LoadAll, Blank
<1>9. RoadmapBusyMeansWaiting'
  <2>1. LoadAll \in Pending("load")'
    BY <1>1 DEF Pending, LoadAll
  <2>2. \A p \in Panels : page'[p].phase = "loading"
    BY <1>2 DEF MarkLoading, Hydrated
  <2> QED BY <2>1, <2>2 DEF RoadmapBusyMeansWaiting
<1> QED BY <1>1, <1>3, <1>5, <1>7, <1>8, <1>9 DEF RoadmapInv, RoadmapTyped, DocRequests

-----------------------------------------------------------------------------
\* Steps that neither read nor write a document.
LEMMA RoadmapEdits ==
  ASSUME RoadmapInv, page' \in RoadmapState, \A p \in Panels : page'[p].doc = page[p].doc,
         RoadmapBusyMeansWaiting', UNCHANGED server,
         \/ UNCHANGED wire
         \/ Ask(LoadAll)
         \/ \E p \in Panels : Ask([op |-> "save", stage |-> "sent", panel |-> p,
                                   expected |-> page[p].doc.v, over |-> page[p].doc])
  PROVE  RoadmapInv'
<1>1. RoadmapTyped /\ (~server.fellBack => HeldKnown) /\ page \in RoadmapState
  BY DEF RoadmapInv, RoadmapTyped
<1>2. \A p \in Panels : ReadDocument(p)' = ReadDocument(p)
  BY DEF ReadDocument
<1>3. DocsKept'
  BY <1>1, <1>2 DEF RoadmapTyped, DocsKept
<1> DEFINE Save(p) == [op |-> "save", stage |-> "sent", panel |-> p,
                       expected |-> page[p].doc.v, over |-> page[p].doc]
<1>4. ASSUME NEW p \in Panels PROVE Save(p) \in SavesSent
  <2>1. page[p].doc \in Docs
    BY <1>1 DEF RoadmapState, PanelState
  <2> QED BY <2>1 DEF SavesSent, Docs
<1>5. LoadAll \in LoadsOfDocs
  <2>1. <<>> \in DocParts
    BY DEF DocParts
  <2> QED BY <2>1 DEF LoadAll, LoadsOfDocs
<1>6. PICK x : Open' \subseteq Open \cup {x} /\ (x \in Open \/ x = LoadAll \/ \E p \in Panels : x = Save(p))
  <2>1. CASE UNCHANGED wire
    <3>1. Open = Open'
      BY <2>1 DEF Open
    <3> QED BY <3>1
  <2>2. CASE Ask(LoadAll)
    BY <2>2, AskOpens
  <2>3. ASSUME NEW p \in Panels, Ask(Save(p)) PROVE Open' \subseteq Open \cup {Save(p)}
    BY <2>3, AskOpens
  <2> QED BY <2>1, <2>2, <2>3
<1>7. Open' \subseteq DocRequests
  BY <1>1, <1>4, <1>5, <1>6 DEF RoadmapTyped, DocRequests
<1>8. ~server.fellBack => HeldKnown'
  <2> SUFFICES ASSUME HeldKnown PROVE HeldKnown'
    BY <1>1
  <2>1. \A p \in Panels : \A d : Known(p, d)' <=> Known(p, d)
    BY <1>2 DEF Known
  <2>2. \A p \in Panels : Known(p, page[p].doc)'
    BY <1>2 DEF HeldKnown, Known
  <2>3. ASSUME NEW r \in Open'
        PROVE  /\ r.op = "load" => \A p \in DOMAIN r.docs : Known(p, r.docs[p])'
               /\ r.op = "save" => Known(r.panel, r.over)'
               /\ r.op = "save" /\ r.stage = "ok" => Known(r.panel, r.doc)'
    <3>1. CASE r \in Open
      <4>1. r \in DocRequests
        BY <1>1, <3>1 DEF RoadmapTyped
      <4> QED BY <3>1, <4>1, <2>1 DEF HeldKnown, DocRequests, LoadsOfDocs, SavesSent, SavesDone, DocParts
    <3>2. CASE r = LoadAll
      BY <3>2 DEF LoadAll
    <3>3. ASSUME NEW p \in Panels, r = Save(p)
          PROVE  r.op = "save" /\ r.stage = "sent" /\ Known(r.panel, r.over)'
      BY <3>3, <2>1 DEF HeldKnown
    <3>4. r \in Open \/ r = LoadAll \/ \E p \in Panels : r = Save(p)
      BY <1>6
    <3> HIDE DEF Save
    <3> QED BY <3>1, <3>2, <3>3, <3>4
  <2> QED BY <2>2, <2>3 DEF HeldKnown
<1> QED BY <1>3, <1>7, <1>8 DEF RoadmapInv, RoadmapTyped

-----------------------------------------------------------------------------
(* The steps of the page.                                                   *)

LEMMA RoadmapUser ==
  ASSUME RoadmapInv, NEW p \in Panels,
         \/ ClickReload(p) \/ KeepDraft(p) \/ DiscardAndReload(p) \/ ClickSave(p)
         \/ \E e, b \in BOOLEAN : Edit(p, e, b)
         \/ AppendTask
  PROVE  RoadmapInv'
<1>0. page \in RoadmapState /\ RoadmapBusyMeansWaiting
  BY DEF RoadmapInv, RoadmapTyped
<1>1. ASSUME NEW q \in Panels, NEW u \in PanelState, page' = [page EXCEPT ![q] = u],
             u.doc = page[q].doc,
             u.phase = "loading" => page[q].phase = "loading",
             u.phase = "saving" => page[q].phase = "saving",
             UNCHANGED <<server, wire>>
      PROVE  RoadmapInv'
  <2>1. page' \in RoadmapState /\ \A x \in Panels : page'[x].doc = page[x].doc
    BY <1>0, <1>1 DEF RoadmapState
  <2>2. Pending("load")' = Pending("load") /\ Pending("save")' = Pending("save")
    BY <1>1 DEF Pending, Open
  <2>3. RoadmapBusyMeansWaiting'
    BY <1>0, <1>1, <2>2 DEF RoadmapBusyMeansWaiting, RoadmapState
  <2> QED BY <1>1, <2>1, <2>3, RoadmapEdits
<1>2. ASSUME LoadBoth(page), UNCHANGED server PROVE RoadmapInv'
  <2>1. page' = [x \in Panels |-> MarkLoading(page[x])] /\ Ask(LoadAll)
    BY <1>2 DEF LoadBoth
  <2>2. page' \in RoadmapState /\ \A x \in Panels : page'[x].doc = page[x].doc /\ page'[x].phase = "loading"
    BY <1>0, <2>1 DEF RoadmapState, PanelState, MarkLoading
  <2>3. LoadAll \in Pending("load")'
    BY <2>1, AskOpens DEF Pending, LoadAll
  <2>4. RoadmapBusyMeansWaiting'
    BY <2>2, <2>3 DEF RoadmapBusyMeansWaiting
  <2> QED BY <1>2, <2>1, <2>2, <2>4, RoadmapEdits
<1>3. ASSUME ClickReload(p) PROVE RoadmapInv'
  <2>1. CASE page' = [page EXCEPT ![p] = RequestReload(@)] /\ UNCHANGED wire
    <3>1. RequestReload(page[p]) \in PanelState /\ RequestReload(page[p]).doc = page[p].doc
          /\ RequestReload(page[p]).phase = page[p].phase
      BY <1>0 DEF RequestReload, RoadmapState, PanelState
    <3> QED BY <1>1, <1>3, <2>1, <3>1 DEF ClickReload
  <2> QED BY <1>2, <1>3, <2>1 DEF ClickReload
<1>4. ASSUME KeepDraft(p) PROVE RoadmapInv'
  <2> DEFINE u == [page[p] EXCEPT !.asked = FALSE]
  <2>1. u \in PanelState /\ u.doc = page[p].doc /\ u.phase = page[p].phase
    BY <1>0 DEF RoadmapState, PanelState
  <2>2. page' = [page EXCEPT ![p] = u] /\ UNCHANGED <<server, wire>>
    BY <1>4 DEF KeepDraft
  <2> HIDE DEF u
  <2> QED BY <1>1, <2>1, <2>2
<1>5. ASSUME ClickSave(p) PROVE RoadmapInv'
  <2> DEFINE x == [op |-> "save", stage |-> "sent", panel |-> p,
                   expected |-> page[p].doc.v, over |-> page[p].doc]
  <2>1. page' = [page EXCEPT ![p] = MarkSaving(@)] /\ Ask(x) /\ UNCHANGED server
    BY <1>5 DEF ClickSave
  <2>2. /\ page' \in RoadmapState
        /\ \A q \in Panels : page'[q].doc = page[q].doc
        /\ \A q \in Panels : page'[q].phase = IF q = p THEN "saving" ELSE page[q].phase
    BY <1>0, <2>1 DEF RoadmapState, PanelState, MarkSaving
  <2>3. Open' = Open \cup {x} /\ x.op = "save" /\ x.panel = p
    BY <2>1, AskOpens
  <2>4. \E q \in Panels : Ask([op |-> "save", stage |-> "sent", panel |-> q,
                   expected |-> page[q].doc.v, over |-> page[q].doc])
    BY <2>1
  <2> HIDE DEF x
  <2>5. RoadmapBusyMeansWaiting'
    BY <1>0, <2>2, <2>3 DEF RoadmapBusyMeansWaiting, Pending
  <2> QED BY <2>1, <2>2, <2>4, <2>5, RoadmapEdits
<1>6. ASSUME NEW e \in BOOLEAN, NEW b \in BOOLEAN, Edit(p, e, b) PROVE RoadmapInv'
  <2> DEFINE u == DraftEdited(page[p], e, b)
  <2>1. u \in PanelState /\ u.doc = page[p].doc /\ u.phase \in {"dirty", "loaded"}
    BY <1>0 DEF RoadmapState, PanelState, DraftEdited
  <2>2. page' = [page EXCEPT ![p] = u] /\ UNCHANGED <<server, wire>>
    BY <1>6 DEF Edit
  <2> HIDE DEF u
  <2> QED BY <1>1, <2>1, <2>2
<1>7. ASSUME AppendTask PROVE RoadmapInv'
  <2> DEFINE u == TaskAdded(page["roadmap"])
  <2>1. u \in PanelState /\ u.doc = page["roadmap"].doc /\ u.phase = "dirty"
    BY <1>0 DEF RoadmapState, PanelState, TaskAdded, Panels
  <2>2. page' = [page EXCEPT !["roadmap"] = u] /\ UNCHANGED <<server, wire>>
    BY <1>7 DEF AppendTask
  <2> HIDE DEF u
  <2> QED BY <1>1, <2>1, <2>2 DEF Panels
<1>8. ASSUME DiscardAndReload(p) PROVE RoadmapInv'
  BY <1>2, <1>8 DEF DiscardAndReload
<1> QED BY <1>3, <1>4, <1>5, <1>6, <1>7, <1>8

\* An answer: what it says of a document is known.
LEMMA RoadmapAnswers ==
  ASSUME RoadmapInv, NEW r \in Open, NEW ok \in BOOLEAN, BothLoaded(r, ok) \/ DocSaved(r, ok)
  PROVE  RoadmapInv'
<1>0. /\ page \in RoadmapState /\ RoadmapBusyMeansWaiting /\ DocsKept
      /\ r \in DocRequests /\ Open \subseteq DocRequests
      /\ ~server.fellBack => HeldKnown
  BY DEF RoadmapInv, RoadmapTyped
<1>1. wire' = Settled(r) /\ UNCHANGED server
  BY DEF BothLoaded, DocSaved
<1>2. Open' \subseteq Open /\ Open \subseteq Open' \cup {r}
  BY <1>1, SettleOpens
<1>3. \A p \in Panels : ReadDocument(p)' = ReadDocument(p)
  BY <1>1 DEF ReadDocument
<1>4. DocsKept'
  BY <1>0, <1>1, <1>3 DEF DocsKept
<1>5. /\ page' \in RoadmapState
      /\ ~server.fellBack => \A p \in Panels : Known(p, page'[p].doc)
      /\ RoadmapBusyMeansWaiting'
  <2>1. CASE BothLoaded(r, ok)
    <3>0. r.op = "load" /\ r \in LoadsOfDocs /\ (ok => r.stage = "ok")
          /\ page' = [p \in Panels |-> IF ok THEN Hydrated(r.docs[p]) ELSE SaveFailed(page[p])]
      BY <1>0, <2>1 DEF BothLoaded, Ends, DocRequests, LoadsOfDocs, SavesSent, SavesDone
    <3>1. ok => DOMAIN r.docs = Panels /\ \A p \in Panels : r.docs[p] \in Docs
      BY <3>0 DEF LoadsOfDocs, DocParts
    <3>2. ASSUME NEW p \in Panels
          PROVE  /\ page'[p] \in PanelState /\ page'[p].phase \in {"loaded", "error"}
                 /\ page'[p].doc = IF ok THEN r.docs[p] ELSE page[p].doc
      BY <1>0, <3>0, <3>1 DEF RoadmapState, PanelState, Hydrated, SaveFailed
    <3>3. page' \in RoadmapState
      BY <3>0, <3>2 DEF RoadmapState
    <3>4. ~server.fellBack => \A p \in Panels : Known(p, page'[p].doc)
      BY <1>0, <3>0, <3>1, <3>2 DEF HeldKnown
    <3>5. RoadmapBusyMeansWaiting'
      BY <3>2 DEF RoadmapBusyMeansWaiting
    <3> QED BY <3>3, <3>4, <3>5
  <2>2. CASE DocSaved(r, ok)
    <3>0. /\ r.op = "save" /\ r.panel \in Panels /\ (ok => r.stage = "ok" /\ r.doc \in Docs)
          /\ page' = [page EXCEPT ![r.panel] = IF ok THEN Hydrated(r.doc) ELSE SaveFailed(@)]
      BY <1>0, <2>2 DEF DocSaved, Ends, DocRequests, LoadsOfDocs, SavesSent, SavesDone
    <3> DEFINE u == IF ok THEN Hydrated(r.doc) ELSE SaveFailed(page[r.panel])
    <3>1. /\ u \in PanelState /\ u.phase \in {"loaded", "error"}
          /\ u.doc = IF ok THEN r.doc ELSE page[r.panel].doc
      BY <1>0, <3>0 DEF RoadmapState, PanelState, Hydrated, SaveFailed
    <3>2. page' = [page EXCEPT ![r.panel] = u]
      BY <3>0
    <3> HIDE DEF u
    <3>3. /\ page' \in RoadmapState
          /\ \A p \in Panels : page'[p] = IF p = r.panel THEN u ELSE page[p]
      BY <1>0, <3>0, <3>1, <3>2 DEF RoadmapState
    <3>4. ~server.fellBack => \A p \in Panels : Known(p, page'[p].doc)
      BY <1>0, <3>0, <3>1, <3>3 DEF HeldKnown
    <3>5. RoadmapBusyMeansWaiting'
      <4> SUFFICES ASSUME NEW p \in Panels
                   PROVE  /\ page'[p].phase = "loading" => Pending("load")' # {}
                          /\ page'[p].phase = "saving" => \E x \in Pending("save")' : x.panel = p
        BY DEF RoadmapBusyMeansWaiting
      <4>1. CASE p = r.panel
        BY <3>1, <3>3, <4>1
      <4>2. CASE p # r.panel
        BY <1>0, <1>2, <3>0, <3>3, <4>2 DEF RoadmapBusyMeansWaiting, Pending
      <4> QED BY <4>1, <4>2
    <3> QED BY <3>3, <3>4, <3>5
  <2> QED BY <2>1, <2>2
<1>6. ASSUME ~server.fellBack PROVE HeldKnown'
  <2>1. \A p \in Panels : Known(p, page[p].doc)'
    BY <1>3, <1>5, <1>6 DEF Known
  <2>2. \A p \in Panels : \A d : Known(p, d)' <=> Known(p, d)
    BY <1>3 DEF Known
  <2>3. ASSUME NEW x \in Open'
        PROVE  /\ x.op = "load" => \A p \in DOMAIN x.docs : Known(p, x.docs[p])'
               /\ x.op = "save" => Known(x.panel, x.over)'
               /\ x.op = "save" /\ x.stage = "ok" => Known(x.panel, x.doc)'
    <3>1. x \in Open /\ x \in DocRequests
      BY <1>0, <1>2
    <3> QED BY <1>0, <1>6, <3>1, <2>2 DEF HeldKnown, DocRequests, LoadsOfDocs, SavesSent, SavesDone, DocParts
  <2> QED BY <2>1, <2>3 DEF HeldKnown
<1> QED BY <1>0, <1>1, <1>2, <1>4, <1>5, <1>6 DEF RoadmapInv, RoadmapTyped

-----------------------------------------------------------------------------
(* The repository.                                                          *)

\* A write gives out a version that no one holds yet.
LEMMA WrittenKept ==
  ASSUME DocsKept, NEW p \in Panels, Written(p)
  PROVE  /\ DocsKept' /\ NextDoc(p) \in Docs
         /\ server.fellBack => server'.fellBack
         /\ ~server'.fellBack =>
              /\ ReadDocument(p)' = NextDoc(p)
              /\ \A q \in Panels \ {p} : ReadDocument(q)' = ReadDocument(q)
              /\ \A q \in Panels, d \in Docs : Known(q, d) => Known(q, d)'
              /\ \A e : e = NextDoc(p) => Known(p, e)'
<1> USE RoadmapAssumption
<1> DEFINE d == NextDoc(p)
<1>1. /\ server \in [ work : [Panels -> Docs \cup {Nil}], app : [Panels -> Docs \cup {Nil}],
                      writes : 0..MaxWrites, writable : BOOLEAN, fellBack : BOOLEAN ]
      /\ server.writes < MaxWrites /\ server.writes \in Nat
      /\ \A q \in Panels : ReadDocument(q) \in Docs /\ ReadDocument(q).v <= server.writes
  BY DocRead DEF DocsKept, Written
<1>2. d \in Docs /\ d.v = ReadDocument(p).v + 1 /\ d # Nil
  BY <1>1 DEF NextDoc, Docs
<1>3. server' = IF server.writable
               THEN [server EXCEPT !.work[p] = d, !.writes = @ + 1]
               ELSE [server EXCEPT !.app[p] = d, !.writes = @ + 1, !.fellBack = TRUE]
  BY DEF Written
<1> HIDE DEF d
<1>4. /\ server' \in [ work : [Panels -> Docs \cup {Nil}], app : [Panels -> Docs \cup {Nil}],
                      writes : 0..MaxWrites, writable : BOOLEAN, fellBack : BOOLEAN ]
      /\ server'.writes = server.writes + 1
      /\ server.fellBack => server'.fellBack
      /\ ~server'.fellBack => /\ server'.work = [server.work EXCEPT ![p] = d]
                              /\ server'.app = server.app /\ ~server.fellBack
      /\ \A q \in Panels \ {p} : server'.work[q] = server.work[q] /\ server'.app[q] = server.app[q]
      /\ server'.work[p] \in {server.work[p], d} /\ server'.app[p] \in {server.app[p], d}
  <2> DEFINE w == [server.work EXCEPT ![p] = d]
             a == [server.app EXCEPT ![p] = d]
  <2>1. /\ w \in [Panels -> Docs \cup {Nil}] /\ w[p] = d
        /\ \A q \in Panels \ {p} : w[q] = server.work[q]
        /\ a \in [Panels -> Docs \cup {Nil}] /\ a[p] = d
        /\ \A q \in Panels \ {p} : a[q] = server.app[q]
    BY <1>1, <1>2
  <2>2. server.writes + 1 \in 0..MaxWrites
    BY <1>1
  <2>3. IF server.writable
        THEN server' = [server EXCEPT !.work = w, !.writes = @ + 1]
        ELSE server' = [server EXCEPT !.app = a, !.writes = @ + 1, !.fellBack = TRUE]
    BY <1>1, <1>3
  <2>4. w = [server.work EXCEPT ![p] = d]
    OBVIOUS
  <2> HIDE DEF w, a
  <2>5. IF server.writable
        THEN /\ server'.work = w /\ server'.app = server.app /\ server'.fellBack = server.fellBack
        ELSE /\ server'.work = server.work /\ server'.app = a /\ server'.fellBack
    BY <1>1, <2>3
  <2>6. server'.writes = server.writes + 1
    BY <1>1, <2>3
  <2>7. server' \in [ work : [Panels -> Docs \cup {Nil}], app : [Panels -> Docs \cup {Nil}],
                      writes : 0..MaxWrites, writable : BOOLEAN, fellBack : BOOLEAN ]
    BY <1>1, <2>1, <2>2, <2>3
  <2> QED BY <1>1, <2>1, <2>4, <2>5, <2>6, <2>7
<1>5. \A q \in Panels \ {p} : ReadDocument(q)' = ReadDocument(q)
  BY <1>4 DEF ReadDocument
<1>6. ReadDocument(p)' \in {ReadDocument(p), d, server.app[p]}
  BY <1>2, <1>4 DEF ReadDocument
<1>7. ReadDocument(p)'.v <= server'.writes
  <2>1. CASE server.writable
    <3>1. ReadDocument(p)' = d
      BY <1>1, <1>2, <1>3, <2>1 DEF ReadDocument
    <3> QED BY <1>1, <1>2, <1>4, <3>1 DEF Docs
  <2>2. CASE ~server.writable
    <3>1. ReadDocument(p)' \in {ReadDocument(p), d}
      BY <1>1, <1>2, <1>3, <2>2 DEF ReadDocument
    <3> QED BY <1>1, <1>2, <1>4, <3>1 DEF Docs
  <2> QED BY <1>1, <2>1, <2>2
<1>8. \A q \in Panels \ {p} : ReadDocument(q)'.v <= server'.writes
  BY <1>1, <1>4, <1>5 DEF Docs
<1>9. ~server'.fellBack => \A q \in Panels : server'.app[q] = Nil
  BY <1>4 DEF DocsKept
<1>10. DocsKept'
  BY <1>4, <1>7, <1>8, <1>9 DEF DocsKept
<1>11. ~server'.fellBack => ReadDocument(p)' = d
  BY <1>1, <1>2, <1>4 DEF ReadDocument
<1>12. ASSUME ~server'.fellBack, NEW q \in Panels, NEW e \in Docs, Known(q, e) PROVE Known(q, e)'
  BY <1>1, <1>2, <1>5, <1>11, <1>12 DEF Known, Docs
<1>13. ASSUME ~server'.fellBack, NEW e, e = d PROVE Known(p, e)'
  BY <1>2, <1>11, <1>13 DEF Known, Docs
<1> QED BY <1>2, <1>4, <1>5, <1>10, <1>11, <1>12, <1>13 DEF d

\* The documents of a request are documents.
LEMMA CarriedDocs ==
  ASSUME NEW r \in DocRequests
  PROVE  /\ r.op = "load" => \A p \in DOMAIN r.docs : p \in Panels /\ r.docs[p] \in Docs
         /\ r.op = "save" => r.panel \in Panels /\ r.over \in Docs
         /\ r.op = "save" /\ r.stage = "ok" => r.doc \in Docs
BY DEF DocRequests, LoadsOfDocs, SavesSent, SavesDone, DocParts

LEMMA OthersKept ==
  ASSUME RoadmapInv, NEW p \in Panels, OthersWrite(p)
  PROVE  RoadmapInv'
<1>1. RoadmapTyped /\ Written(p) /\ Open' = Open /\ page' = page
  BY DEF RoadmapInv, OthersWrite, Open
<1>2. DocsKept' /\ (server.fellBack => server'.fellBack)
  BY <1>1, WrittenKept DEF RoadmapTyped
<1>3. ASSUME ~server'.fellBack PROVE HeldKnown'
  <2>1. HeldKnown
    BY <1>2, <1>3 DEF RoadmapInv
  <2>2. \A q \in Panels, d \in Docs : Known(q, d) => Known(q, d)'
    BY <1>1, <1>3, WrittenKept DEF RoadmapTyped
  <2>3. \A q \in Panels : Known(q, page[q].doc)'
    BY <1>1, <2>1, <2>2 DEF HeldKnown, RoadmapTyped, RoadmapState, PanelState
  <2>4. \A r \in Open : r \in DocRequests
    BY <1>1 DEF RoadmapTyped
  <2> QED BY <1>1, <2>1, <2>2, <2>3, <2>4, CarriedDocs DEF HeldKnown
<1>4. RoadmapBusyMeansWaiting'
  BY <1>1 DEF RoadmapInv, RoadmapBusyMeansWaiting, Pending
<1> QED BY <1>1, <1>2, <1>3, <1>4 DEF RoadmapInv, RoadmapTyped

\* The server answers with what is current, or refuses.
LEMMA ServedKept ==
  ASSUME RoadmapInv, NEW r \in Open, ServeRoadmap(r)
  PROVE  RoadmapInv'
<1>0. /\ page \in RoadmapState /\ RoadmapBusyMeansWaiting /\ DocsKept
      /\ r \in DocRequests /\ Open \subseteq DocRequests
      /\ ~server.fellBack => HeldKnown
      /\ page' = page
  BY DEF RoadmapInv, RoadmapTyped, ServeRoadmap
\* Enough to show of the request as it is answered.
<1>1. ASSUME NEW x \in DocRequests, Reply(r, x), x.op = r.op, r.op = "save" => x.panel = r.panel,
             DocsKept', server.fellBack => server'.fellBack,
             ~server'.fellBack => \A q \in Panels, d \in Docs : Known(q, d) => Known(q, d)',
             ~server'.fellBack =>
               /\ x.op = "load" => \A p \in DOMAIN x.docs : Known(p, x.docs[p])'
               /\ x.op = "save" => Known(x.panel, x.over)'
               /\ x.op = "save" /\ x.stage = "ok" => Known(x.panel, x.doc)'
      PROVE  RoadmapInv'
  <2>1. Open' \subseteq Open \cup {x} /\ Open \subseteq Open' \cup {r} /\ x \in Open'
    BY <1>1, ReplyOpens
  <2>2. RoadmapBusyMeansWaiting'
    <3> SUFFICES ASSUME NEW p \in Panels
                 PROVE  /\ page[p].phase = "loading" => Pending("load")' # {}
                        /\ page[p].phase = "saving" => \E y \in Pending("save")' : y.panel = p
      BY <1>0 DEF RoadmapBusyMeansWaiting
    <3>1. ASSUME NEW y \in Open
          PROVE  \E z \in Open' : z.op = y.op /\ (y.op = "save" => z.panel = y.panel)
      BY <1>1, <2>1
    <3>2. page[p].phase = "loading" => \E y \in Open : y.op = "load"
      BY <1>0 DEF RoadmapBusyMeansWaiting, Pending
    <3>3. page[p].phase = "saving" => \E y \in Open : y.op = "save" /\ y.panel = p
      BY <1>0 DEF RoadmapBusyMeansWaiting, Pending
    <3> QED BY <3>1, <3>2, <3>3 DEF Pending
  <2>3. ASSUME ~server'.fellBack PROVE HeldKnown'
    <3>1. HeldKnown /\ \A q \in Panels, d \in Docs : Known(q, d) => Known(q, d)'
      BY <1>0, <1>1, <2>3
    <3>2. \A q \in Panels : Known(q, page[q].doc)'
      BY <1>0, <3>1 DEF HeldKnown, RoadmapState, PanelState
    <3>3. ASSUME NEW y \in Open'
          PROVE  /\ y.op = "load" => \A p \in DOMAIN y.docs : Known(p, y.docs[p])'
                 /\ y.op = "save" => Known(y.panel, y.over)'
                 /\ y.op = "save" /\ y.stage = "ok" => Known(y.panel, y.doc)'
      <4>1. CASE y \in Open
        BY <1>0, <3>1, <4>1, CarriedDocs DEF HeldKnown
      <4>2. CASE y = x
        BY <1>1, <2>3, <4>2
      <4> QED BY <2>1, <4>1, <4>2
    <3> QED BY <3>2, <3>3 DEF HeldKnown
  <2>4. Open' \subseteq DocRequests
    BY <1>0, <1>1, <2>1
  <2> QED BY <1>0, <1>1, <2>2, <2>3, <2>4 DEF RoadmapInv, RoadmapTyped
<1>2. CASE r.op = "load"
  <2>1. PICK p \in Panels \ DOMAIN r.docs :
          LET docs == With(r.docs, p, ReadDocument(p))
          IN Reply(r, [r EXCEPT !.docs = docs,
                         !.stage = IF DOMAIN docs = Panels THEN "ok" ELSE @]) /\ UNCHANGED server
    BY <1>2 DEF ServeRoadmap
  <2> DEFINE docs == With(r.docs, p, ReadDocument(p))
             x == [r EXCEPT !.docs = docs, !.stage = IF DOMAIN docs = Panels THEN "ok" ELSE @]
  <2>2. r \in LoadsOfDocs /\ r.stage = "sent"
    BY <1>0, <1>2 DEF ServeRoadmap, DocRequests, SavesSent, SavesDone
  <2>3. /\ DOMAIN docs = DOMAIN r.docs \cup {p} /\ DOMAIN r.docs \subseteq Panels
        /\ \A q \in DOMAIN docs : docs[q] = IF q = p THEN ReadDocument(p) ELSE r.docs[q]
        /\ \A q \in DOMAIN docs : docs[q] \in Docs
    BY <1>0, <2>1, <2>2, DocRead DEF LoadsOfDocs, DocParts, With
  <2>4. docs \in [DOMAIN docs -> Docs]
    <3>1. docs = [q \in DOMAIN docs |-> docs[q]]
      BY DEF With
    <3> HIDE DEF docs
    <3> QED BY <2>3, <3>1
  <2> HIDE DEF docs
  <2>5. docs \in DocParts
    BY <2>1, <2>3, <2>4 DEF DocParts
  <2>6. /\ x \in LoadsOfDocs /\ x.op = "load" /\ x.docs = docs
    BY <2>2, <2>5 DEF LoadsOfDocs
  <2>7. Reply(r, x) /\ UNCHANGED server
    BY <2>1 DEF docs
  <2>8. \A q \in Panels : ReadDocument(q)' = ReadDocument(q)
    BY <2>7 DEF ReadDocument
  <2>9. \A q \in Panels, d \in Docs : Known(q, d) => Known(q, d)'
    BY <2>8 DEF Known
  <2>10. DocsKept'
    BY <1>0, <2>7, <2>8 DEF DocsKept
  <2>11. ASSUME ~server'.fellBack, NEW q \in DOMAIN docs, NEW e, e = docs[q] PROVE Known(q, e)'
    <3>1. HeldKnown
      BY <1>0, <2>7, <2>11
    <3>2. CASE q = p
      BY <2>1, <2>3, <2>8, <2>11, <3>2 DEF Known, Docs
    <3>3. CASE q # p
      <4>1. q \in DOMAIN r.docs /\ docs[q] = r.docs[q] /\ q \in Panels
        BY <2>3, <2>11, <3>3
      <4>2. Known(q, r.docs[q])
        BY <1>2, <3>1, <4>1 DEF HeldKnown
      <4> QED BY <2>3, <2>9, <2>11, <4>1, <4>2
    <3> QED BY <3>2, <3>3
  <2> HIDE DEF x
  <2>12. x \in DocRequests
    BY <2>6 DEF DocRequests
  <2> QED BY <1>1, <1>2, <2>6, <2>7, <2>9, <2>10, <2>11, <2>12
<1>3. CASE r.op # "load"
  <2>1. r.op = "save" /\ Written(r.panel) /\ Reply(r, AnsweredWith(r, [doc |-> NextDoc(r.panel)]))
    BY <1>3 DEF ServeRoadmap
  <2>2. r \in SavesSent /\ r.panel \in Panels /\ r.over \in Docs
    BY <1>0, <2>1 DEF ServeRoadmap, DocRequests, LoadsOfDocs, SavesSent, SavesDone
  <2> DEFINE x == AnsweredWith(r, [doc |-> NextDoc(r.panel)])
  <2>3. NextDoc(r.panel) \in Docs
    BY <1>0, <2>1, <2>2, WrittenKept
  <2>4. x = [op |-> "save", stage |-> "ok", panel |-> r.panel, expected |-> r.expected,
             over |-> r.over, doc |-> NextDoc(r.panel)]
    BY <2>2 DEF SavesSent, Answered, AnsweredWith, Joined
  <2>5. x \in SavesDone
    BY <2>2, <2>3, <2>4 DEF SavesDone, SavesSent
  <2>6. ~server'.fellBack => /\ \A q \in Panels, d \in Docs : Known(q, d) => Known(q, d)'
                            /\ \A e : e = NextDoc(r.panel) => Known(r.panel, e)'
    BY <1>0, <2>1, <2>2, WrittenKept
  <2>7. DocsKept' /\ (server.fellBack => server'.fellBack)
    BY <1>0, <2>1, <2>2, WrittenKept
  <2>8. ~server'.fellBack => Known(r.panel, r.over)'
    BY <1>0, <2>1, <2>2, <2>6, <2>7 DEF HeldKnown
  <2>9. Reply(r, x)
    BY <2>1
  <2>10. x.op = "save" /\ x.panel = r.panel /\ x.over = r.over /\ x.doc = NextDoc(r.panel)
    BY <2>4
  <2> HIDE DEF x
  <2> QED BY <1>1, <2>1, <2>5, <2>6, <2>7, <2>8, <2>9, <2>10 DEF DocRequests
<1> QED BY <1>2, <1>3

LEMMA RoadmapKept ==
  ASSUME RoadmapInv, RoadmapNext
  PROVE  RoadmapInv'
<1>1. CASE StorageTurns
  <2>1. /\ server' = [server EXCEPT !.writable = ~@] /\ Open' = Open /\ page' = page
        /\ DocsKept
    BY <1>1 DEF StorageTurns, Open, RoadmapInv, RoadmapTyped
  <2>2. server'.work = server.work /\ server'.app = server.app /\ server'.fellBack = server.fellBack
        /\ server'.writes = server.writes
        /\ server' \in [ work : [Panels -> Docs \cup {Nil}], app : [Panels -> Docs \cup {Nil}],
                  writes : 0..MaxWrites, writable : BOOLEAN, fellBack : BOOLEAN ]
    BY <2>1 DEF DocsKept
  <2>3. \A p \in Panels : ReadDocument(p)' = ReadDocument(p)
    BY <2>2 DEF ReadDocument
  <2>4. DocsKept'
    BY <2>1, <2>2, <2>3 DEF DocsKept
  <2>5. \A p \in Panels : \A d : Known(p, d)' <=> Known(p, d)
    BY <2>3 DEF Known
  <2>6. \A r \in Open : r \in DocRequests
    BY DEF RoadmapInv, RoadmapTyped
  <2>7. HeldKnown => HeldKnown'
    BY <2>1, <2>5, <2>6, CarriedDocs DEF HeldKnown
  <2> QED BY <2>1, <2>2, <2>4, <2>7 DEF RoadmapInv, RoadmapTyped, RoadmapBusyMeansWaiting, Pending
<1>2. CASE \E r \in Open : ServeRoadmap(r) \/ RoadmapAnswer(r)
  BY <1>2, ServedKept, RoadmapAnswers DEF RoadmapAnswer
<1>3. CASE AppendTask
  BY <1>3, RoadmapUser DEF Panels
<1>4. CASE \E p \in Panels : \/ ClickReload(p) \/ KeepDraft(p) \/ DiscardAndReload(p)
                             \/ ClickSave(p) \/ OthersWrite(p)
                             \/ \E e, b \in BOOLEAN : Edit(p, e, b)
  BY <1>4, RoadmapUser, OthersKept
<1> QED BY <1>1, <1>2, <1>3, <1>4 DEF RoadmapNext

\* A save that is accepted was made from the current document.
LEMMA SavesKnown ==
  ASSUME RoadmapInv
  PROVE  server.fellBack \/
         \A r \in Pending("save") :
           (r.stage = "sent" /\ r.expected = ReadDocument(r.panel).v)
             => r.over = ReadDocument(r.panel)
BY DEF RoadmapInv, RoadmapTyped, HeldKnown, Known, Pending, DocRequests, LoadsOfDocs, SavesSent, SavesDone

-----------------------------------------------------------------------------
(***************************************************************************)
(* The runs.                                                               *)
(***************************************************************************)
Closures == [empty : BOOLEAN, filter : Filters]
RunLoads == [op : {"runs"}, stage : {"sent"}, filter : Filters,
             handler : {"load", "create", "state"}, live : BOOLEAN]
RunLists == [op : {"runs"}, stage : {"ok"}, filter : Filters,
             handler : {"load", "create", "state"}, live : BOOLEAN, rows : Listings]
RunCreations == [op : {"create"}, stage : {"sent", "ok"}, closure : Closures, live : BOOLEAN]
RunOrders == [op : {"state"}, stage : {"sent", "ok"}, closure : Closures, run : Runs,
              to : RunStates, live : BOOLEAN]
RunsAsked == RunLoads \cup RunLists \cup RunCreations \cup RunOrders

RunsInv ==
  /\ page \in RunsState /\ server \in Listings
  /\ Open \subseteq RunsAsked
  /\ page.load = "loading" => Pending("runs") # {}
  /\ page.saving <=> RunChain # {}
  /\ OneAtMost(RunChain)

\* A listing of the runs is a function from some of them.
LEMMA ListingShape ==
  ASSUME NEW q
  PROVE  q \in Listings <=> DOMAIN q \subseteq Runs /\ q \in [DOMAIN q -> RunStates]
BY DEF Listings

\* Whether an open request is in the chain is written in the request.
RunChained(r) == r.live /\ (r.op = "create" \/ (r.op = "runs" /\ r.handler = "create"))

LEMMA RunChainIs ==
  /\ RunChain = {r \in Open : RunChained(r)}
  /\ RunChain' = {r \in Open' : RunChained(r)}
BY DEF RunChain, RunChained

LEMMA RunsStart ==
  ASSUME NEW f \in Listings, RunsMounted(f)
  PROVE  RunsInv'
<1> DEFINE x == ListRuns(Closure(FirstRuns), "load")
<1>1. page' = FirstRuns /\ server' = f /\ Open' = {x}
  BY MountOpens DEF RunsMounted, Mounting
<1>2. <<>> \in Listings
  <2>1. DOMAIN <<>> = {} /\ <<>> \in [{} -> RunStates]
    OBVIOUS
  <2> QED BY <2>1, ListingShape
<1>3. FirstRuns \in RunsState
  BY <1>2 DEF FirstRuns, RunsState, Filters
<1>4. x \in RunLoads /\ x.handler = "load" /\ x.op = "runs"
  BY DEF ListRuns, Closure, FirstRuns, RunLoads, Filters
<1>5. RunChain' = {}
  BY <1>1, <1>4, RunChainIs DEF RunChained
<1> HIDE DEF x
<1>6. Pending("runs")' # {} /\ Open' \subseteq RunsAsked
  BY <1>1, <1>4 DEF Pending, RunsAsked
<1> QED BY <1>1, <1>3, <1>5, <1>6 DEF RunsInv, FirstRuns, OneAtMost

\* A step of the page alone.
LEMMA RunsEdited ==
  ASSUME RunsInv, NEW p \in RunsState, Edits(p), p.load = page.load, p.saving = page.saving
  PROVE  RunsInv'
BY DEF RunsInv, Edits, RunChain, Pending, Open, OneAtMost, Copies

\* What a handler closes over, and the load that it begins.
LEMMA RunsCloses ==
  ASSUME NEW p \in RunsState
  PROVE  Closure(p) \in Closures
BY DEF Closure, Closures, RunsState

LEMMA RunsBegun ==
  ASSUME NEW p \in RunsState, NEW c \in Closures, NEW h \in {"load", "create", "state"}
  PROVE  /\ Begun(p, c) \in RunsState /\ Begun(p, c).saving = p.saving
         /\ ListRuns(c, h) \in RunLoads /\ ListRuns(c, h).op = "runs" /\ ListRuns(c, h).handler = h
         /\ ListRuns(c, h).live
BY DEF Closures, Begun, RunsState, ListRuns, RunLoads

\* A request that is no part of the chain.
LEMMA RunsAsks ==
  ASSUME RunsInv, NEW x \in RunsAsked, Ask(x), RunChained(x) => RunChain = {},
         page' \in RunsState, page'.saving <=> (page.saving \/ RunChained(x)),
         page'.load = "loading" => page.load = "loading" \/ x.op = "runs", server' = server
  PROVE  RunsInv'
<1>1. Open' = Open \cup {x}
  BY AskOpens
<1>2. /\ RunChain' = RunChain \cup (RunChain' \cap {x})
      /\ \A y, z \in RunChain' : y = z /\ Copies(y)' = 1
  <2> DEFINE C == RunChain
             D == RunChain'
  <2>1. /\ C \subseteq Open /\ D \subseteq Open' /\ \A y \in Open : y \in D <=> y \in C
        /\ x \in D => C = {}
    BY <1>1, RunChainIs
  <2>2. OneAtMost(C)
    BY DEF RunsInv
  <2> HIDE DEF C, D
  <2>3. D = C \cup (D \cap {x}) /\ \A y, z \in D : y = z /\ Copies(y)' = 1
    BY <2>1, <2>2, ChainAsk
  <2> QED BY <2>3 DEF C, D
<1>3. page'.saving <=> RunChain' # {}
  BY <1>1, <1>2, RunChainIs DEF RunsInv
<1>4. page'.load = "loading" => Pending("runs")' # {}
  BY <1>1 DEF RunsInv, Pending
<1> QED BY <1>1, <1>2, <1>3, <1>4 DEF RunsInv, OneAtMost

\* A request goes on as another, x.
LEMMA RunsFollows ==
  ASSUME RunsInv, NEW r \in Open, NEW x \in RunsAsked, wire' = BagAdd(Settled(r), x),
         RunChained(x) => RunChained(r),
         page' \in RunsState, server' \in Listings,
         page'.saving <=> (IF RunChained(r) THEN RunChained(x) ELSE page.saving),
         page'.load = "loading" => page.load = "loading" \/ x.op = "runs",
         r.op = "runs" => x.op = "runs" \/ page'.load # "loading"
  PROVE  RunsInv'
<1>1. Open' \subseteq Open \cup {x} /\ Open \subseteq Open' \cup {r} /\ x \in Open'
  BY FollowOpens
<1> DEFINE C == RunChain
           D == RunChain'
<1>2. /\ C \subseteq Open /\ D \subseteq Open' /\ \A y \in Open : y \in Open' => (y \in D <=> y \in C)
      /\ x \in D => r \in C
  BY <1>1, RunChainIs
<1>3. OneAtMost(C) /\ (page.saving <=> C # {})
  BY DEF RunsInv
<1>4. (x \in D <=> RunChained(x)) /\ (r \in C <=> RunChained(r))
  BY <1>1, RunChainIs
<1> HIDE DEF C, D
<1>5. /\ r \in C => D = D \cap {x}
      /\ r \notin C => D = C
      /\ \A y, z \in D : y = z /\ Copies(y)' = 1
  BY <1>2, <1>3, ChainFollow, ZenonT(60)
<1>6. page'.saving <=> D # {}
  BY <1>3, <1>4, <1>5
<1>7. page'.load = "loading" => Pending("runs")' # {}
  BY <1>1 DEF RunsInv, Pending
<1>8. Open' \subseteq RunsAsked
  BY <1>1 DEF RunsInv
<1> QED BY <1>5, <1>6, <1>7, <1>8 DEF RunsInv, OneAtMost, D

\* A request ends.
LEMMA RunsSettles ==
  ASSUME RunsInv, NEW r \in Open, wire' = Settled(r),
         page' \in RunsState, server' = server,
         page'.saving <=> (page.saving /\ ~RunChained(r)),
         page'.load = "loading" => page.load = "loading" /\ r.op # "runs"
  PROVE  RunsInv'
<1>1. Open' \subseteq Open /\ Open \subseteq Open' \cup {r}
  BY SettleOpens
<1> DEFINE C == RunChain
           D == RunChain'
<1>2. /\ C \subseteq Open /\ D \subseteq Open' /\ \A y \in Open : y \in Open' => (y \in D <=> y \in C)
  BY <1>1, RunChainIs
<1>3. OneAtMost(C) /\ (page.saving <=> C # {})
  BY DEF RunsInv
<1>4. r \in C <=> RunChained(r)
  BY RunChainIs
<1> HIDE DEF C, D
<1>5. /\ r \in C => D = {}
      /\ r \notin C => D = C
      /\ \A y, z \in D : y = z /\ Copies(y)' = 1
  BY <1>2, <1>3, ChainSettle
<1>6. page'.saving <=> D # {}
  BY <1>3, <1>4, <1>5
<1>7. page'.load = "loading" => Pending("runs")' # {}
  BY <1>1 DEF RunsInv, Pending
<1>8. Open' \subseteq RunsAsked
  BY <1>1 DEF RunsInv
<1> QED BY <1>5, <1>6, <1>7, <1>8 DEF RunsInv, OneAtMost, D

LEMMA RunsUserKept ==
  ASSUME RunsInv,
         \/ OpenNewRun \/ CloseNewRun \/ TypeNewRun \/ LoadRuns \/ SubmitRun \/ RunAdvances
         \/ \E x \in Runs : ToggleExpand(x) \/ \E to \in RunStates : ClickState(x, to)
         \/ \E f \in Filters : SetFilter(f)
  PROVE  RunsInv'
<1>0. page \in RunsState /\ server \in Listings
  BY DEF RunsInv
<1>1. ASSUME OpenNewRun \/ CloseNewRun \/ TypeNewRun PROVE RunsInv'
  <2>1. PICK p \in {[page EXCEPT !.dialog = TRUE], [page EXCEPT !.dialog = FALSE],
                    [page EXCEPT !.typed = TRUE]} : Edits(p)
    BY <1>1 DEF OpenNewRun, CloseNewRun, TypeNewRun
  <2>2. p \in RunsState /\ p.load = page.load /\ p.saving = page.saving
    BY <1>0, <2>1 DEF RunsState
  <2> QED BY <2>1, <2>2, RunsEdited
<1>2. ASSUME NEW x \in Runs, ToggleExpand(x) PROVE RunsInv'
  <2> DEFINE p == [page EXCEPT !.expanded = IF @ = x THEN Nil ELSE x]
  <2>1. p \in RunsState /\ p.load = page.load /\ p.saving = page.saving
    BY <1>0 DEF RunsState
  <2>2. Edits(p)
    BY <1>2 DEF ToggleExpand
  <2> HIDE DEF p
  <2> QED BY <2>1, <2>2, RunsEdited
<1>3. ASSUME NEW p \in RunsState, p.saving = page.saving, page' = Begun(p, Closure(p)),
             Ask(ListRuns(Closure(p), "load")), server' = server, p.load = page.load
      PROVE  RunsInv'
  <2> DEFINE c == Closure(p)
             x == ListRuns(c, "load")
             q == Begun(p, c)
  <2>0. /\ c \in Closures /\ page' = q /\ Ask(x)
        /\ p \in RunsState /\ p.saving = page.saving
    BY <1>3, RunsCloses
  <2> HIDE DEF c
  <2>3. q \in RunsState /\ q.saving = p.saving
    BY ONLY <2>0, RunsBegun, "load" \in {"load", "create", "state"}
  <2>4. x \in RunLoads /\ x.op = "runs" /\ x.handler = "load"
    BY ONLY <2>0, RunsBegun, "load" \in {"load", "create", "state"}
  <2> HIDE DEF x, q
  <2>1. x \in RunLoads /\ x.op = "runs" /\ x.handler = "load" /\ Ask(x)
        /\ page' \in RunsState /\ page'.saving = page.saving
    BY <2>0, <2>3, <2>4
  <2>2. x \in RunsAsked /\ ~RunChained(x)
    BY <2>1 DEF RunsAsked, RunChained
  <2> QED BY <1>3, <2>1, <2>2, RunsAsks
<1>4. ASSUME LoadRuns PROVE RunsInv'
  BY <1>0, <1>3, <1>4 DEF LoadRuns
<1>5. ASSUME NEW f \in Filters, SetFilter(f) PROVE RunsInv'
  <2> DEFINE p == [page EXCEPT !.filter = f]
  <2>1. p \in RunsState /\ p.saving = page.saving /\ p.load = page.load
    BY <1>0 DEF RunsState
  <2>2. page' = Begun(p, Closure(p)) /\ Ask(ListRuns(Closure(p), "load")) /\ server' = server
    BY <1>5 DEF SetFilter
  <2> HIDE DEF p
  <2> QED BY <1>3, <2>1, <2>2
<1>6. ASSUME SubmitRun PROVE RunsInv'
  <2>1. /\ CreateRun \in RunCreations /\ RunChained(CreateRun) /\ CreateRun.op = "create"
        /\ Ask(CreateRun)
    BY <1>0, <1>6, RunsCloses DEF CreateRun, RunCreations, RunChained, SubmitRun
  <2>2. ~page.saving /\ page' = [page EXCEPT !.saving = TRUE] /\ server' = server
    BY <1>6 DEF SubmitRun
  <2>3. page' \in RunsState /\ page'.saving /\ page'.load = page.load
    BY <1>0, <2>2 DEF RunsState
  <2>4. RunChain = {}
    BY <2>2 DEF RunsInv
  <2> QED BY <2>1, <2>2, <2>3, <2>4, RunsAsks DEF RunsAsked
<1>7. ASSUME NEW x \in Runs, NEW to \in RunStates, ClickState(x, to) PROVE RunsInv'
  <2>1. PutState(x, to) \in RunOrders /\ ~RunChained(PutState(x, to)) /\ Ask(PutState(x, to))
    BY <1>0, <1>7, RunsCloses DEF PutState, RunOrders, RunChained, ClickState
  <2> QED BY <1>0, <1>7, <2>1, RunsAsks DEF RunsAsked, ClickState
<1>8. ASSUME RunAdvances PROVE RunsInv'
  <2>1. PICK x \in DOMAIN server : \E to \in NextRunActions[server[x]] : server' = [server EXCEPT ![x] = to]
    BY <1>8 DEF RunAdvances
  <2>2. server[x] \in RunStates
    BY <1>0, ListingShape
  <2>3. NextRunActions[server[x]] \subseteq RunStates
    BY <2>2 DEF RunStates, NextRunActions
  <2>4. DOMAIN server' = DOMAIN server /\ server' \in [DOMAIN server -> RunStates]
    BY <1>0, <2>1, <2>3, ListingShape
  <2>5. server' \in Listings
    BY <1>0, <2>4, ListingShape
  <2> QED BY <1>8, <2>5 DEF RunAdvances, RunsInv, Pending, RunChain, Open, OneAtMost, Copies
<1> QED BY <1>1, <1>2, <1>4, <1>5, <1>6, <1>7, <1>8

LEMMA RunsServed ==
  ASSUME RunsInv, NEW r \in Open, ServeRuns(r)
  PROVE  RunsInv'
<1>0. page' = page /\ page \in RunsState /\ r \in RunsAsked /\ r.stage = "sent" /\ server \in Listings
  BY DEF RunsInv, ServeRuns
<1>r. ASSUME NEW x \in RunsAsked, Reply(r, x), x.op = r.op, RunChained(x) <=> RunChained(r),
             server' \in Listings
      PROVE  RunsInv'
  <2>1. wire' = BagAdd(Settled(r), x)
    BY <1>r DEF Reply, Settled
  <2>2. page.saving <=> (IF RunChained(r) THEN RunChained(x) ELSE page.saving)
    BY <1>r, RunChainIs DEF RunsInv
  <2>3. r.op = "runs" => x.op = "runs" \/ page'.load # "loading"
    BY <1>r
  <2> QED BY <1>0, <1>r, <2>1, <2>2, <2>3, RunsFollows
<1>1. ASSUME NEW S, S = {x \in DOMAIN server : Matches(server[x], r.filter)}, r.op = "runs",
             Reply(r, AnsweredWith(r, [rows |-> [x \in S |-> server[x]]])), server' = server
      PROVE  RunsInv'
  <2> DEFINE L == [x \in S |-> server[x]]
             x == AnsweredWith(r, [rows |-> L])
  <2>1. L \in Listings
    BY <1>0, <1>1, ListingShape
  <2> HIDE DEF L
  <2>2. r \in RunLoads
    BY <1>0, <1>1 DEF RunsAsked, RunLists, RunCreations, RunOrders
  <2>3. x = [op |-> "runs", stage |-> "ok", filter |-> r.filter, handler |-> r.handler,
             live |-> r.live, rows |-> L]
    BY <2>2 DEF RunLoads, Answered, AnsweredWith, Joined
  <2>4. x \in RunsAsked /\ x.op = r.op /\ x.live = r.live /\ x.handler = r.handler
    BY <2>1, <2>2, <2>3 DEF RunLists, RunLoads, RunsAsked
  <2>5. Reply(r, x)
    BY <1>1 DEF L
  <2> HIDE DEF x
  <2> QED BY <1>0, <1>1, <1>r, <2>4, <2>5 DEF RunChained
<1>2. ASSUME r.op \in {"create", "state"}, Reply(r, Answered(r)), server' \in Listings PROVE RunsInv'
  <2> DEFINE x == Answered(r)
  <2>1. r \in RunCreations \/ r \in RunOrders
    BY <1>0, <1>2 DEF RunsAsked, RunLists, RunLoads
  <2>2. (x \in RunCreations \/ x \in RunOrders) /\ x.op = r.op /\ x.live = r.live
    BY <2>1 DEF Answered, RunCreations, RunOrders
  <2>3. x \in RunsAsked
    BY <2>2 DEF RunsAsked
  <2> HIDE DEF x
  <2>4. RunChained(x) <=> RunChained(r)
    BY <1>2, <2>2 DEF RunChained
  <2>5. Reply(r, x)
    BY <1>2 DEF x
  <2> QED BY <1>2, <1>r, <2>2, <2>3, <2>4, <2>5
<1>3. CASE r.op = "runs"
  BY <1>1, <1>3 DEF ServeRuns
<1>4. CASE r.op = "create"
  <2>1. PICK x \in Runs \ DOMAIN server : server' = With(server, x, "pending")
    BY <1>4 DEF ServeRuns
  <2>2. DOMAIN server' = DOMAIN server \cup {x} /\ server' \in [DOMAIN server' -> RunStates]
    BY <1>0, <2>1, ListingShape DEF With, RunStates, NextRunActions
  <2>3. server' \in Listings
    BY <1>0, <2>2, ListingShape
  <2> QED BY <1>2, <1>4, <2>3 DEF ServeRuns
<1>5. CASE r.op = "state"
  <2>1. r \in RunOrders
    BY <1>0, <1>5 DEF RunsAsked, RunLists, RunLoads, RunCreations
  <2>2. server' = [server EXCEPT ![r.run] = r.to] /\ r.to \in RunStates
    BY <1>5, <2>1 DEF ServeRuns, RunOrders
  <2>3. DOMAIN server' = DOMAIN server /\ server' \in [DOMAIN server -> RunStates]
    BY <1>0, <2>2, ListingShape
  <2>4. server' \in Listings
    BY <1>0, <2>3, ListingShape
  <2> QED BY <1>2, <1>5, <2>4 DEF ServeRuns
<1> QED BY <1>3, <1>4, <1>5 DEF ServeRuns

\* Whether the dialog is left, its flag goes with the chain.
LEMMA RunsSubmitted ==
  ASSUME NEW p \in RunsState, NEW r \in RunLoads \cup RunLists
  PROVE  /\ Submitted(p, r) \in RunsState
         /\ Submitted(p, r).load = p.load
         /\ Submitted(p, r).saving <=> p.saving /\ ~RunChained(r)
BY DEF Submitted, RunsState, RunChained, RunLoads, RunLists

LEMMA RunsChangeKept ==
  ASSUME RunsInv, NEW r \in Open, NEW ok \in BOOLEAN, RunChanged(r, ok)
  PROVE  RunsInv'
<1>0. page \in RunsState /\ server \in Listings /\ server' = server
  BY DEF RunsInv, RunChanged
<1>1. /\ r \in RunCreations \/ r \in RunOrders
      /\ r.closure \in Closures /\ r.op \in {"create", "state"} /\ r.live \in BOOLEAN
  <2>1. r \in RunsAsked /\ r.op \in {"create", "state"}
    BY DEF RunsInv, RunChanged
  <2> QED BY <2>1 DEF RunsAsked, RunLoads, RunLists, RunCreations, RunOrders
<1>2. CASE ok
  <2> DEFINE y == ListRuns(r.closure, r.op)
             x == [y EXCEPT !.live = r.live]
  <2>1. y \in RunLoads /\ y.op = "runs" /\ y.handler = r.op
    BY <1>0, <1>1, RunsBegun
  <2> HIDE DEF y
  <2>2. x \in RunLoads /\ x.op = "runs" /\ x.handler = r.op /\ x.live = r.live
    BY <1>1, <2>1 DEF RunLoads
  <2>3. wire' = BagAdd(Settled(r), x) /\ page' = Begun(page, r.closure)
    BY <1>2 DEF RunChanged, y
  <2> HIDE DEF x
  <2>4. RunChained(x) <=> RunChained(r)
    BY <1>1, <2>2 DEF RunChained
  <2>5. page' \in RunsState /\ page'.saving = page.saving
    BY <1>0, <1>1, <2>3, RunsBegun
  <2>6. page.saving <=> (IF RunChained(r) THEN RunChained(x) ELSE page.saving)
    BY <2>4, RunChainIs DEF RunsInv
  <2>7. x \in RunsAsked
    BY <2>2 DEF RunsAsked
  <2> QED BY <1>0, <2>2, <2>3, <2>4, <2>5, <2>6, <2>7, RunsFollows
<1>3. CASE ~ok
  <2>1. wire' = Settled(r) /\ page' = [page EXCEPT !.saving = @ /\ ~(r.op = "create" /\ r.live)]
    BY <1>3 DEF RunChanged
  <2>2. RunChained(r) <=> r.op = "create" /\ r.live
    BY <1>1 DEF RunChained
  <2>3. page' \in RunsState /\ page'.load = page.load /\ r.op # "runs"
        /\ (page'.saving <=> (page.saving /\ ~RunChained(r)))
    BY <1>0, <1>1, <2>1, <2>2 DEF RunsState
  <2> QED BY <1>0, <2>1, <2>3, RunsSettles
<1> QED BY <1>2, <1>3

LEMMA RunsLoadKept ==
  ASSUME RunsInv, NEW r \in Open, RunsLoaded(r)
  PROVE  RunsInv'
<1>0. page \in RunsState /\ server \in Listings /\ server' = server
  BY DEF RunsInv, RunsLoaded
<1>1. r \in RunLists /\ r.rows \in Listings /\ r.op = "runs"
  <2>1. r \in RunsAsked /\ r.op = "runs" /\ r.stage = "ok"
    BY DEF RunsInv, RunsLoaded, Ends
  <2> QED BY <2>1 DEF RunsAsked, RunLoads, RunLists, RunCreations, RunOrders
<1> DEFINE q == [page EXCEPT !.runs = r.rows, !.load = "idle"]
           p == Submitted(q, r)
<1>2. q \in RunsState /\ q.load = "idle" /\ q.saving = page.saving
  BY <1>0, <1>1 DEF RunsState
<1> HIDE DEF q
<1>3. p \in RunsState /\ p.load = "idle" /\ (p.saving <=> page.saving /\ ~RunChained(r))
  BY <1>1, <1>2, RunsSubmitted
<1>4. \/ page' = p /\ wire' = Settled(r)
      \/ page' = Begun(p, Closure(p)) /\ wire' = BagAdd(Settled(r), ListRuns(Closure(p), "load"))
  BY DEF RunsLoaded, q
<1> HIDE DEF p
<1>5. CASE page' = p /\ wire' = Settled(r)
  BY <1>0, <1>3, <1>5, RunsSettles
<1>6. CASE page' = Begun(p, Closure(p)) /\ wire' = BagAdd(Settled(r), ListRuns(Closure(p), "load"))
  <2> DEFINE x == ListRuns(Closure(p), "load")
  <2>1. /\ x \in RunLoads /\ x.op = "runs" /\ x.handler = "load"
        /\ page' \in RunsState /\ page'.saving = p.saving /\ wire' = BagAdd(Settled(r), x)
    <3>1. Closure(p) \in Closures
      BY <1>3, RunsCloses
    <3> QED BY <1>3, <1>6, <3>1, RunsBegun
  <2> HIDE DEF x
  <2>2. ~RunChained(x) /\ x \in RunsAsked
    BY <2>1 DEF RunChained, RunsAsked
  <2>3. page'.saving <=> (IF RunChained(r) THEN RunChained(x) ELSE page.saving)
    BY <1>3, <2>1, <2>2
  <2> QED BY <1>0, <1>1, <2>1, <2>2, <2>3, RunsFollows
<1> QED BY <1>4, <1>5, <1>6

LEMMA RunsFailKept ==
  ASSUME RunsInv, NEW r \in Open, RunsFailed(r)
  PROVE  RunsInv'
<1>0. page \in RunsState /\ server \in Listings /\ server' = server
  BY DEF RunsInv, RunsFailed
<1>1. r \in RunLoads \cup RunLists /\ r.op = "runs"
  <2>1. r \in RunsAsked /\ r.op = "runs"
    BY DEF RunsInv, RunsFailed
  <2> QED BY <2>1 DEF RunsAsked, RunLoads, RunLists, RunCreations, RunOrders
<1>2. CASE page' = Submitted([page EXCEPT !.load = "error"], r) /\ wire' = Settled(r)
  <2> DEFINE q == [page EXCEPT !.load = "error"]
  <2>1. q \in RunsState /\ q.load = "error" /\ q.saving = page.saving
    BY <1>0 DEF RunsState
  <2>2. page' = Submitted(q, r)
    BY <1>2
  <2> HIDE DEF q
  <2>3. page' \in RunsState /\ page'.load = "error" /\ (page'.saving <=> page.saving /\ ~RunChained(r))
    BY <1>1, <2>1, <2>2, RunsSubmitted
  <2> QED BY <1>0, <1>2, <2>3, RunsSettles
<1>3. CASE /\ page' = Submitted([page EXCEPT !.load = "unavailable", !.typed = FALSE,
                                             !.saving = FALSE], r)
           /\ wire' = Detached(Settled(r), {s \in Open : s.live})
  <2> DEFINE q == [page EXCEPT !.load = "unavailable", !.typed = FALSE, !.saving = FALSE]
             L == {s \in Open : s.live}
             B == Settled(r)
  <2>1. q \in RunsState /\ q.load = "unavailable" /\ ~q.saving
    BY <1>0 DEF RunsState
  <2>2. page' = Submitted(q, r)
    BY <1>3
  <2> HIDE DEF q
  <2>3. page' \in RunsState /\ page'.load = "unavailable" /\ ~page'.saving
    BY <1>1, <2>1, <2>2, RunsSubmitted
  <2>4. \A y \in Open' : \/ y \in BagToSet(B) /\ y \notin L
                         \/ \E s \in L : s \in BagToSet(B) /\ y = [s EXCEPT !.live = FALSE]
    <3>1. wire' = Detached(B, L)
      BY <1>3
    <3> HIDE DEF B, L
    <3> QED BY <3>1, DetachOpens DEF Open
  <2>5. BagToSet(B) \subseteq Open
    BY RemoveCloses DEF Settled, Open
  <2>6. ASSUME NEW s \in Open PROVE [s EXCEPT !.live = FALSE] \in RunsAsked
                                    /\ [s EXCEPT !.live = FALSE].live = FALSE
    <3>1. s \in RunsAsked
      BY DEF RunsInv
    <3> DEFINE d == [s EXCEPT !.live = FALSE]
    <3>2. CASE s \in RunLoads
      <4>1. d \in RunLoads /\ d.live = FALSE
        BY <3>2 DEF RunLoads
      <4> QED BY <4>1 DEF RunsAsked
    <3>3. CASE s \in RunLists
      <4>1. d \in RunLists /\ d.live = FALSE
        BY <3>3 DEF RunLists
      <4> QED BY <4>1 DEF RunsAsked
    <3>4. CASE s \in RunCreations
      <4>1. d \in RunCreations /\ d.live = FALSE
        BY <3>4 DEF RunCreations
      <4> QED BY <4>1 DEF RunsAsked
    <3>5. CASE s \in RunOrders
      <4>1. d \in RunOrders /\ d.live = FALSE
        BY <3>5 DEF RunOrders
      <4> QED BY <4>1 DEF RunsAsked
    <3> QED BY <3>1, <3>2, <3>3, <3>4, <3>5 DEF RunsAsked
  <2>7. \A y \in Open' : y \in RunsAsked /\ ~y.live
    <3>1. Open \subseteq RunsAsked
      BY DEF RunsInv
    <3> SUFFICES ASSUME NEW y \in Open' PROVE y \in RunsAsked /\ ~y.live
      OBVIOUS
    <3>2. CASE y \in BagToSet(B) /\ y \notin L
      BY <2>5, <3>1, <3>2
    <3>3. ASSUME NEW s \in L, y = [s EXCEPT !.live = FALSE] PROVE y \in RunsAsked /\ ~y.live
      BY <2>6, <3>3
    <3> HIDE DEF B, L
    <3> QED BY <2>4, <3>2, <3>3
  <2>8. RunChain' = {}
    BY <2>7, RunChainIs DEF RunChained
  <2> QED BY <1>0, <2>3, <2>7, <2>8 DEF RunsInv, OneAtMost
<1> QED BY <1>2, <1>3 DEF RunsFailed

LEMMA RunsKept ==
  ASSUME RunsInv, RunsNext
  PROVE  RunsInv'
BY RunsUserKept, RunsServed, RunsChangeKept, RunsLoadKept, RunsFailKept DEF RunsNext

-----------------------------------------------------------------------------
(***************************************************************************)
(* The detail of a run.                                                    *)
(***************************************************************************)
DetailShape(p) ==
  p \in [ flows : {p.flows}, loadingFlows : BOOLEAN, expanded : {p.expanded}, steps : {p.steps},
          flowDialog : {p.flowDialog}, flowSaving : BOOLEAN,
          stepFlow : {p.stepFlow}, stepSaving : BOOLEAN ]

DetailAsked(r) ==
  /\ {"op", "stage"} \subseteq DOMAIN r
  /\ r.op \in {"createFlow", "refresh", "flows", "steps", "createStep"}
  /\ r.op = "flows" => "handler" \in DOMAIN r /\ r.handler \in {"mount", "create"}
  /\ r.op = "createStep" => "live" \in DOMAIN r /\ r.live \in BOOLEAN

ListsAtMount(r) == r.op = "flows" /\ r.handler = "mount"
MakesFlow(r) == r.op \in {"createFlow", "refresh"} \/ (r.op = "flows" /\ r.handler = "create")
MakesStep(r) == r.op = "createStep" /\ r.live

DetailInv ==
  /\ DetailShape(page)
  /\ \A r \in Open : DetailAsked(r)
  /\ page.loadingFlows => \E r \in Open : ListsAtMount(r)
  /\ page.flowSaving <=> FlowChain # {}
  /\ page.stepSaving <=> StepChain # {}
  /\ OneAtMost(FlowChain) /\ OneAtMost(StepChain)

LEMMA DetailChains ==
  /\ FlowChain = {r \in Open : MakesFlow(r)} /\ FlowChain' = {r \in Open' : MakesFlow(r)}
  /\ StepChain = {r \in Open : MakesStep(r)} /\ StepChain' = {r \in Open' : MakesStep(r)}
BY DEF FlowChain, StepChain, MakesFlow, MakesStep

LEMMA DetailStarts ==
  ASSUME NEW s, DetailMounted(s)
  PROVE  DetailInv'
<1> DEFINE x == ListFlows("mount")
<1>1. Open' = {x}
  BY MountOpens DEF DetailMounted
<1>2. DetailAsked(x) /\ ListsAtMount(x) /\ ~MakesFlow(x) /\ ~MakesStep(x)
  BY DEF ListFlows, DetailAsked, ListsAtMount, MakesFlow, MakesStep
<1>3. DetailShape(page)' /\ ~page'.flowSaving /\ ~page'.stepSaving
  BY DEF DetailMounted, Mounting, DetailShape
<1> HIDE DEF x
<1>4. FlowChain' = {} /\ StepChain' = {}
  BY <1>1, <1>2, DetailChains
<1> QED BY <1>1, <1>2, <1>3, <1>4 DEF DetailInv, OneAtMost

\* A handler sends its first request.
LEMMA DetailAsks ==
  ASSUME DetailInv, NEW x, DetailAsked(x), Ask(x), ~ListsAtMount(x),
         MakesFlow(x) => ~page.flowSaving, MakesStep(x) => ~page.stepSaving,
         DetailShape(page)', page'.loadingFlows = page.loadingFlows,
         page'.flowSaving <=> page.flowSaving \/ MakesFlow(x),
         page'.stepSaving <=> page.stepSaving \/ MakesStep(x)
  PROVE  DetailInv'
<1>1. Open' = Open \cup {x}
  BY AskOpens
<1>2. /\ FlowChain' = FlowChain \cup (FlowChain' \cap {x})
      /\ \A y, z \in FlowChain' : y = z /\ Copies(y)' = 1
  <2> DEFINE C == FlowChain
             D == FlowChain'
  <2>1. /\ C \subseteq Open /\ D \subseteq Open' /\ \A y \in Open : y \in D <=> y \in C
    BY <1>1, DetailChains
  <2>2. OneAtMost(C) /\ (x \in D => C = {})
    BY <1>1, DetailChains DEF DetailInv
  <2> HIDE DEF C, D
  <2>3. D = C \cup (D \cap {x}) /\ \A y, z \in D : y = z /\ Copies(y)' = 1
    BY <2>1, <2>2, ChainAsk
  <2> QED BY <2>3 DEF C, D
<1>3. /\ StepChain' = StepChain \cup (StepChain' \cap {x})
      /\ \A y, z \in StepChain' : y = z /\ Copies(y)' = 1
  <2> DEFINE C == StepChain
             D == StepChain'
  <2>1. /\ C \subseteq Open /\ D \subseteq Open' /\ \A y \in Open : y \in D <=> y \in C
    BY <1>1, DetailChains
  <2>2. OneAtMost(C) /\ (x \in D => C = {})
    BY <1>1, DetailChains DEF DetailInv
  <2> HIDE DEF C, D
  <2>3. D = C \cup (D \cap {x}) /\ \A y, z \in D : y = z /\ Copies(y)' = 1
    BY <2>1, <2>2, ChainAsk
  <2> QED BY <2>3 DEF C, D
<1>4. /\ page'.flowSaving <=> FlowChain' # {}
      /\ page'.stepSaving <=> StepChain' # {}
  BY <1>1, <1>2, <1>3, DetailChains DEF DetailInv
<1> QED BY <1>1, <1>2, <1>3, <1>4 DEF DetailInv, OneAtMost

\* A handler goes on: r becomes x.
LEMMA DetailFollows ==
  ASSUME DetailInv, NEW r \in Open, NEW x, DetailAsked(x), wire' = BagAdd(Settled(r), x),
         MakesFlow(x) => MakesFlow(r), MakesStep(x) => MakesStep(r),
         DetailShape(page)', page'.loadingFlows => page.loadingFlows,
         page'.loadingFlows /\ ListsAtMount(r) => ListsAtMount(x),
         page'.flowSaving <=> (IF MakesFlow(r) THEN MakesFlow(x) ELSE page.flowSaving),
         page'.stepSaving <=> (IF MakesStep(r) THEN MakesStep(x) ELSE page.stepSaving)
  PROVE  DetailInv'
<1>1. Open' \subseteq Open \cup {x} /\ Open \subseteq Open' \cup {r} /\ x \in Open'
  BY FollowOpens
<1>2. /\ r \in FlowChain => FlowChain' = FlowChain' \cap {x}
      /\ r \notin FlowChain => FlowChain' = FlowChain
      /\ \A y, z \in FlowChain' : y = z /\ Copies(y)' = 1
  <2> DEFINE C == FlowChain
             D == FlowChain'
  <2>1. /\ C \subseteq Open /\ D \subseteq Open' /\ \A y \in Open : y \in Open' => (y \in D <=> y \in C)
        /\ x \in D => r \in C
    BY <1>1, DetailChains
  <2>2. OneAtMost(C)
    BY DEF DetailInv
  <2> HIDE DEF C, D
  <2>3. /\ r \in C => D = D \cap {x}
        /\ r \notin C => D = C
        /\ \A y, z \in D : y = z /\ Copies(y)' = 1
    BY <2>1, <2>2, ChainFollow, ZenonT(30)
  <2> QED BY <2>3 DEF C, D
<1>3. /\ r \in StepChain => StepChain' = StepChain' \cap {x}
      /\ r \notin StepChain => StepChain' = StepChain
      /\ \A y, z \in StepChain' : y = z /\ Copies(y)' = 1
  <2> DEFINE C == StepChain
             D == StepChain'
  <2>1. /\ C \subseteq Open /\ D \subseteq Open' /\ \A y \in Open : y \in Open' => (y \in D <=> y \in C)
        /\ x \in D => r \in C
    BY <1>1, DetailChains
  <2>2. OneAtMost(C)
    BY DEF DetailInv
  <2> HIDE DEF C, D
  <2>3. /\ r \in C => D = D \cap {x}
        /\ r \notin C => D = C
        /\ \A y, z \in D : y = z /\ Copies(y)' = 1
    BY <2>1, <2>2, ChainFollow, ZenonT(30)
  <2> QED BY <2>3 DEF C, D
<1>4. /\ page'.flowSaving <=> FlowChain' # {}
      /\ page'.stepSaving <=> StepChain' # {}
  BY <1>1, <1>2, <1>3, DetailChains DEF DetailInv
<1>5. page'.loadingFlows => \E y \in Open' : ListsAtMount(y)
  BY <1>1 DEF DetailInv
<1> QED BY <1>1, <1>2, <1>3, <1>4, <1>5 DEF DetailInv, OneAtMost

\* A request ends.
LEMMA DetailSettles ==
  ASSUME DetailInv, NEW r \in Open, wire' = Settled(r),
         DetailShape(page)', page'.loadingFlows => page.loadingFlows /\ ~ListsAtMount(r),
         page'.flowSaving <=> (page.flowSaving /\ ~MakesFlow(r)),
         page'.stepSaving <=> (page.stepSaving /\ ~MakesStep(r))
  PROVE  DetailInv'
<1>1. Open' \subseteq Open /\ Open \subseteq Open' \cup {r}
  BY SettleOpens
<1>2. /\ r \in FlowChain => FlowChain' = {}
      /\ r \notin FlowChain => FlowChain' = FlowChain
      /\ \A y, z \in FlowChain' : y = z /\ Copies(y)' = 1
  <2> DEFINE C == FlowChain
             D == FlowChain'
  <2>1. /\ C \subseteq Open /\ D \subseteq Open' /\ \A y \in Open : y \in Open' => (y \in D <=> y \in C)
    BY <1>1, DetailChains
  <2>2. OneAtMost(C)
    BY DEF DetailInv
  <2> HIDE DEF C, D
  <2>3. /\ r \in C => D = {}
        /\ r \notin C => D = C
        /\ \A y, z \in D : y = z /\ Copies(y)' = 1
    BY <2>1, <2>2, ChainSettle
  <2> QED BY <2>3 DEF C, D
<1>3. /\ r \in StepChain => StepChain' = {}
      /\ r \notin StepChain => StepChain' = StepChain
      /\ \A y, z \in StepChain' : y = z /\ Copies(y)' = 1
  <2> DEFINE C == StepChain
             D == StepChain'
  <2>1. /\ C \subseteq Open /\ D \subseteq Open' /\ \A y \in Open : y \in Open' => (y \in D <=> y \in C)
    BY <1>1, DetailChains
  <2>2. OneAtMost(C)
    BY DEF DetailInv
  <2> HIDE DEF C, D
  <2>3. /\ r \in C => D = {}
        /\ r \notin C => D = C
        /\ \A y, z \in D : y = z /\ Copies(y)' = 1
    BY <2>1, <2>2, ChainSettle
  <2> QED BY <2>3 DEF C, D
<1>4. /\ page'.flowSaving <=> FlowChain' # {}
      /\ page'.stepSaving <=> StepChain' # {}
  BY <1>1, <1>2, <1>3, DetailChains DEF DetailInv
<1>5. page'.loadingFlows => \E y \in Open' : ListsAtMount(y)
  BY <1>1 DEF DetailInv
<1> QED BY <1>1, <1>2, <1>3, <1>4, <1>5 DEF DetailInv, OneAtMost

\* The dialog for a step is gone, and with it the chain of its handler; B is the
\* wire without what has been settled.
LEMMA DetailDetaches ==
  ASSUME DetailInv, NEW B, BagToSet(B) \subseteq Open, wire' = Detached(B, StepChain),
         \A y \in Open : MakesFlow(y) => y \in BagToSet(B) /\ B[y] = wire[y],
         \A y \in Open : ListsAtMount(y) => y \in BagToSet(B),
         DetailShape(page)', page'.loadingFlows = page.loadingFlows,
         page'.flowSaving = page.flowSaving, ~page'.stepSaving
  PROVE  DetailInv'
<1>1. \A y \in Open' : \/ y \in Open /\ y \notin StepChain
                       \/ \E s \in StepChain : y = [s EXCEPT !.live = FALSE]
  BY DetachOpens DEF Open
<1>2. \A s \in StepChain : DetailAsked(s) /\ s \in Open /\ MakesStep(s)
  BY DetailChains DEF DetailInv
<1>3. ASSUME NEW s \in StepChain, NEW y, y = [s EXCEPT !.live = FALSE]
      PROVE  DetailAsked(y) /\ ~MakesStep(y) /\ ~MakesFlow(y) /\ y.op = "createStep"
  BY <1>2, <1>3 DEF DetailAsked, MakesStep, MakesFlow
<1>4. \A y \in Open' : DetailAsked(y) /\ ~MakesStep(y)
  BY <1>1, <1>3, DetailChains DEF DetailInv
<1>5. StepChain' = {}
  BY <1>4, DetailChains
<1>6. ASSUME NEW y \in Open, MakesFlow(y) \/ ListsAtMount(y) PROVE y \in Open'
  <2>1. y \notin StepChain /\ y \in BagToSet(B)
    BY <1>6, DetailChains DEF MakesFlow, ListsAtMount, MakesStep
  <2> QED BY <2>1, DetachOpens DEF Open
<1>7. ASSUME NEW y \in Open', MakesFlow(y) PROVE y \in Open
  BY <1>1, <1>3, <1>7
<1>8. FlowChain' = FlowChain
  BY <1>6, <1>7, DetailChains
<1>9. ASSUME NEW y \in FlowChain PROVE Copies(y)' = 1
  <2>1. y \in Open /\ MakesFlow(y) /\ Copies(y) = 1
    BY <1>9, DetailChains DEF DetailInv, OneAtMost
  <2>2. y \in BagToSet(B) /\ B[y] = 1 /\ y \notin StepChain
    BY <2>1, DetailChains DEF MakesFlow, MakesStep, Copies, Open, BagToSet
  <2>3. \A s \in StepChain : [s EXCEPT !.live = FALSE] # y
    BY <1>3, <2>1
  <2>4. Detached(B, StepChain)[y] = 1
    BY <2>2, <2>3, DetachCopies
  <2>5. y \in Open'
    BY <1>6, <2>1
  <2> QED BY <2>4, <2>5 DEF Copies, Open, BagToSet
<1>10. OneAtMost(FlowChain)'
  BY <1>8, <1>9 DEF DetailInv, OneAtMost
<1>11. page'.loadingFlows => \E y \in Open' : ListsAtMount(y)
  BY <1>6 DEF DetailInv
<1> QED BY <1>4, <1>5, <1>8, <1>10, <1>11 DEF DetailInv, OneAtMost

\* A step of the page alone.
LEMMA DetailEdited ==
  ASSUME DetailInv, DetailShape(page)', UNCHANGED wire, page'.loadingFlows = page.loadingFlows,
         page'.flowSaving = page.flowSaving, page'.stepSaving = page.stepSaving
  PROVE  DetailInv'
<1>1. Open' = Open /\ FlowChain' = FlowChain /\ StepChain' = StepChain
  BY DetailChains DEF Open
<1> QED BY <1>1 DEF DetailInv, OneAtMost, Copies

LEMMA DetailUserKept ==
  ASSUME DetailInv,
         \/ AddFlow \/ CloseFlowForm \/ CloseStepForm \/ SubmitFlow \/ SubmitStep
         \/ \E f \in Flows : ToggleFlow(f) \/ AddStep(f)
  PROVE  DetailInv'
<1>0. DetailShape(page)
  BY DEF DetailInv
<1>1. ASSUME NEW f, AddFlow \/ CloseFlowForm \/ AddStep(f) PROVE DetailInv'
  <2>1. /\ DetailShape(page)' /\ UNCHANGED wire /\ page'.loadingFlows = page.loadingFlows
        /\ page'.flowSaving = page.flowSaving /\ page'.stepSaving = page.stepSaving
    BY <1>0, <1>1 DEF AddFlow, CloseFlowForm, AddStep, DetailEdits, DetailShape
  <2> QED BY <2>1, DetailEdited
<1>2. ASSUME CloseStepForm PROVE DetailInv'
  <2>1. /\ DetailShape(page)' /\ page'.loadingFlows = page.loadingFlows
        /\ page'.flowSaving = page.flowSaving /\ ~page'.stepSaving
    BY <1>0, <1>2 DEF CloseStepForm, DetailShape
  <2>2. wire' = Detached(wire, StepChain)
    BY <1>2 DEF CloseStepForm
  <2> QED BY <2>1, <2>2, DetailDetaches DEF Open
<1>3. ASSUME SubmitFlow PROVE DetailInv'
  <2> DEFINE x == Query("createFlow")
  <2>1. DetailAsked(x) /\ ~ListsAtMount(x) /\ MakesFlow(x) /\ ~MakesStep(x)
    BY DEF Query, DetailAsked, ListsAtMount, MakesFlow, MakesStep
  <2>2. Ask(x) /\ page' = [page EXCEPT !.flowSaving = TRUE] /\ ~page.flowSaving
    BY <1>3 DEF SubmitFlow
  <2> HIDE DEF x
  <2>3. /\ DetailShape(page)' /\ page'.loadingFlows = page.loadingFlows
        /\ page'.flowSaving /\ page'.stepSaving = page.stepSaving
    BY <1>0, <2>2 DEF DetailShape
  <2> QED BY <2>1, <2>2, <2>3, DetailAsks
<1>4. ASSUME SubmitStep PROVE DetailInv'
  <2> DEFINE x == CreateStep(page.stepFlow)
  <2>1. DetailAsked(x) /\ ~ListsAtMount(x) /\ ~MakesFlow(x) /\ MakesStep(x)
    BY DEF CreateStep, DetailAsked, ListsAtMount, MakesFlow, MakesStep
  <2>2. Ask(x) /\ page' = [page EXCEPT !.stepSaving = TRUE] /\ ~page.stepSaving
    BY <1>4 DEF SubmitStep
  <2> HIDE DEF x
  <2>3. /\ DetailShape(page)' /\ page'.loadingFlows = page.loadingFlows
        /\ page'.flowSaving = page.flowSaving /\ page'.stepSaving
    BY <1>0, <2>2 DEF DetailShape
  <2> QED BY <2>1, <2>2, <2>3, DetailAsks
<1>5. ASSUME NEW f, ToggleFlow(f) PROVE DetailInv'
  <2> DEFINE x == GetSteps(f)
  <2>1. DetailAsked(x) /\ ~ListsAtMount(x) /\ ~MakesFlow(x) /\ ~MakesStep(x)
    BY DEF GetSteps, DetailAsked, ListsAtMount, MakesFlow, MakesStep
  <2>2. /\ DetailShape(page)' /\ page'.loadingFlows = page.loadingFlows
        /\ page'.flowSaving = page.flowSaving /\ page'.stepSaving = page.stepSaving
    BY <1>0, <1>5 DEF ToggleFlow, DetailShape
  <2>3. UNCHANGED wire \/ Ask(x)
    BY <1>5 DEF ToggleFlow
  <2> HIDE DEF x
  <2> QED BY <2>1, <2>2, <2>3, DetailAsks, DetailEdited
<1> QED BY <1>1, <1>2, <1>3, <1>4, <1>5

LEMMA DetailServed ==
  ASSUME DetailInv, NEW r \in Open, ServeDetail(r)
  PROVE  DetailInv'
<1>0. page' = page /\ DetailAsked(r) /\ DetailShape(page)
  BY DEF ServeDetail, DetailInv
<1>1. PICK x : Reply(r, x) /\ DetailAsked(x) /\ (MakesFlow(x) <=> MakesFlow(r))
               /\ (MakesStep(x) <=> MakesStep(r)) /\ (ListsAtMount(x) <=> ListsAtMount(r))
  <2>a. ASSUME NEW x, Reply(r, x), DOMAIN r \subseteq DOMAIN x,
               \A k \in DOMAIN r : k \in {"op", "handler", "live"} => x[k] = r[k]
        PROVE  \E y : /\ Reply(r, y) /\ DetailAsked(y) /\ (MakesFlow(y) <=> MakesFlow(r))
                      /\ (MakesStep(y) <=> MakesStep(r)) /\ (ListsAtMount(y) <=> ListsAtMount(r))
    <3>1. x.op = r.op /\ (r.op = "flows" => x.handler = r.handler)
          /\ (r.op = "createStep" => x.live = r.live)
      BY <1>0, <2>a DEF DetailAsked
    <3>2. DetailAsked(x)
      BY <1>0, <2>a, <3>1 DEF DetailAsked
    <3> QED BY <2>a, <3>1, <3>2 DEF MakesFlow, MakesStep, ListsAtMount
  <2>1. CASE Reply(r, Answered(r))
    BY <2>1, <2>a, AnswerKeeps
  <2>2. ASSUME NEW f, Reply(r, AnsweredWith(r, f)), DOMAIN f \cap {"op", "handler", "live"} = {}
        PROVE \E y : /\ Reply(r, y) /\ DetailAsked(y) /\ (MakesFlow(y) <=> MakesFlow(r))
                      /\ (MakesStep(y) <=> MakesStep(r)) /\ (ListsAtMount(y) <=> ListsAtMount(r))
    <3> DEFINE x == AnsweredWith(r, f)
    <3>1. /\ DOMAIN r \subseteq DOMAIN x
          /\ \A k \in DOMAIN r : k \in {"op", "handler", "live"} => x[k] = r[k]
      <4>1. DOMAIN x = DOMAIN r \cup DOMAIN f
        BY AnswerWithKeeps
      <4>2. \A k \in DOMAIN r : k \notin DOMAIN f /\ k # "stage" => x[k] = r[k]
        BY AnswerWithKeeps
      <4> QED BY <2>2, <4>1, <4>2
    <3>2. Reply(r, x)
      BY <2>2
    <3> HIDE DEF x
    <3> QED BY <2>a, <3>1, <3>2
  <2> QED BY <2>1, <2>2 DEF ServeDetail
<1>2. wire' = BagAdd(Settled(r), x)
  BY <1>1 DEF Reply, Settled
<1>3. /\ page.flowSaving <=> (IF MakesFlow(r) THEN MakesFlow(x) ELSE page.flowSaving)
      /\ page.stepSaving <=> (IF MakesStep(r) THEN MakesStep(x) ELSE page.stepSaving)
  BY <1>1, DetailChains DEF DetailInv
<1> QED BY <1>0, <1>1, <1>2, <1>3, DetailFollows

LEMMA DetailAnswersKept ==
  ASSUME DetailInv, NEW r \in Open, NEW ok \in BOOLEAN,
         Refreshed(r) \/ FlowCreated(r, ok) \/ FlowsLoaded(r, ok) \/ StepsLoaded(r, ok) \/ StepCreated(r, ok)
  PROVE  DetailInv'
<1>0. DetailAsked(r) /\ DetailShape(page)
  BY DEF DetailInv
<1>1. ASSUME Refreshed(r) PROVE DetailInv'
  <2>1. wire' = Settled(r) /\ MakesFlow(r) /\ ~MakesStep(r) /\ ~ListsAtMount(r)
    BY <1>1 DEF Refreshed, MakesFlow, MakesStep, ListsAtMount
  <2>2. /\ DetailShape(page)' /\ page'.loadingFlows = page.loadingFlows
        /\ ~page'.flowSaving /\ page'.stepSaving = page.stepSaving
    BY <1>0, <1>1 DEF Refreshed, DetailShape
  <2> QED BY <2>1, <2>2, DetailSettles
<1>2. ASSUME FlowCreated(r, ok) PROVE DetailInv'
  <2>1. MakesFlow(r) /\ ~MakesStep(r) /\ ~ListsAtMount(r)
    BY <1>2 DEF FlowCreated, MakesFlow, MakesStep, ListsAtMount
  <2>2. CASE ok
    <3> DEFINE x == ListFlows("create")
    <3>1. DetailAsked(x) /\ MakesFlow(x) /\ ~MakesStep(x)
      BY DEF ListFlows, DetailAsked, MakesFlow, MakesStep
    <3>2. wire' = BagAdd(Settled(r), x) /\ page' = page
      BY <1>2, <2>2 DEF FlowCreated
    <3> HIDE DEF x
    <3>3. page.flowSaving
      BY <2>1, DetailChains DEF DetailInv
    <3> QED BY <1>0, <2>1, <3>1, <3>2, <3>3, DetailFollows
  <2>3. CASE ~ok
    <3>1. wire' = Settled(r) /\ page' = [page EXCEPT !.flowSaving = FALSE]
      BY <1>2, <2>3 DEF FlowCreated
    <3>2. /\ DetailShape(page)' /\ page'.loadingFlows = page.loadingFlows
          /\ ~page'.flowSaving /\ page'.stepSaving = page.stepSaving
      BY <1>0, <3>1 DEF DetailShape
    <3> QED BY <2>1, <3>1, <3>2, DetailSettles
  <2> QED BY <2>2, <2>3
<1>3. ASSUME FlowsLoaded(r, ok) PROVE DetailInv'
  <2>1. r.op = "flows" /\ ~MakesStep(r)
    BY <1>3 DEF FlowsLoaded, MakesStep
  <2>2. CASE r.handler = "mount"
    <3>1. /\ wire' = Settled(r) /\ DetailShape(page)' /\ ~page'.loadingFlows
          /\ page'.flowSaving = page.flowSaving /\ page'.stepSaving = page.stepSaving
      BY <1>0, <1>3, <2>2 DEF FlowsLoaded, DetailShape
    <3>2. ~MakesFlow(r)
      BY <2>1, <2>2 DEF MakesFlow
    <3> QED BY <2>1, <3>1, <3>2, DetailSettles
  <2>3. CASE r.handler # "mount" /\ ok
    <3> DEFINE x == Query("refresh")
    <3>1. DetailAsked(x) /\ MakesFlow(x) /\ ~MakesStep(x)
      BY DEF Query, DetailAsked, MakesFlow, MakesStep
    <3>2. /\ wire' = BagAdd(Settled(r), x) /\ DetailShape(page)'
          /\ page'.loadingFlows = page.loadingFlows
          /\ page'.flowSaving = page.flowSaving /\ page'.stepSaving = page.stepSaving
      BY <1>0, <1>3, <2>3 DEF FlowsLoaded, DetailShape
    <3> HIDE DEF x
    <3>3. ~ListsAtMount(r)
      BY <2>3 DEF ListsAtMount
    <3>4. MakesFlow(r) /\ page.flowSaving
      BY <2>1, <2>3, <1>0, DetailChains DEF DetailInv, MakesFlow, DetailAsked
    <3> QED BY <2>1, <3>1, <3>2, <3>3, <3>4, DetailFollows
  <2>4. CASE r.handler # "mount" /\ ~ok
    <3>1. /\ wire' = Settled(r) /\ DetailShape(page)'
          /\ page'.loadingFlows = page.loadingFlows
          /\ ~page'.flowSaving /\ page'.stepSaving = page.stepSaving
      BY <1>0, <1>3, <2>4 DEF FlowsLoaded, DetailShape
    <3>2. MakesFlow(r) /\ ~ListsAtMount(r)
      BY <2>1, <2>4, <1>0 DEF MakesFlow, DetailAsked, ListsAtMount
    <3> QED BY <2>1, <3>1, <3>2, DetailSettles
  <2> QED BY <2>2, <2>3, <2>4
<1>4. ASSUME StepsLoaded(r, ok) PROVE DetailInv'
  <2>1. wire' = Settled(r) /\ ~MakesFlow(r) /\ ~MakesStep(r) /\ ~ListsAtMount(r)
    BY <1>4 DEF StepsLoaded, MakesFlow, MakesStep, ListsAtMount
  <2>2. /\ DetailShape(page)' /\ page'.loadingFlows = page.loadingFlows
        /\ page'.flowSaving = page.flowSaving /\ page'.stepSaving = page.stepSaving
    BY <1>0, <1>4 DEF StepsLoaded, DetailShape
  <2> QED BY <2>1, <2>2, DetailSettles
<1>5. ASSUME StepCreated(r, ok) PROVE DetailInv'
  <2>1. ~MakesFlow(r) /\ ~ListsAtMount(r) /\ r.op = "createStep" /\ r.live \in BOOLEAN
    BY <1>0, <1>5 DEF StepCreated, MakesFlow, ListsAtMount, DetailAsked
  <2>2. CASE ok
    <3>1. wire' = Detached(Settled(r), StepChain)
      BY <1>5, <2>2 DEF StepCreated
    <3>2. /\ DetailShape(page)' /\ page'.loadingFlows = page.loadingFlows
          /\ page'.flowSaving = page.flowSaving /\ ~page'.stepSaving
      BY <1>0, <1>5, <2>2 DEF StepCreated, DetailShape
    <3>3. BagToSet(Settled(r)) \subseteq Open
      BY RemoveCloses DEF Settled, Open
    <3>4. \A y \in Open : y # r => y \in BagToSet(Settled(r)) /\ Settled(r)[y] = wire[y]
      BY DEF Settled, BagRemove, Open, BagToSet
    <3> QED BY <2>1, <3>1, <3>2, <3>3, <3>4, DetailDetaches
  <2>3. CASE ~ok
    <3>1. wire' = Settled(r) /\ page' = [page EXCEPT !.stepSaving = @ /\ ~r.live]
      BY <1>5, <2>3 DEF StepCreated
    <3>2. /\ DetailShape(page)' /\ page'.loadingFlows = page.loadingFlows
          /\ page'.flowSaving = page.flowSaving /\ (page'.stepSaving <=> page.stepSaving /\ ~r.live)
      BY <1>0, <2>1, <3>1 DEF DetailShape
    <3> QED BY <2>1, <3>1, <3>2, DetailSettles DEF MakesStep
  <2> QED BY <2>2, <2>3
<1> QED BY <1>1, <1>2, <1>3, <1>4, <1>5

LEMMA DetailKept ==
  ASSUME DetailInv, DetailNext
  PROVE  DetailInv'
BY DetailUserKept, DetailServed, DetailAnswersKept DEF DetailNext

-----------------------------------------------------------------------------
(***************************************************************************)
(* The dashboard.                                                          *)
(***************************************************************************)
DashboardInv ==
  /\ "stats" \in DOMAIN page
  /\ DOMAIN server = {"agents", "roster", "nodes"}
  /\ \A r \in Open : {"op", "stage"} \subseteq DOMAIN r
  /\ DashboardBusyMeansWaiting

LEMMA DashboardLoads ==
  /\ {"op", "stage"} \subseteq DOMAIN LoadDashboard /\ LoadDashboard.op = "stats"
  /\ {"op", "stage"} \subseteq DOMAIN LoadRuntime
BY DEF LoadDashboard, LoadRuntime, Query

LEMMA DashboardStarts ==
  ASSUME DashboardMounted(FirstFleet)
  PROVE  DashboardInv'
<1>1. /\ page' = [stats |-> "loading", agents |-> <<>>, roster |-> {}, nodes |-> <<>>,
                  runtimeError |-> FALSE]
      /\ server' = FirstFleet
      /\ Open' = {LoadDashboard, LoadRuntime}
  BY MountOpens DEF DashboardMounted, Mounting
<1>2. DOMAIN server' = {"agents", "roster", "nodes"}
  BY <1>1, FirstFleetAssumption DEF Fleets
<1>3. "stats" \in DOMAIN page'
  BY <1>1
<1>4. DashboardBusyMeansWaiting'
  BY <1>1, DashboardLoads DEF DashboardBusyMeansWaiting, Pending
<1> QED BY <1>1, <1>2, <1>3, <1>4, DashboardLoads DEF DashboardInv

LEMMA DashboardKept ==
  ASSUME DashboardInv, DashboardNext, route' = "dashboard"
  PROVE  DashboardInv'
<1>0. /\ "stats" \in DOMAIN page /\ DOMAIN server = {"agents", "roster", "nodes"}
      /\ page.stats = "loading" => \E r \in Open : r.op = "stats"
  BY DEF DashboardInv, DashboardBusyMeansWaiting, Pending
<1>1. CASE RefreshDashboard
  <2>1. Open' = Open \cup {LoadDashboard, LoadRuntime}
    BY <1>1, AddOpens DEF RefreshDashboard, Open
  <2>2. "stats" \in DOMAIN page' /\ server' = server
    BY <1>0, <1>1 DEF RefreshDashboard
  <2>3. DashboardBusyMeansWaiting'
    BY <2>1, DashboardLoads DEF DashboardBusyMeansWaiting, Pending
  <2> QED BY <2>1, <2>2, <2>3, DashboardLoads DEF DashboardInv
<1>2. CASE FleetMoves
  <2>1. DOMAIN server' = DOMAIN server /\ page' = page /\ Open' = Open
    BY <1>2 DEF FleetMoves, Open
  <2> QED BY <2>1 DEF DashboardInv, DashboardBusyMeansWaiting, Pending
<1>3. CASE \E l \in Links : FollowLink(l)
  BY <1>3 DEF FollowLink
<1>4. ASSUME NEW r \in Open, ServeDashboard(r) PROVE DashboardInv'
  <2>1. PICK x : Reply(r, x) /\ {"op", "stage"} \subseteq DOMAIN x /\ x.op = r.op
    <3>0. {"op", "stage"} \subseteq DOMAIN r
      BY DEF DashboardInv
    <3>1. CASE Reply(r, Answered(r))
      BY <3>0, <3>1, AnswerKeeps
    <3>2. CASE Reply(r, AnsweredWith(r, server))
      <4> DEFINE x == AnsweredWith(r, server)
      <4>1. DOMAIN x = DOMAIN r \cup DOMAIN server
        BY AnswerWithKeeps
      <4>2. "op" \in DOMAIN r /\ "op" \notin DOMAIN server /\ "op" # "stage"
        BY <1>0, <3>0
      <4>4. x["op"] = r["op"]
        BY <4>2, AnswerWithKeeps
      <4>3. Reply(r, x)
        BY <3>2
      <4> HIDE DEF x
      <4> QED BY <3>0, <4>1, <4>3, <4>4
    <3> QED BY <1>4, <3>1, <3>2 DEF ServeDashboard
  <2>2. Open' \subseteq Open \cup {x} /\ Open \subseteq Open' \cup {r} /\ x \in Open'
    BY <2>1, ReplyOpens
  <2>3. page' = page /\ server' = server
    BY <1>4 DEF ServeDashboard
  <2> QED BY <2>1, <2>2, <2>3 DEF DashboardInv, DashboardBusyMeansWaiting, Pending
<1>5. ASSUME NEW r \in Open, NEW ok \in BOOLEAN, StatsLoaded(r, ok) \/ RuntimeLoaded(r, ok)
      PROVE  DashboardInv'
  <2>1. Open' \subseteq Open /\ Open \subseteq Open' \cup {r} /\ server' = server
    BY <1>5, SettleOpens DEF StatsLoaded, RuntimeLoaded
  <2>2. /\ "stats" \in DOMAIN page'
        /\ page'.stats = "loading" => page.stats = "loading" /\ r.op # "stats"
    <3>1. CASE StatsLoaded(r, ok)
      BY <1>0, <3>1 DEF StatsLoaded
    <3>2. CASE RuntimeLoaded(r, ok)
      BY <1>0, <3>2 DEF RuntimeLoaded
    <3> QED BY <1>5, <3>1, <3>2
  <2>3. DashboardBusyMeansWaiting'
    BY <1>0, <2>1, <2>2 DEF DashboardBusyMeansWaiting, Pending
  <2> QED BY <2>1, <2>2, <2>3 DEF DashboardInv
<1> QED BY <1>1, <1>2, <1>3, <1>4, <1>5 DEF DashboardNext

-----------------------------------------------------------------------------
(***************************************************************************)
(* The plugins.                                                            *)
(***************************************************************************)
PluginsInv ==
  /\ "loading" \in DOMAIN page
  /\ \A r \in Open : {"op", "stage"} \subseteq DOMAIN r
  /\ PluginsBusyMeansWaiting

LEMMA PluginsStart ==
  ASSUME PluginsMounted(<<>>)
  PROVE  PluginsInv'
<1>1. "loading" \in DOMAIN page' /\ Open' = {LoadPlugins}
  BY MountOpens DEF PluginsMounted, Mounting
<1>2. {"op", "stage"} \subseteq DOMAIN LoadPlugins /\ LoadPlugins.op = "lists"
  BY DEF LoadPlugins
<1> QED BY <1>1, <1>2 DEF PluginsInv, PluginsBusyMeansWaiting, Pending

LEMMA PluginsKept ==
  ASSUME PluginsInv, PluginsNext
  PROVE  PluginsInv'
<1>0. /\ "loading" \in DOMAIN page
      /\ page.loading => \E r \in Open : r.op = "lists"
  BY DEF PluginsInv, PluginsBusyMeansWaiting, Pending
<1>1. ASSUME NEW p, NEW op, Click(op, p) PROVE PluginsInv'
  <2>1. Open' = Open \cup {ChangePlugin(op, p)} /\ page' = page
    BY <1>1, AskOpens DEF Click
  <2> QED BY <2>1 DEF PluginsInv, PluginsBusyMeansWaiting, Pending, ChangePlugin
<1>2. ASSUME NEW r \in Open, ServePlugins(r) PROVE PluginsInv'
  <2>1. PICK x : Reply(r, x) /\ {"op", "stage"} \subseteq DOMAIN x /\ x.op = r.op
    <3>0. {"op", "stage"} \subseteq DOMAIN r
      BY DEF PluginsInv
    <3>1. CASE Reply(r, Answered(r))
      BY <3>0, <3>1, AnswerKeeps
    <3>2. CASE \/ Reply(r, BothRead([r EXCEPT !.available = ListAvailable]))
               \/ Reply(r, BothRead([r EXCEPT !.installed = ListInstalled]))
      <4>1. PICK d \in {[r EXCEPT !.available = ListAvailable], [r EXCEPT !.installed = ListInstalled]} :
              Reply(r, BothRead(d))
        BY <3>2
      <4>2. DOMAIN d = DOMAIN r /\ d.op = r.op
        BY <3>0, <4>1
      <4>3. DOMAIN BothRead(d) = DOMAIN d /\ BothRead(d).op = d.op
        BY <3>0, <4>2 DEF BothRead
      <4> QED BY <3>0, <4>1, <4>2, <4>3
    <3> QED BY <1>2, <3>1, <3>2 DEF ServePlugins
  <2>2. Open' \subseteq Open \cup {x} /\ Open \subseteq Open' \cup {r} /\ x \in Open'
    BY <2>1, ReplyOpens
  <2>3. page' = page
    BY <1>2 DEF ServePlugins
  <2> QED BY <2>1, <2>2, <2>3 DEF PluginsInv, PluginsBusyMeansWaiting, Pending
<1>3. ASSUME NEW r \in Open, NEW ok \in BOOLEAN, PluginChanged(r, ok) PROVE PluginsInv'
  <2>1. CASE ok
    <3>1. Open' \subseteq Open \cup {LoadPlugins} /\ LoadPlugins \in Open' /\ "loading" \in DOMAIN page'
      BY <1>0, <1>3, <2>1, FollowOpens DEF PluginChanged
    <3> QED BY <3>1 DEF PluginsInv, PluginsBusyMeansWaiting, Pending, LoadPlugins
  <2>2. CASE ~ok
    <3>1. /\ Open' \subseteq Open /\ Open \subseteq Open' \cup {r} /\ page' = page
          /\ r.op # "lists"
      BY <1>3, <2>2, SettleOpens DEF PluginChanged
    <3> QED BY <3>1 DEF PluginsInv, PluginsBusyMeansWaiting, Pending
  <2> QED BY <2>1, <2>2
<1>4. ASSUME NEW r \in Open, NEW ok \in BOOLEAN, PluginsLoaded(r, ok) PROVE PluginsInv'
  <2>1. "loading" \in DOMAIN page' /\ ~page'.loading /\ Open' \subseteq Open
    BY <1>0, <1>4, SettleOpens DEF PluginsLoaded
  <2> QED BY <2>1 DEF PluginsInv, PluginsBusyMeansWaiting
<1> QED BY <1>1, <1>2, <1>3, <1>4 DEF PluginsNext

-----------------------------------------------------------------------------
(***************************************************************************)
(* The terminal panel.  What it shows follows on because lastSeq is the    *)
(* last chunk it shows, unless a websocket snapshot came last or nothing   *)
(* is shown: a later delta is applied next to that chunk, and asks for a   *)
(* resync if it is not the next one.                                       *)
(***************************************************************************)
PanelAsked(r) ==
  /\ {"op", "stage", "t", "for"} \subseteq DOMAIN r
  /\ r.t \in Sessions
  /\ r.op = "input" => r.for = "input"
  /\ r.op # "input" /\ r.stage = "ok" => "seq" \in DOMAIN r /\ r.seq \in 0..MaxOut

PanelEvents ==
  [type : {"delta", "snapshot"}, t : Sessions, n : 0..MaxOut]
    \cup [type : {"handshake"}, resync : BOOLEAN]

PanelServer ==
  [ out : [Sessions -> 0..MaxOut], filter : Sessions \cup {Nil}, relay : BOOLEAN,
    inbox : Seq(PanelEvents), asks : Seq([t : Sessions, after : 0..MaxOut]) ]

FollowsOn(x) ==
  \A i \in 1..Len(x) - 1 :
    (x[i].t = x[i + 1].t /\ x[i].by # "ws") => x[i + 1].n = x[i].n + 1

\* What panel p shows is in order, and lastSeq the last chunk of it.
InOrder(p) ==
  /\ p \in TerminalState
  /\ FollowsOn(p.text)
  /\ p.text # <<>> /\ p.text[Len(p.text)].by = "seq" => p.lastSeq = p.text[Len(p.text)].n

PanelInv ==
  /\ InOrder(page) /\ page.active # Nil
  /\ server \in PanelServer
  /\ \A r \in Open : PanelAsked(r)
  /\ TerminalBusyMeansWaiting

LEMMA AttachIs ==
  ASSUME NEW t \in Sessions, NEW f
  PROVE  PanelAsked(Attach(t, f)) /\ Attach(t, f).for = f
BY DEF Attach, PanelAsked

LEMMA NothingInOrder == InOrder(NoOutput)
BY TerminalAssumption DEF InOrder, NoOutput, TerminalState, FollowsOn

\* The transitions of the store.  Only BeginAttach says that it connects, and none
\* leaves the panel without an active terminal.
LEMMA StoreEdits ==
  ASSUME NEW p, InOrder(p), NEW t \in Sessions
  PROVE  /\ InOrder(BeginAttach(p, t)) /\ BeginAttach(p, t).active = t
         /\ InOrder(ClearOutput(p)) /\ ClearOutput(p).conn = p.conn /\ ClearOutput(p).active = p.active
         /\ InOrder(FailAttach(p)) /\ FailAttach(p).conn = "error" /\ FailAttach(p).active = p.active
         /\ InOrder(ApplyStatus(p)) /\ ApplyStatus(p).conn = "attached"
         /\ ApplyStatus(p).active = p.active
<1> MaxOut \in Nat /\ p \in TerminalState
  BY TerminalAssumption DEF InOrder
<1>1. InOrder(BeginAttach(p, t)) /\ BeginAttach(p, t).active = t
  BY DEF InOrder, TerminalState, BeginAttach
<1>2. InOrder(FailAttach(p)) /\ FailAttach(p).conn = "error" /\ FailAttach(p).active = p.active
  BY DEF InOrder, TerminalState, FailAttach
<1>3. /\ InOrder(ApplyStatus(p)) /\ ApplyStatus(p).conn = "attached"
      /\ ApplyStatus(p).active = p.active
  BY DEF InOrder, TerminalState, ApplyStatus
<1>4. InOrder(ClearOutput(p)) /\ ClearOutput(p).conn = p.conn /\ ClearOutput(p).active = p.active
  <2> DEFINE q == ClearOutput(p)
  <2>1. <<>> \in Seq(Chunks) /\ Len(<<>>) = 0 /\ 0 \in 0..MaxOut
    OBVIOUS
  <2>2. q \in TerminalState /\ q.text = <<>> /\ q.conn = p.conn /\ q.active = p.active
    BY <2>1 DEF TerminalState, ClearOutput
  <2> HIDE DEF q
  <2>3. FollowsOn(q.text)
    BY <2>1, <2>2 DEF FollowsOn
  <2>4. InOrder(q)
    BY <2>2, <2>3 DEF InOrder
  <2> QED BY <2>2, <2>4 DEF q
<1> QED BY <1>1, <1>2, <1>3, <1>4

LEMMA PanelStarts ==
  ASSUME NEW t \in Sessions, TerminalMounted(t)
  PROVE  PanelInv'
<1>1. Open' = {Attach(t, "panel")}
  BY MountOpens DEF TerminalMounted
<1>2. InOrder(page)' /\ page'.active # Nil
  <2>1. page' = BeginAttach(NoOutput, t)
    BY DEF TerminalMounted, Mounting, BeginAttach
  <2> QED BY <2>1, NothingInOrder, StoreEdits, TerminalAssumption
<1>3. (server \in PanelServer)'
  BY TerminalAssumption DEF TerminalMounted, Mounting, PanelServer
<1> QED BY <1>1, <1>2, <1>3, AttachIs DEF PanelInv, TerminalBusyMeansWaiting

\* A snapshot is the chunks from the first to the last it covers.
LEMMA BufferInOrder ==
  ASSUME NEW t \in Sessions, NEW n \in 0..MaxOut, NEW by \in {"seq", "ws"}
  PROVE  LET b == Buffer(t, n, by)
         IN  b \in Seq(Chunks) /\ Len(b) = n /\ FollowsOn(b) /\ \A i \in 1..n : b[i].n = i /\ b[i].by = by
<1> n \in Nat /\ MaxOut \in Nat
  BY TerminalAssumption
<1>1. \A i \in 1..n : [t |-> t, n |-> i, by |-> by] \in Chunks
  BY DEF Chunks
<1>2. Buffer(t, n, by) \in Seq(Chunks) /\ Len(Buffer(t, n, by)) = n
  BY <1>1 DEF Buffer
<1>3. \A i \in 1..n : Buffer(t, n, by)[i] = [t |-> t, n |-> i, by |-> by]
  BY DEF Buffer
<1> QED BY <1>2, <1>3 DEF FollowsOn

\* A snapshot says the sequence that it covers, or comes by the websocket and counts
\* as 0.
LEMMA SnapshotApplied ==
  ASSUME NEW p, InOrder(p), NEW t \in Sessions, NEW n \in 0..MaxOut, NEW seq, NEW by,
         (seq = n /\ by = "seq") \/ (seq = 0 /\ by = "ws")
  PROVE  LET q == ApplySnapshot(p, t, seq, n, by)
         IN  InOrder(q) /\ q.conn \in {p.conn, "attached"} /\ q.active \in {p.active, t}
<1> DEFINE b == Buffer(t, n, by)
<1>n. n \in Nat /\ MaxOut \in Nat /\ seq \in 0..MaxOut
  BY TerminalAssumption
<1>1. b \in Seq(Chunks) /\ Len(b) = n /\ FollowsOn(b) /\ \A i \in 1..n : b[i].n = i /\ b[i].by = by
  BY BufferInOrder
<1> HIDE DEF b
<1>2. CASE SupportsTerminal(p, t) /\ seq >= p.lastSeq
  <2> DEFINE q == [p EXCEPT !.active = t, !.conn = "attached", !.lastSeq = seq, !.text = b]
  <2>1. ApplySnapshot(p, t, seq, n, by) = q
    BY <1>2 DEF ApplySnapshot, b
  <2>2. q \in TerminalState /\ q.text = b /\ q.lastSeq = seq /\ q.conn = "attached" /\ q.active = t
    BY <1>n, <1>1 DEF InOrder, TerminalState
  <2> HIDE DEF q
  <2>3. b # <<>> => n \in 1..n
    BY <1>n, <1>1
  <2>4. InOrder(q)
    BY <1>n, <1>1, <2>2, <2>3 DEF InOrder
  <2> QED BY <2>1, <2>2, <2>4
<1>3. CASE ~(SupportsTerminal(p, t) /\ seq >= p.lastSeq)
  BY <1>3 DEF ApplySnapshot
<1> QED BY <1>2, <1>3

\* A delta that leaves no gap.
LEMMA DeltaApplied ==
  ASSUME NEW p, InOrder(p), p.active # Nil, NEW t \in Sessions, NEW n \in 0..MaxOut,
         p.active = t /\ p.lastSeq > 0 => n <= p.lastSeq + 1
  PROVE  LET q == ApplyDelta(p, t, n)
         IN  InOrder(q) /\ q.conn \in {p.conn, "attached"} /\ q.active = p.active
<1>n. n \in Nat /\ MaxOut \in Nat /\ p.lastSeq \in 0..MaxOut /\ p.text \in Seq(Chunks)
  BY TerminalAssumption DEF InOrder, TerminalState
<1>1. CASE SupportsTerminal(p, t) /\ n > p.lastSeq
  <2> DEFINE c == [t |-> t, n |-> n, by |-> "seq"]
             x == p.text
             y == Append(x, c)
             q == [p EXCEPT !.active = t, !.conn = "attached", !.lastSeq = n, !.text = y]
  <2>1. ApplyDelta(p, t, n) = q /\ p.active = t
    BY <1>1 DEF ApplyDelta, SupportsTerminal
  <2>2. c \in Chunks /\ c.n = n /\ c.t = t
    BY <1>n, <1>1 DEF Chunks
  <2> HIDE DEF c
  <2>3. y \in Seq(Chunks) /\ Len(y) = Len(x) + 1 /\ y[Len(y)] = c /\ \A i \in 1..Len(x) : y[i] = x[i]
    BY <1>n, <2>2
  <2>4. q \in TerminalState /\ q.text = y /\ q.lastSeq = n /\ q.conn = "attached" /\ q.active = p.active
    BY <1>n, <2>1, <2>3 DEF InOrder, TerminalState
  <2>5. ASSUME NEW i \in 1..Len(x), i = Len(x), x[i].by # "ws" PROVE n = x[i].n + 1
    <3>1. x[i] \in Chunks
      BY <1>n
    <3>2. x[i].by = "seq" /\ x[i].n \in 1..MaxOut
      BY <2>5, <3>1 DEF Chunks
    <3>3. p.lastSeq = x[i].n
      BY <1>n, <2>5, <3>2 DEF InOrder
    <3> QED BY <1>n, <1>1, <2>1, <3>2, <3>3
  <2> HIDE DEF y, q
  <2>6. FollowsOn(y)
    <3> SUFFICES ASSUME NEW i \in 1..Len(y) - 1, y[i].t = y[i + 1].t, y[i].by # "ws"
                 PROVE  y[i + 1].n = y[i].n + 1
      BY DEF FollowsOn
    <3>1. Len(x) \in Nat /\ i \in 1..Len(x) /\ y[i] = x[i]
      BY <1>n, <2>3
    <3>2. CASE i = Len(x)
      BY <2>2, <2>3, <2>5, <3>1, <3>2
    <3>3. CASE i # Len(x)
      <4>1. i \in 1..Len(x) - 1 /\ i + 1 \in 1..Len(x) /\ y[i + 1] = x[i + 1]
        BY <2>3, <3>1, <3>3
      <4> QED BY <3>1, <4>1 DEF InOrder, FollowsOn
    <3> QED BY <3>2, <3>3
  <2>7. InOrder(q)
    BY <2>2, <2>3, <2>4, <2>6 DEF InOrder
  <2> QED BY <2>1, <2>4, <2>7
<1>2. CASE ~(SupportsTerminal(p, t) /\ n > p.lastSeq)
  BY <1>2 DEF ApplyDelta
<1> QED BY <1>1, <1>2

LEMMA AnswerApplied ==
  ASSUME NEW p, InOrder(p), NEW t \in Sessions, NEW s \in 0..MaxOut
  PROVE  LET q == ResolveAttach(p, t, s)
         IN  InOrder(q) /\ q.conn = "attached" /\ q.active # Nil
<1> DEFINE base == IF p.active \in {Nil, t} THEN p ELSE NoOutput
           met  == [base EXCEPT !.active = t, !.session = t, !.conn = "attached"]
<1>1. InOrder(base)
  BY NothingInOrder
<1> HIDE DEF base
<1>2. InOrder(met) /\ met.conn = "attached" /\ met.active = t
  BY <1>1 DEF InOrder, TerminalState
<1> HIDE DEF met
<1>3. ApplySnapshot(met, t, s, s, "seq").conn \in {met.conn, "attached"}
      /\ InOrder(ApplySnapshot(met, t, s, s, "seq"))
      /\ ApplySnapshot(met, t, s, s, "seq").active \in {met.active, t}
  BY <1>2, SnapshotApplied
<1>4. ResolveAttach(p, t, s) = ApplySnapshot(met, t, s, s, "seq")
  BY DEF ResolveAttach, base, met
<1> QED BY <1>2, <1>3, <1>4, TerminalAssumption

\* The request r ends or is not there.
LEMMA PanelGoesOn ==
  ASSUME PanelInv, NEW r, Open \subseteq Open' \cup {r}, InOrder(page)', page'.active # Nil,
         (server \in PanelServer)', \A y \in Open' : PanelAsked(y),
         page'.conn = "connecting" =>
           (page.conn = "connecting" /\ r.for # "panel") \/ \E y \in Open' : y.for = "panel"
  PROVE  PanelInv'
BY DEF PanelInv, TerminalBusyMeansWaiting

LEMMA PanelAttached ==
  ASSUME PanelInv, NEW t \in Sessions, AttachTo(t, page), server' = server
  PROVE  PanelInv'
<1>1. Open' = Open \cup {Attach(t, "panel")} /\ page' = BeginAttach(page, t)
  BY AskOpens DEF AttachTo
<1>2. InOrder(page)' /\ page'.active # Nil
  BY <1>1, StoreEdits, TerminalAssumption DEF PanelInv
<1> QED BY <1>1, <1>2, AttachIs DEF PanelInv, TerminalBusyMeansWaiting

\* A step that asks nothing and answers nothing.
LEMMA PanelEdited ==
  ASSUME PanelInv, wire' = wire, InOrder(page)', page'.active # Nil, (server \in PanelServer)',
         page'.conn = "connecting" => page.conn = "connecting"
  PROVE  PanelInv'
BY DEF PanelInv, TerminalBusyMeansWaiting, Open

\* An event or a click asks for something else.
LEMMA PanelAsks ==
  ASSUME PanelInv, NEW x, PanelAsked(x), Ask(x), page' = page, (server \in PanelServer)'
  PROVE  PanelInv'
BY AskOpens DEF PanelInv, TerminalBusyMeansWaiting

LEMMA PanelServed ==
  ASSUME PanelInv, NEW r \in Open, ServeTerminal(r)
  PROVE  PanelInv'
<1>0. /\ InOrder(page) /\ page.active # Nil /\ server \in PanelServer
      /\ PanelAsked(r) /\ page' = page /\ server' = server
      /\ \A y \in Open : PanelAsked(y)
  BY DEF PanelInv, ServeTerminal
<1>1. PICK x : Reply(r, x) /\ PanelAsked(x) /\ x.for = r.for
  <2>1. CASE r.op = "input"
    <3>1. Reply(r, Answered(r))
      BY <2>1 DEF ServeTerminal
    <3> DEFINE x == Answered(r)
    <3>2. DOMAIN x = DOMAIN r /\ x["t"] = r["t"] /\ x["for"] = r["for"] /\ x["op"] = r["op"]
      BY <1>0, AnswerKeeps DEF PanelAsked
    <3> HIDE DEF x
    <3>3. PanelAsked(x)
      BY <1>0, <2>1, <3>2 DEF PanelAsked
    <3> QED BY <3>1, <3>2, <3>3 DEF x
  <2>2. CASE r.op # "input"
    <3> DEFINE f == [seq |-> server.out[r.t]]
               x == AnsweredWith(r, f)
    <3>1. DOMAIN f = {"seq"} /\ Reply(r, x) /\ f["seq"] \in 0..MaxOut
      BY <1>0, <2>2 DEF ServeTerminal, PanelServer, PanelAsked
    <3> HIDE DEF f
    <3>2. /\ DOMAIN x = DOMAIN r \cup DOMAIN f
          /\ \A k \in DOMAIN r : k \notin DOMAIN f /\ k # "stage" => x[k] = r[k]
          /\ \A k \in DOMAIN f : x[k] = f[k]
      <4>1. \A k \in DOMAIN f : x[k] = f[k]
        BY DEF AnsweredWith, Joined
      <4>2. /\ DOMAIN x = DOMAIN r \cup DOMAIN f
            /\ \A k \in DOMAIN r : k \notin DOMAIN f /\ k # "stage" => x[k] = r[k]
        BY AnswerWithKeeps
      <4> QED BY <4>1, <4>2
    <3> HIDE DEF x
    <3>3. x["for"] = r["for"] /\ x["op"] = r["op"] /\ x["t"] = r["t"] /\ x["seq"] = f["seq"]
      BY <1>0, <3>1, <3>2 DEF PanelAsked
    <3>4. PanelAsked(x)
      BY <1>0, <2>2, <3>1, <3>2, <3>3 DEF PanelAsked
    <3> QED BY <3>1, <3>3, <3>4
  <2> QED BY <2>1, <2>2
<1>2. Open' \subseteq Open \cup {x} /\ Open \subseteq Open' \cup {r} /\ x \in Open'
  BY <1>1, ReplyOpens
<1>3. (InOrder(page) /\ server \in PanelServer)' /\ page'.active # Nil
  BY <1>0
<1> QED BY <1>0, <1>1, <1>2, <1>3, PanelGoesOn

LEMMA PanelAnswered ==
  ASSUME PanelInv, NEW r \in Open, TerminalAnswer(r)
  PROVE  PanelInv'
<1>0. /\ InOrder(page) /\ page.active # Nil /\ server \in PanelServer
      /\ \A y \in Open : PanelAsked(y)
  BY DEF PanelInv
<1>t. r.t \in Sessions
  BY <1>0 DEF PanelAsked
<1>1. ASSUME NEW ok \in BOOLEAN, InputSent(r, ok) PROVE PanelInv'
  <2>s. server' = server
    BY <1>1 DEF InputSent
  <2>1. CASE ok
    <3>1. Open' \subseteq Open \cup {Attach(r.t, "panel")} /\ Open \subseteq Open' \cup {r}
          /\ Attach(r.t, "panel") \in Open' /\ page' = BeginAttach(page, r.t)
      BY <1>1, <2>1, FollowOpens DEF InputSent
    <3>2. InOrder(page)' /\ page'.active # Nil
      BY <1>0, <1>t, <3>1, StoreEdits, TerminalAssumption
    <3>3. (\A y \in Open' : PanelAsked(y)) /\ \E y \in Open' : y.for = "panel"
      BY <1>0, <1>t, <3>1, AttachIs
    <3> QED BY <1>0, <2>s, <3>1, <3>2, <3>3, PanelGoesOn
  <2>2. CASE ~ok
    <3>1. wire' = Settled(r) /\ page' = page
      BY <1>1, <2>2 DEF InputSent
    <3>2. Open' \subseteq Open /\ Open \subseteq Open' \cup {r}
      BY <3>1, SettleOpens
    <3>3. r.for # "panel"
      BY <1>0, <1>1 DEF InputSent, PanelAsked
    <3> QED BY <1>0, <2>s, <3>1, <3>2, <3>3, PanelGoesOn
  <2> QED BY <2>1, <2>2
<1>2. ASSUME NEW ok \in BOOLEAN, AttachAnswered(r, ok) \/ ResyncAnswered(r, ok) PROVE PanelInv'
  <2>1. Open' \subseteq Open /\ Open \subseteq Open' \cup {r}
    BY <1>2, SettleOpens DEF AttachAnswered, ResyncAnswered
  <2>2. ok => r.seq \in 0..MaxOut
    BY <1>0, <1>2 DEF AttachAnswered, ResyncAnswered, Ends, PanelAsked
  <2>3. CASE AttachAnswered(r, ok)
    <3>1. (ok /\ page' = ResolveAttach(page, r.t, r.seq)) \/ page' = FailAttach(page)
      BY <2>3 DEF AttachAnswered
    <3>2. InOrder(page)' /\ page'.active # Nil /\ page'.conn # "connecting"
      BY <1>0, <1>t, <2>2, <3>1, StoreEdits, AnswerApplied
    <3>3. (server \in PanelServer)'
      <4>1. CASE ok
        <5>1. server' = [server EXCEPT !.asks = <<[t |-> r.t, after |-> 0]>>]
          BY <2>3, <4>1 DEF AttachAnswered
        <5>2. [t |-> r.t, after |-> 0] \in [t : Sessions, after : 0..MaxOut]
          BY <1>t, TerminalAssumption
        <5>3. <<[t |-> r.t, after |-> 0]>> \in Seq([t : Sessions, after : 0..MaxOut])
          BY <5>2
        <5> QED BY <1>0, <5>1, <5>3 DEF PanelServer
      <4>2. CASE ~ok
        BY <1>0, <2>3, <4>2 DEF AttachAnswered
      <4> QED BY <4>1, <4>2
    <3> QED BY <1>0, <2>1, <3>2, <3>3, PanelGoesOn
  <2>4. CASE ResyncAnswered(r, ok)
    <3>1. /\ (ok /\ page' = ResolveAttach(NoOutput, r.t, r.seq)) \/ page' = page
          /\ r.for # "panel" /\ server' = server
      BY <2>4 DEF ResyncAnswered
    <3>2. InOrder(page)' /\ page'.active # Nil /\ page'.conn \in {page.conn, "attached"}
      BY <1>0, <1>t, <2>2, <3>1, NothingInOrder, AnswerApplied
    <3> QED BY <1>0, <2>1, <3>1, <3>2, PanelGoesOn
  <2> QED BY <1>2, <2>3, <2>4
<1> QED BY <1>1, <1>2 DEF TerminalAnswer

LEMMA PanelHandles ==
  ASSUME PanelInv, HandleTerminalEvent
  PROVE  PanelInv'
<1> DEFINE e == Head(server.inbox)
           rest == [server EXCEPT !.inbox = Tail(@)]
<1>0. /\ InOrder(page) /\ page.active \in Sessions /\ server \in PanelServer
      /\ page \in TerminalState
  BY DEF PanelInv, InOrder, TerminalState
<1>e. e \in PanelEvents /\ Tail(server.inbox) \in Seq(PanelEvents)
  BY <1>0 DEF HandleTerminalEvent, PanelServer
<1>r. rest \in PanelServer
  BY <1>0, <1>e DEF PanelServer
<1>1. CASE NeedsResync(e) /\ page.active # Nil
  <2>1. /\ Ask(Attach(IF e.type = "delta" THEN e.t ELSE page.active, "resync")) /\ page' = page
        /\ server' = rest
    BY <1>1 DEF HandleTerminalEvent
  <2> HIDE DEF e, rest
  <2>2. (IF e.type = "delta" THEN e.t ELSE page.active) \in Sessions
    BY <1>0, <1>e DEF PanelEvents
  <2> QED BY <1>r, <2>1, <2>2, AttachIs, PanelAsks
<1>2. CASE ~(NeedsResync(e) /\ page.active # Nil)
  <2>1. /\ wire' = wire
        /\ page' = CASE e.type = "snapshot" -> ApplySnapshot(page, e.t, 0, e.n, "ws")
                     [] e.type = "delta" -> ApplyDelta(page, e.t, e.n)
                     [] OTHER -> page
        /\ \/ server' = rest
           \/ server' = [rest EXCEPT !.asks = <<[t |-> page.active, after |-> page.lastSeq]>>]
    BY <1>2 DEF HandleTerminalEvent
  <2> HIDE DEF e, rest
  <2>2. InOrder(page)' /\ page'.active # Nil /\ page'.conn \in {page.conn, "attached"}
    <3>0. page.active # Nil
      BY DEF PanelInv
    <3>1. CASE e.type = "snapshot"
      <4>1. e.t \in Sessions /\ e.n \in 0..MaxOut
        BY <1>e, <3>1 DEF PanelEvents
      <4>2. page' = ApplySnapshot(page, e.t, 0, e.n, "ws")
        BY <2>1, <3>1
      <4>3. page'.active = page.active
        BY <4>2, <3>0 DEF ApplySnapshot, SupportsTerminal
      <4> QED BY <1>0, <3>0, <4>1, <4>2, <4>3, SnapshotApplied
    <3>2. CASE e.type = "delta"
      <4>1. e.t \in Sessions /\ e.n \in 0..MaxOut
        BY <1>e, <3>2 DEF PanelEvents
      <4>2. page' = ApplyDelta(page, e.t, e.n)
        BY <2>1, <3>2
      <4>3. page.active = e.t /\ page.lastSeq > 0 => e.n <= page.lastSeq + 1
        <5>1. e.n \in Nat /\ page.lastSeq \in Nat
          BY <1>0, <4>1, TerminalAssumption DEF TerminalState
        <5> QED BY <1>2, <3>0, <3>2, <5>1 DEF NeedsResync, DeltaGap
      <4> QED BY <1>0, <3>0, <4>1, <4>2, <4>3, DeltaApplied
    <3>3. CASE e.type \notin {"snapshot", "delta"}
      BY <1>0, <2>1, <3>0, <3>3
    <3> QED BY <3>1, <3>2, <3>3
  <2>3. (server \in PanelServer)'
    <3>1. [t |-> page.active, after |-> page.lastSeq] \in [t : Sessions, after : 0..MaxOut]
      BY <1>0 DEF TerminalState
    <3>2. <<[t |-> page.active, after |-> page.lastSeq]>> \in Seq([t : Sessions, after : 0..MaxOut])
      BY <3>1
    <3> QED BY <1>r, <2>1, <3>2 DEF PanelServer
  <2> QED BY <2>1, <2>2, <2>3, PanelEdited
<1> QED BY <1>1, <1>2

LEMMA PanelBackend ==
  ASSUME server \in PanelServer, InOrder(page),
         \/ \E t \in Talking : Produce(t)
         \/ ServeStream \/ Resubscribe \/ \E b \in BOOLEAN : Reconnected(b)
  PROVE  (server \in PanelServer)'
<1>m. MaxOut \in Nat /\ Talking \subseteq Sessions
  BY TerminalAssumption
<1>1. ASSUME NEW t \in Talking, Produce(t) PROVE (server \in PanelServer)'
  <2> DEFINE n == server.out[t] + 1
             d == Event("delta", t, n)
  <2>1. n \in 0..MaxOut /\ t \in Sessions /\ server.inbox \in Seq(PanelEvents)
    <3>1. server.out \in [Sessions -> 0..MaxOut] /\ server.inbox \in Seq(PanelEvents)
      BY DEF PanelServer
    <3>2. t \in Sessions /\ server.out[t] < MaxOut
      BY <1>m, <1>1 DEF Produce
    <3> QED BY <1>m, <3>1, <3>2
  <2>2. \E x \in {server.inbox, Append(server.inbox, d)} :
          server' = [server EXCEPT !.out[t] = n, !.inbox = x]
    BY <1>1 DEF Produce
  <2> HIDE DEF n
  <2>3. d \in PanelEvents
    BY <2>1 DEF Event, PanelEvents
  <2> HIDE DEF d
  <2>4. Append(server.inbox, d) \in Seq(PanelEvents)
    BY <2>1, <2>3
  <2>5. [server.out EXCEPT ![t] = n] \in [Sessions -> 0..MaxOut]
    BY <2>1 DEF PanelServer
  <2>6. PICK x \in Seq(PanelEvents) : server' = [server EXCEPT !.out[t] = n, !.inbox = x]
    BY <2>1, <2>2, <2>4
  <2>7. server' = [server EXCEPT !.out = [server.out EXCEPT ![t] = n], !.inbox = x]
    BY <2>6 DEF PanelServer
  <2> QED BY <2>5, <2>6, <2>7 DEF PanelServer
<1>2. ASSUME ServeStream PROVE (server \in PanelServer)'
  <2> DEFINE a == Head(server.asks)
             n == server.out[a.t]
             m == IF n > a.after THEN n - a.after ELSE 0
             replay == [i \in 1..m |-> Event("delta", a.t, a.after + i)]
             sent == <<Event("snapshot", a.t, n)>> \o replay
  <2>1. server.asks \in Seq([t : Sessions, after : 0..MaxOut]) /\ server.asks # <<>>
    BY <1>2 DEF PanelServer, ServeStream
  <2>2. a \in [t : Sessions, after : 0..MaxOut] /\ Tail(server.asks) \in Seq([t : Sessions, after : 0..MaxOut])
    <3> DEFINE A == [t : Sessions, after : 0..MaxOut]
    <3>1. server.asks \in Seq(A)
      BY <2>1
    <3> HIDE DEF A
    <3>2. Head(server.asks) \in A /\ Tail(server.asks) \in Seq(A)
      BY <2>1, <3>1
    <3> QED BY <3>2 DEF A
  <2>3. server' = [server EXCEPT !.asks = Tail(@), !.relay = FALSE, !.filter = a.t, !.inbox = @ \o sent]
    BY <1>2 DEF ServeStream
  <2> HIDE DEF a
  <2>4. n \in 0..MaxOut /\ a.t \in Sessions /\ a.after \in 0..MaxOut
    BY <2>2 DEF PanelServer
  <2> HIDE DEF n
  <2>5. m \in Nat /\ \A i \in 1..m : a.after + i \in 0..MaxOut
    BY <1>m, <2>4
  <2> HIDE DEF m
  <2>6. \A i \in 1..m : Event("delta", a.t, a.after + i) \in PanelEvents
    BY <2>4, <2>5 DEF Event, PanelEvents
  <2>7. replay \in Seq(PanelEvents)
    BY <2>5, <2>6
  <2> HIDE DEF replay
  <2>8. Event("snapshot", a.t, n) \in PanelEvents
    BY <2>4 DEF Event, PanelEvents
  <2>9. sent \in Seq(PanelEvents)
    BY <2>7, <2>8
  <2> HIDE DEF sent
  <2>10. server.inbox \o sent \in Seq(PanelEvents)
    BY <2>9 DEF PanelServer
  <2> QED BY <2>2, <2>3, <2>4, <2>10 DEF PanelServer
<1>3. ASSUME Resubscribe PROVE (server \in PanelServer)'
  BY <1>3 DEF Resubscribe, PanelServer
<1>4. ASSUME NEW b \in BOOLEAN, Reconnected(b) PROVE (server \in PanelServer)'
  <2> DEFINE kept == Selected(server.inbox, {i \in DOMAIN server.inbox : server.inbox[i].type = "delta"})
             hello == [type |-> "handshake", resync |-> b]
             x == IF b THEN <<>> ELSE kept
  <2>1. server' = [server EXCEPT !.relay = TRUE, !.filter = Nil, !.asks = <<>>, !.inbox = <<hello>> \o x]
    BY <1>4 DEF Reconnected
  <2>2. server.inbox \in Seq(PanelEvents)
    BY DEF PanelServer
  <2>3. kept \in Seq(PanelEvents)
    BY <2>2, SelectedIsOf
  <2> HIDE DEF kept
  <2>4. hello \in PanelEvents
    BY DEF PanelEvents
  <2> HIDE DEF hello
  <2>5. x \in Seq(PanelEvents)
    BY <2>3
  <2> HIDE DEF x
  <2>6. <<hello>> \o x \in Seq(PanelEvents)
    BY <2>4, <2>5
  <2>7. <<>> \in Seq([t : Sessions, after : 0..MaxOut])
    OBVIOUS
  <2> QED BY <2>1, <2>6, <2>7 DEF PanelServer
<1> QED BY <1>1, <1>2, <1>3, <1>4

LEMMA PanelKept ==
  ASSUME PanelInv, TerminalNext
  PROVE  PanelInv'
<1>0. /\ InOrder(page) /\ page.active \in Sessions /\ page.active # Nil /\ server \in PanelServer
      /\ page \in TerminalState
  BY DEF PanelInv, InOrder, TerminalState
<1>1. ASSUME (\E t \in Sessions : SelectSession(t)) \/ AttachAgain PROVE PanelInv'
  BY <1>0, <1>1, PanelAttached DEF SelectSession, AttachAgain
<1>2. ASSUME ClickClear \/ StatusEvent PROVE PanelInv'
  <2>1. wire' = wire /\ server' = server /\ (page' = ClearOutput(page) \/ page' = ApplyStatus(page))
    BY <1>2 DEF ClickClear, StatusEvent
  <2>2. InOrder(page)' /\ page'.active # Nil /\ (page'.conn = "connecting" => page.conn = "connecting")
    BY <1>0, <2>1, StoreEdits
  <2>3. (server \in PanelServer)'
    BY <1>0, <2>1
  <2> QED BY <2>1, <2>2, <2>3, PanelEdited
<1>3. ASSUME SendInput PROVE PanelInv'
  <2> DEFINE x == [op |-> "input", stage |-> "sent", t |-> page.session, for |-> "input"]
  <2>1. Ask(x) /\ page' = page /\ (server \in PanelServer)'
    BY <1>0, <1>3 DEF SendInput
  <2>2. PanelAsked(x)
    BY <1>0, <1>3 DEF SendInput, TerminalState, PanelAsked
  <2> HIDE DEF x
  <2> QED BY <2>1, <2>2, PanelAsks
<1>4. ASSUME \/ \E t \in Talking : Produce(t)
             \/ ServeStream \/ Resubscribe \/ \E b \in BOOLEAN : Reconnected(b)
      PROVE  PanelInv'
  <2>1. wire' = wire /\ page' = page
    BY <1>4 DEF Produce, ServeStream, Resubscribe, Reconnected
  <2>2. (server \in PanelServer)'
    BY <1>0, <1>4, PanelBackend
  <2>3. InOrder(page)' /\ page'.active # Nil
    BY <1>0, <2>1
  <2> QED BY <2>1, <2>2, <2>3, PanelEdited
<1> QED BY <1>1, <1>2, <1>3, <1>4, PanelHandles, PanelServed, PanelAnswered DEF TerminalNext

-----------------------------------------------------------------------------
(***************************************************************************)
(* The assignments of skills.                                              *)
(***************************************************************************)
AssignmentsShape(p) ==
  p \in [ skills : {p.skills}, catalog : {p.catalog}, reloading : BOOLEAN, listed : {p.listed},
          bindings : {p.bindings}, load : {p.load}, shown : {p.shown}, selected : {p.selected},
          draft : {p.draft}, saving : BOOLEAN ]

AssignmentsAsked(r) ==
  /\ {"op", "stage"} \subseteq DOMAIN r
  /\ r.op \in {"catalog", "bindings", "rescan", "put"}
  /\ r.op # "rescan" => "handler" \in DOMAIN r

SavesSkills(r) == r.op \in {"put", "bindings"} /\ r.handler = "save"
ReloadsCatalog(r) == r.op = "rescan" \/ (r.op = "catalog" /\ r.handler = "reload")

AssignmentsInv ==
  /\ AssignmentsShape(page) /\ DOMAIN server = {"catalog", "bound"}
  /\ \A r \in Open : AssignmentsAsked(r)
  /\ page.saving => \E r \in Open : SavesSkills(r)
  /\ page.reloading => \E r \in Open : ReloadsCatalog(r)
  /\ page.load = "loading" => \E r \in Open : r.op = "bindings"

LEMMA AssignmentsStart ==
  ASSUME NEW c, NEW b, AssignmentsMounted(c, b)
  PROVE  AssignmentsInv'
<1> DEFINE x == GetCatalog("mount")
           y == GetBindings("mount")
<1>1. Open' = {x, y}
  BY MountOpens DEF AssignmentsMounted
<1>2. AssignmentsAsked(x) /\ AssignmentsAsked(y) /\ y.op = "bindings"
  BY DEF GetCatalog, GetBindings, AssignmentsAsked
<1>3. AssignmentsShape(page)' /\ ~page'.saving /\ ~page'.reloading
  BY DEF AssignmentsMounted, Mounting, AssignmentsShape
<1>4. DOMAIN server' = {"catalog", "bound"}
  BY DEF AssignmentsMounted, Mounting
<1> HIDE DEF x, y
<1> QED BY <1>1, <1>2, <1>3, <1>4 DEF AssignmentsInv

\* The request r ends or is not there, and what is sent is known.
LEMMA AssignmentsGoOn ==
  ASSUME AssignmentsInv, NEW r, Open \subseteq Open' \cup {r},
         AssignmentsShape(page)', DOMAIN server' = DOMAIN server,
         \A y \in Open' : AssignmentsAsked(y),
         page'.saving => (page.saving /\ ~SavesSkills(r)) \/ \E y \in Open' : SavesSkills(y),
         page'.reloading => (page.reloading /\ ~ReloadsCatalog(r)) \/ \E y \in Open' : ReloadsCatalog(y),
         page'.load = "loading" =>
           (page.load = "loading" /\ r.op # "bindings") \/ \E y \in Open' : y.op = "bindings"
  PROVE  AssignmentsInv'
BY DEF AssignmentsInv

\* The draft, the selection and what is listed do not matter here.
LEMMA SyncedShape ==
  ASSUME NEW p, AssignmentsShape(p)
  PROVE  /\ AssignmentsShape(Synced(p))
         /\ Synced(p).saving = p.saving /\ Synced(p).reloading = p.reloading /\ Synced(p).load = p.load
BY DEF AssignmentsShape, Synced

LEMMA AssignmentsEdited ==
  ASSUME AssignmentsInv,
         \/ \E a \in Assistants : SelectAssistant(a)
         \/ \E S \in SUBSET Skills : SetDraft(S)
         \/ EnterTab \/ DirectoryChanges
  PROVE  AssignmentsInv'
<1>0. AssignmentsShape(page) /\ DOMAIN server = {"catalog", "bound"}
  BY DEF AssignmentsInv
<1>1. Open' = Open
  BY DEF SelectAssistant, SetDraft, EnterTab, DirectoryChanges, Open
<1>2. DOMAIN server' = DOMAIN server
  BY <1>0 DEF SelectAssistant, SetDraft, EnterTab, DirectoryChanges
<1>3. /\ AssignmentsShape(page)' /\ page'.saving = page.saving
      /\ page'.reloading = page.reloading /\ page'.load = page.load
  <2>1. ASSUME NEW a \in Assistants, SelectAssistant(a) PROVE 
        /\ AssignmentsShape(page)' /\ page'.saving = page.saving
        /\ page'.reloading = page.reloading /\ page'.load = page.load
    <3> DEFINE p == [page EXCEPT !.selected = a]
    <3>1. page' = Synced(p) /\ AssignmentsShape(p) /\ p.saving = page.saving
          /\ p.reloading = page.reloading /\ p.load = page.load
      BY <1>0, <2>1 DEF SelectAssistant, AssignmentsShape
    <3> HIDE DEF p
    <3> QED BY <3>1, SyncedShape
  <2>2. ASSUME NEW S, SetDraft(S) PROVE 
        /\ AssignmentsShape(page)' /\ page'.saving = page.saving
        /\ page'.reloading = page.reloading /\ page'.load = page.load
    BY <1>0, <2>2 DEF SetDraft, AssignmentsShape
  <2>3. ASSUME EnterTab PROVE 
        /\ AssignmentsShape(page)' /\ page'.saving = page.saving
        /\ page'.reloading = page.reloading /\ page'.load = page.load
    <3> DEFINE p == [page EXCEPT !.shown = TRUE]
    <3>1. page' = Synced(p) /\ AssignmentsShape(p) /\ p.saving = page.saving
          /\ p.reloading = page.reloading /\ p.load = page.load
      BY <1>0, <2>3 DEF EnterTab, AssignmentsShape
    <3> HIDE DEF p
    <3> QED BY <3>1, SyncedShape
  <2>4. ASSUME DirectoryChanges PROVE 
        /\ AssignmentsShape(page)' /\ page'.saving = page.saving
        /\ page'.reloading = page.reloading /\ page'.load = page.load
    BY <1>0, <2>4 DEF DirectoryChanges
  <2> QED BY <2>1, <2>2, <2>3, <2>4
<1> QED BY <1>1, <1>2, <1>3 DEF AssignmentsInv

LEMMA AssignmentsAsk ==
  ASSUME AssignmentsInv, ClickReloadCatalog \/ LoadAssignments \/ ClickSaveSkills
  PROVE  AssignmentsInv'
<1>0. AssignmentsShape(page) /\ \A y \in Open : AssignmentsAsked(y)
  BY DEF AssignmentsInv
<1>1. PICK x : /\ Ask(x) /\ AssignmentsAsked(x) /\ AssignmentsShape(page)'
               /\ page'.saving => page.saving \/ SavesSkills(x)
               /\ page'.reloading => page.reloading \/ ReloadsCatalog(x)
               /\ page'.load = "loading" => page.load = "loading" \/ x.op = "bindings"
               /\ server' = server
  <2>1. CASE ClickReloadCatalog
    <3>1. AssignmentsAsked(Reload) /\ ReloadsCatalog(Reload)
      BY DEF Reload, AssignmentsAsked, ReloadsCatalog
    <3>2. /\ Ask(Reload) /\ AssignmentsShape(page)' /\ page'.saving = page.saving
          /\ page'.load = page.load /\ server' = server
      BY <1>0, <2>1 DEF ClickReloadCatalog, AssignmentsShape
    <3> QED BY <3>1, <3>2
  <2>2. CASE LoadAssignments
    <3> DEFINE x == GetBindings("refresh")
    <3>1. AssignmentsAsked(x) /\ x.op = "bindings"
      BY DEF GetBindings, AssignmentsAsked
    <3>2. /\ Ask(x) /\ AssignmentsShape(page)' /\ page'.saving = page.saving
          /\ page'.reloading = page.reloading /\ server' = server
      BY <1>0, <2>2 DEF LoadAssignments, AssignmentsShape
    <3> HIDE DEF x
    <3> QED BY <3>1, <3>2
  <2>3. CASE ClickSaveSkills
    <3> DEFINE x == PutSkills(page.selected, page.draft \cap page.skills)
    <3>1. AssignmentsAsked(x) /\ SavesSkills(x)
      BY DEF PutSkills, AssignmentsAsked, SavesSkills
    <3>2. /\ Ask(x) /\ AssignmentsShape(page)' /\ page'.reloading = page.reloading
          /\ page'.load = page.load /\ server' = server
      BY <1>0, <2>3 DEF ClickSaveSkills, AssignmentsShape
    <3> HIDE DEF x
    <3> QED BY <3>1, <3>2
  <2> QED BY <2>1, <2>2, <2>3
<1>2. Open' = Open \cup {x}
  BY <1>1, AskOpens
<1> QED BY <1>0, <1>1, <1>2 DEF AssignmentsInv

LEMMA AssignmentsLeft ==
  ASSUME AssignmentsInv, LeaveTab
  PROVE  AssignmentsInv'
<1>0. AssignmentsShape(page) /\ \A y \in Open : AssignmentsAsked(y)
  BY DEF AssignmentsInv
<1> DEFINE f == [r \in SaveChain |-> [r EXCEPT !.handler = "refresh"]]
<1>1. \A r \in SaveChain : /\ r \in Open /\ f[r].op = r.op /\ AssignmentsAsked(f[r])
                           /\ ~ReloadsCatalog(r)
  BY <1>0 DEF SaveChain, AssignmentsAsked, ReloadsCatalog
<1>2. \A y : y \in Open' <=> \/ y \in Open /\ y \notin SaveChain
                             \/ \E s \in SaveChain : s \in Open /\ y = f[s]
  <2>1. wire' = Become(wire, f) /\ DOMAIN f = SaveChain
    BY DEF LeaveTab
  <2> HIDE DEF f
  <2> QED BY <2>1, BecomeOpens DEF Open
<1>3. /\ AssignmentsShape(page)' /\ ~page'.saving /\ page'.reloading = page.reloading
      /\ page'.load = page.load /\ server' = server
  BY <1>0 DEF LeaveTab, AssignmentsShape
<1> HIDE DEF f
<1>4. \A y \in Open' : AssignmentsAsked(y)
  BY <1>0, <1>1, <1>2
<1>5. page'.reloading => \E y \in Open' : ReloadsCatalog(y)
  BY <1>1, <1>2, <1>3 DEF AssignmentsInv
<1>6. page'.load = "loading" => \E y \in Open' : y.op = "bindings"
  <2>1. SUFFICES ASSUME NEW r \in Open, r.op = "bindings" PROVE \E y \in Open' : y.op = "bindings"
    BY <1>3 DEF AssignmentsInv
  <2>2. CASE r \in SaveChain
    BY <1>1, <1>2, <2>1, <2>2
  <2>3. CASE r \notin SaveChain
    BY <1>2, <2>1, <2>3
  <2> QED BY <2>2, <2>3
<1> QED BY <1>3, <1>4, <1>5, <1>6 DEF AssignmentsInv

\* The answer to a request is told apart as the request is.
LEMMA AssignmentsReply ==
  ASSUME NEW r, AssignmentsAsked(r), ServeAssignments(r)
  PROVE  \E x : /\ Reply(r, x) /\ AssignmentsAsked(x) /\ x.op = r.op
                /\ r.op # "rescan" => x.handler = r.handler
<1>1. CASE Reply(r, Answered(r))
  BY <1>1, AnswerKeeps DEF AssignmentsAsked
<1>2. ASSUME NEW f, "op" \notin DOMAIN f, "handler" \notin DOMAIN f, Reply(r, AnsweredWith(r, f))
      PROVE  \E x : /\ Reply(r, x) /\ AssignmentsAsked(x) /\ x.op = r.op
                    /\ r.op # "rescan" => x.handler = r.handler
  <2> DEFINE x == AnsweredWith(r, f)
  <2>1. DOMAIN x = DOMAIN r \cup DOMAIN f
        /\ \A k \in DOMAIN r : k \notin DOMAIN f /\ k # "stage" => x[k] = r[k]
    BY AnswerWithKeeps
  <2>2. Reply(r, x)
    BY <1>2
  <2> HIDE DEF x
  <2>3. x["op"] = r["op"] /\ (r.op # "rescan" => x["handler"] = r["handler"])
    BY <1>2, <2>1 DEF AssignmentsAsked
  <2>4. AssignmentsAsked(x)
    BY <2>1, <2>3 DEF AssignmentsAsked
  <2> QED BY <2>2, <2>3, <2>4
<1> DEFINE f == [catalog |-> server.catalog]
           g == [bound |-> server.bound]
<1>3. /\ "op" \notin DOMAIN f /\ "handler" \notin DOMAIN f
      /\ "op" \notin DOMAIN g /\ "handler" \notin DOMAIN g
  OBVIOUS
<1>4. Reply(r, Answered(r)) \/ Reply(r, AnsweredWith(r, f)) \/ Reply(r, AnsweredWith(r, g))
  BY DEF ServeAssignments
<1> HIDE DEF f, g
<1> QED BY <1>1, <1>2, <1>3, <1>4

LEMMA AssignmentsServed ==
  ASSUME AssignmentsInv, NEW r \in Open, ServeAssignments(r)
  PROVE  AssignmentsInv'
<1>0. /\ AssignmentsShape(page) /\ DOMAIN server = {"catalog", "bound"}
      /\ \A y \in Open : AssignmentsAsked(y)
  BY DEF AssignmentsInv
<1>1. PICK x : /\ Reply(r, x) /\ AssignmentsAsked(x) /\ x.op = r.op
               /\ r.op # "rescan" => x.handler = r.handler
  BY <1>0, AssignmentsReply
<1>2. Open' \subseteq Open \cup {x} /\ Open \subseteq Open' \cup {r} /\ x \in Open'
  BY <1>1, ReplyOpens
<1>3. page' = page /\ DOMAIN server' = DOMAIN server
  BY <1>0 DEF ServeAssignments
<1>4. SavesSkills(x) = SavesSkills(r) /\ ReloadsCatalog(x) = ReloadsCatalog(r)
  BY <1>1 DEF SavesSkills, ReloadsCatalog
<1> QED BY <1>0, <1>1, <1>2, <1>3, <1>4, AssignmentsGoOn

LEMMA AssignmentsAnswered ==
  ASSUME AssignmentsInv, NEW r \in Open, NEW ok \in BOOLEAN,
         CatalogRescanned(r, ok) \/ CatalogLoaded(r, ok) \/ AssignmentsLoaded(r, ok) \/ SkillsSaved(r, ok)
  PROVE  AssignmentsInv'
<1>0. /\ AssignmentsShape(page) /\ DOMAIN server = {"catalog", "bound"}
      /\ \A y \in Open : AssignmentsAsked(y)
  BY DEF AssignmentsInv
<1>1. ASSUME CatalogRescanned(r, ok) PROVE AssignmentsInv'
  <2>0. ~SavesSkills(r) /\ r.op # "bindings" /\ server' = server
    BY <1>1 DEF CatalogRescanned, SavesSkills
  <2>1. CASE ok
    <3> DEFINE x == GetCatalog("reload")
    <3>1. AssignmentsAsked(x) /\ ReloadsCatalog(x)
      BY DEF GetCatalog, AssignmentsAsked, ReloadsCatalog
    <3>2. wire' = BagAdd(Settled(r), x) /\ page' = [page EXCEPT !.catalog = "loading"]
      BY <1>1, <2>1 DEF CatalogRescanned
    <3> HIDE DEF x
    <3>3. Open' \subseteq Open \cup {x} /\ Open \subseteq Open' \cup {r} /\ x \in Open'
      BY <3>2, FollowOpens
    <3>4. AssignmentsShape(page)' /\ page'.saving = page.saving /\ page'.load = page.load
      BY <1>0, <3>2 DEF AssignmentsShape
    <3> QED BY <1>0, <2>0, <3>1, <3>3, <3>4, AssignmentsGoOn
  <2>2. CASE ~ok
    <3>1. wire' = Settled(r) /\ page' = [page EXCEPT !.reloading = FALSE]
      BY <1>1, <2>2 DEF CatalogRescanned
    <3>2. Open' \subseteq Open /\ Open \subseteq Open' \cup {r}
      BY <3>1, SettleOpens
    <3>3. /\ AssignmentsShape(page)' /\ page'.saving = page.saving /\ page'.load = page.load
          /\ ~page'.reloading
      BY <1>0, <3>1 DEF AssignmentsShape
    <3> QED BY <1>0, <2>0, <3>2, <3>3, AssignmentsGoOn
  <2> QED BY <2>1, <2>2
<1>2. ASSUME CatalogLoaded(r, ok) PROVE AssignmentsInv'
  <2>1. ~SavesSkills(r) /\ r.op = "catalog" /\ server' = server /\ wire' = Settled(r)
    BY <1>2 DEF CatalogLoaded, SavesSkills
  <2>2. Open' \subseteq Open /\ Open \subseteq Open' \cup {r}
    BY <2>1, SettleOpens
  <2>3. /\ AssignmentsShape(page)' /\ page'.saving = page.saving /\ page'.load = page.load
        /\ page'.reloading => page.reloading /\ r.handler # "reload"
    BY <1>0, <1>2 DEF AssignmentsShape, CatalogLoaded
  <2>4. page'.reloading => page.reloading /\ ~ReloadsCatalog(r)
    BY <2>1, <2>3 DEF ReloadsCatalog
  <2> QED BY <1>0, <2>1, <2>2, <2>3, <2>4, AssignmentsGoOn
<1>3. ASSUME AssignmentsLoaded(r, ok) PROVE AssignmentsInv'
  <2>1. ~ReloadsCatalog(r) /\ r.op = "bindings" /\ server' = server /\ wire' = Settled(r)
    BY <1>3 DEF AssignmentsLoaded, ReloadsCatalog
  <2>2. Open' \subseteq Open /\ Open \subseteq Open' \cup {r}
    BY <2>1, SettleOpens
  <2>3. PICK b : page' =
          LET p == [page EXCEPT !.listed = ok, !.bindings = b,
                             !.load = IF ok THEN "idle" ELSE "error",
                             !.saving = @ /\ r.handler # "save"]
          IN  IF page.shown THEN Synced(p) ELSE p
    BY <1>3 DEF AssignmentsLoaded
  <2> DEFINE p == [page EXCEPT !.listed = ok, !.bindings = b,
                             !.load = IF ok THEN "idle" ELSE "error",
                             !.saving = @ /\ r.handler # "save"]
  <2>4. /\ AssignmentsShape(p) /\ p.load # "loading" /\ p.reloading = page.reloading
        /\ p.saving => page.saving /\ r.handler # "save"
    BY <1>0 DEF AssignmentsShape
  <2>5. page' = p \/ page' = Synced(p)
    BY <2>3
  <2> HIDE DEF p
  <2>6. /\ AssignmentsShape(page)' /\ page'.load # "loading" /\ page'.reloading = page.reloading
        /\ page'.saving => page.saving /\ r.handler # "save"
    BY <2>4, <2>5, SyncedShape
  <2>7. page'.saving => page.saving /\ ~SavesSkills(r)
    BY <2>6 DEF SavesSkills
  <2> QED BY <1>0, <2>1, <2>2, <2>6, <2>7, AssignmentsGoOn
<1>4. ASSUME SkillsSaved(r, ok) PROVE AssignmentsInv'
  <2>0. ~ReloadsCatalog(r) /\ r.op = "put" /\ server' = server
    BY <1>4 DEF SkillsSaved, ReloadsCatalog
  <2>1. CASE ok
    <3> DEFINE x == GetBindings(r.handler)
    <3>1. AssignmentsAsked(x) /\ x.op = "bindings" /\ x.handler = r.handler
      BY DEF GetBindings, AssignmentsAsked
    <3>2. wire' = BagAdd(Settled(r), x) /\ page' = [page EXCEPT !.load = "loading"]
      BY <1>4, <2>1 DEF SkillsSaved
    <3> HIDE DEF x
    <3>3. Open' \subseteq Open \cup {x} /\ Open \subseteq Open' \cup {r} /\ x \in Open'
      BY <3>2, FollowOpens
    <3>4. AssignmentsShape(page)' /\ page'.saving = page.saving /\ page'.reloading = page.reloading
      BY <1>0, <3>2 DEF AssignmentsShape
    <3>5. SavesSkills(r) => SavesSkills(x)
      BY <3>1 DEF SavesSkills
    <3> QED BY <1>0, <2>0, <3>1, <3>3, <3>4, <3>5, AssignmentsGoOn
  <2>2. CASE ~ok
    <3>1. wire' = Settled(r) /\ page' = [page EXCEPT !.saving = @ /\ r.handler # "save"]
      BY <1>4, <2>2 DEF SkillsSaved
    <3>2. Open' \subseteq Open /\ Open \subseteq Open' \cup {r}
      BY <3>1, SettleOpens
    <3>3. /\ AssignmentsShape(page)' /\ page'.reloading = page.reloading /\ page'.load = page.load
          /\ page'.saving => page.saving /\ r.handler # "save"
      BY <1>0, <3>1 DEF AssignmentsShape
    <3>4. page'.saving => page.saving /\ ~SavesSkills(r)
      BY <3>3 DEF SavesSkills
    <3> QED BY <1>0, <2>0, <3>2, <3>3, <3>4, AssignmentsGoOn
  <2> QED BY <2>1, <2>2
<1> QED BY <1>1, <1>2, <1>3, <1>4

LEMMA AssignmentsKept ==
  ASSUME AssignmentsInv, AssignmentsNext
  PROVE  AssignmentsInv'
BY AssignmentsEdited, AssignmentsAsk, AssignmentsLeft, AssignmentsServed, AssignmentsAnswered
   DEF AssignmentsNext

LEMMA AssignmentsWait == AssignmentsInv => AssignmentsBusyMeansWaiting
BY DEF AssignmentsInv, AssignmentsBusyMeansWaiting, SavesSkills, ReloadsCatalog, SaveChain, Pending

-----------------------------------------------------------------------------
(***************************************************************************)
(* The import of a snapshot.                                               *)
(***************************************************************************)
ImportShape(p) ==
  p \in [ preview : {p.preview}, validation : {p.validation}, validating : BOOLEAN,
          strategy : {"merge", "replace"}, importing : BOOLEAN ]

ImportAsked(r) == {"op", "stage", "strategy"} \subseteq DOMAIN r /\ r.op = "import"

Validates(r) == r.strategy = "validate"

ImportInv ==
  /\ ImportShape(page)
  /\ \A r \in Open : ImportAsked(r)
  /\ page.validating => \E r \in Open : Validates(r)
  /\ page.importing <=> Applying # {}
  /\ OneAtMost(Applying)

LEMMA ApplyingIs ==
  ASSUME \A r \in Open : ImportAsked(r)
  PROVE  Applying = {r \in Open : ~Validates(r)}
BY DEF Applying, Pending, ImportAsked, Validates

LEMMA ApplyingThen ==
  ASSUME \A r \in Open' : ImportAsked(r)
  PROVE  Applying' = {r \in Open' : ~Validates(r)}
BY DEF Applying, Pending, ImportAsked, Validates

LEMMA ImportStarts ==
  ASSUME NEW b, ImportMounted(b)
  PROVE  ImportInv'
<1>1. Open' = {}
  BY MountEmpty DEF ImportMounted
<1>2. ImportShape(page)' /\ ~page'.importing /\ ~page'.validating
  BY DEF ImportMounted, Mounting, NoPreview, ImportShape
<1>3. Applying' = {}
  BY <1>1, ApplyingThen
<1> QED BY <1>1, <1>2, <1>3 DEF ImportInv, OneAtMost

\* A step of the page alone.
LEMMA ImportEdited ==
  ASSUME ImportInv, wire' = wire, ImportShape(page)', page'.validating = page.validating,
         page'.importing = page.importing
  PROVE  ImportInv'
<1>1. Open' = Open /\ Applying' = Applying /\ \A r : Copies(r)' = Copies(r)
  BY DEF Open, Applying, Pending, Copies
<1> QED BY <1>1 DEF ImportInv, OneAtMost

LEMMA ImportAsks ==
  ASSUME ImportInv, NEW x, ImportAsked(x), Ask(x), ~Validates(x) => ~page.importing,
         ImportShape(page)', page'.validating => page.validating \/ Validates(x),
         page'.importing <=> page.importing \/ ~Validates(x)
  PROVE  ImportInv'
<1>1. Open' = Open \cup {x} /\ (\A r \in Open : ImportAsked(r)) /\ \A r \in Open' : ImportAsked(r)
  BY AskOpens DEF ImportInv
<1> DEFINE C == Applying
           D == Applying'
<1>2. /\ C \subseteq Open /\ D \subseteq Open' /\ \A y \in Open : y \in D <=> y \in C
      /\ x \in D => C = {}
  BY <1>1, ApplyingIs, ApplyingThen DEF ImportInv
<1>3. OneAtMost(C) /\ (page.importing <=> C # {})
  BY DEF ImportInv
<1>4. x \in D <=> ~Validates(x)
  BY <1>1, ApplyingThen
<1> HIDE DEF C, D
<1>5. D = C \cup (D \cap {x}) /\ \A y, z \in D : y = z /\ Copies(y)' = 1
  BY <1>2, <1>3, ChainAsk
<1>6. page'.importing <=> D # {}
  BY <1>3, <1>4, <1>5
<1>7. page'.validating => \E r \in Open' : Validates(r)
  BY <1>1 DEF ImportInv
<1> QED BY <1>1, <1>5, <1>6, <1>7 DEF ImportInv, OneAtMost, D

LEMMA ImportFollows ==
  ASSUME ImportInv, NEW r \in Open, NEW x, ImportAsked(x), Reply(r, x), Validates(x) <=> Validates(r),
         page' = page
  PROVE  ImportInv'
<1>1. /\ Open' \subseteq Open \cup {x} /\ Open \subseteq Open' \cup {r} /\ x \in Open'
      /\ (\A y \in Open : ImportAsked(y)) /\ \A y \in Open' : ImportAsked(y)
  BY ReplyOpens DEF ImportInv
<1> DEFINE C == Applying
           D == Applying'
<1>2. /\ C \subseteq Open /\ D \subseteq Open' /\ \A y \in Open : y \in Open' => (y \in D <=> y \in C)
      /\ x \in D => r \in C
  BY <1>1, ApplyingIs, ApplyingThen
<1>3. OneAtMost(C) /\ (page.importing <=> C # {})
  BY DEF ImportInv
<1>4. (x \in D <=> ~Validates(x)) /\ (r \in C <=> ~Validates(r))
  BY <1>1, ApplyingIs, ApplyingThen
<1> HIDE DEF C, D
<1>5. /\ r \in C => D = D \cap {x}
      /\ r \notin C => D = C
      /\ \A y, z \in D : y = z /\ Copies(y)' = 1
  BY <1>2, <1>3, ChainReply, ZenonT(60)
<1>6. page'.importing <=> D # {}
  BY <1>3, <1>4, <1>5
<1>7. page'.validating => \E y \in Open' : Validates(y)
  BY <1>1 DEF ImportInv
<1> QED BY <1>1, <1>5, <1>6, <1>7 DEF ImportInv, OneAtMost, D

LEMMA ImportSettles ==
  ASSUME ImportInv, NEW r \in Open, wire' = Settled(r), ImportShape(page)',
         page'.validating => page.validating /\ ~Validates(r),
         page'.importing <=> page.importing /\ Validates(r)
  PROVE  ImportInv'
<1>1. /\ Open' \subseteq Open /\ Open \subseteq Open' \cup {r}
      /\ (\A y \in Open : ImportAsked(y)) /\ \A y \in Open' : ImportAsked(y)
  BY SettleOpens DEF ImportInv
<1> DEFINE C == Applying
           D == Applying'
<1>2. C \subseteq Open /\ D \subseteq Open' /\ \A y \in Open : y \in Open' => (y \in D <=> y \in C)
  BY <1>1, ApplyingIs, ApplyingThen
<1>3. OneAtMost(C) /\ (page.importing <=> C # {})
  BY DEF ImportInv
<1>4. r \in C <=> ~Validates(r)
  BY <1>1, ApplyingIs
<1> HIDE DEF C, D
<1>5. /\ r \in C => D = {}
      /\ r \notin C => D = C
      /\ \A y, z \in D : y = z /\ Copies(y)' = 1
  BY <1>2, <1>3, ChainSettle, ZenonT(60)
<1>6. page'.importing <=> D # {}
  BY <1>3, <1>4, <1>5
<1>7. page'.validating => \E y \in Open' : Validates(y)
  BY <1>1 DEF ImportInv
<1> QED BY <1>1, <1>5, <1>6, <1>7 DEF ImportInv, OneAtMost, D

LEMMA ImportKept ==
  ASSUME ImportInv, ImportNext
  PROVE  ImportInv'
<1>0. ImportShape(page) /\ \A r \in Open : ImportAsked(r)
  BY DEF ImportInv
<1>1. ASSUME NEW f, PickFile(f) PROVE ImportInv'
  <2> DEFINE x == Post("validate", f)
  <2>1. ImportAsked(x) /\ Validates(x)
    BY DEF Post, ImportAsked, Validates
  <2>2. Ask(x) /\ ImportShape(page)' /\ page'.importing = page.importing
    BY <1>0, <1>1 DEF PickFile, ImportShape
  <2> HIDE DEF x
  <2> QED BY <2>1, <2>2, ImportAsks
<1>2. ASSUME PickBadFile \/ CancelPreview \/ \E s \in {"merge", "replace"} : SelectStrategy(s)
      PROVE  ImportInv'
  BY <1>0, <1>2, ImportEdited DEF PickBadFile, CancelPreview, SelectStrategy, ImportShape
<1>3. ASSUME ApplyImport PROVE ImportInv'
  <2> DEFINE x == Post(page.strategy, page.preview)
  <2>1. ImportAsked(x) /\ ~Validates(x)
    BY <1>0 DEF Post, ImportAsked, Validates, ImportShape
  <2>2. /\ Ask(x) /\ ImportShape(page)' /\ page'.importing /\ ~page.importing
        /\ page'.validating = page.validating
    BY <1>0, <1>3 DEF ApplyImport, ApplyOffered, PreviewOffered, ImportShape
  <2> HIDE DEF x
  <2> QED BY <2>1, <2>2, ImportAsks
<1>4. ASSUME NEW r \in Open, ServeImport(r) PROVE ImportInv'
  <2> DEFINE f == [conflicts |-> Conflicts(r.strategy, r.file)]
             x == AnsweredWith(r, f)
  <2>1. DOMAIN f = {"conflicts"}
    OBVIOUS
  <2>2. Reply(r, x) /\ page' = page
    BY <1>4 DEF ServeImport
  <2> HIDE DEF f
  <2>3. DOMAIN x = DOMAIN r \cup DOMAIN f
        /\ \A k \in DOMAIN r : k \notin DOMAIN f /\ k # "stage" => x[k] = r[k]
    BY AnswerWithKeeps
  <2>4. ImportAsked(r)
    BY <1>0
  <2> HIDE DEF x
  <2>5. x["op"] = r["op"] /\ x["strategy"] = r["strategy"]
    BY <2>1, <2>3, <2>4 DEF ImportAsked
  <2>6. ImportAsked(x) /\ (Validates(x) <=> Validates(r))
    BY <2>3, <2>4, <2>5 DEF ImportAsked, Validates
  <2> QED BY <2>2, <2>6, ImportFollows
<1>5. ASSUME NEW r \in Open, NEW ok \in BOOLEAN, Validated(r, ok) PROVE ImportInv'
  <2>1. wire' = Settled(r) /\ Validates(r)
    BY <1>5 DEF Validated, Validates
  <2>2. ImportShape(page)' /\ ~page'.validating /\ page'.importing = page.importing
    BY <1>0, <1>5 DEF Validated, ImportShape
  <2> QED BY <2>1, <2>2, ImportSettles
<1>6. ASSUME NEW r \in Open, NEW ok \in BOOLEAN, ImportApplied(r, ok) PROVE ImportInv'
  <2>1. wire' = Settled(r) /\ ~Validates(r)
    BY <1>6 DEF ImportApplied, Validates
  <2>2. ImportShape(page)' /\ ~page'.importing /\ page'.validating = page.validating
    BY <1>0, <1>6 DEF ImportApplied, ImportShape
  <2> QED BY <2>1, <2>2, ImportSettles
<1> QED BY <1>1, <1>2, <1>3, <1>4, <1>5, <1>6 DEF ImportNext

LEMMA ImportWaits == ImportInv => ImportBusyMeansWaiting /\ ImportNoDoubleSubmit
BY DEF ImportInv, ImportBusyMeansWaiting, ImportNoDoubleSubmit, ImportAsked, Validates, Pending

-----------------------------------------------------------------------------
(***************************************************************************)
(* The library of skill definitions.                                       *)
(***************************************************************************)
LibraryShape(p) ==
  p \in [ shown : BOOLEAN, defs : {p.defs}, lib : {p.lib}, form : {p.form}, typed : {p.typed},
          saving : BOOLEAN, selected : {p.selected} ]

LibraryAsked(r) ==
  /\ {"op", "stage", "live"} \subseteq DOMAIN r /\ r.live \in BOOLEAN
  /\ r.op \in {"defs", "create"}
  /\ r.op = "defs" => "handler" \in DOMAIN r

\* The request is behind the form; it lists for the tab that is mounted.
MakesDefinition(r) == r.live /\ (r.op = "create" \/ r.handler = "create")
ListsDefs(r) == r.op = "defs" /\ r.live

LibraryInv ==
  /\ LibraryShape(page) /\ DOMAIN server = {"defs"}
  /\ \A r \in Open : LibraryAsked(r)
  /\ ~page.shown => \A r \in Open : ~r.live
  /\ page.shown => /\ page.saving <=> FormChain # {}
                   /\ page.lib = "loading" => \E r \in Open : ListsDefs(r)
  /\ OneAtMost(FormChain)

LEMMA FormChainIs ==
  /\ FormChain = {r \in Open : MakesDefinition(r)}
  /\ FormChain' = {r \in Open' : MakesDefinition(r)}
BY DEF FormChain, MakesDefinition

LEMMA LibraryStarts ==
  ASSUME NEW D, LibraryMounted(D)
  PROVE  LibraryInv'
<1> DEFINE x == ListDefs("mount")
<1>1. Open' = {x}
  BY MountOpens DEF LibraryMounted
<1>2. LibraryAsked(x) /\ ListsDefs(x) /\ ~MakesDefinition(x)
  BY DEF ListDefs, LibraryAsked, ListsDefs, MakesDefinition
<1>3. LibraryShape(page)' /\ ~page'.saving /\ page'.shown /\ DOMAIN server' = {"defs"}
  BY DEF LibraryMounted, Mounting, LibraryShape, FirstLibrary
<1> HIDE DEF x
<1>4. FormChain' = {}
  BY <1>1, <1>2, FormChainIs
<1> QED BY <1>1, <1>2, <1>3, <1>4 DEF LibraryInv, OneAtMost

\* A step of the page alone.
LEMMA LibraryEdited ==
  ASSUME LibraryInv, wire' = wire, server' = server, LibraryShape(page)',
         page'.shown = page.shown, page'.saving = page.saving, page'.lib = page.lib
  PROVE  LibraryInv'
<1>1. Open' = Open /\ FormChain' = FormChain /\ \A r : Copies(r)' = Copies(r)
  BY DEF Open, FormChain, Copies
<1> QED BY <1>1 DEF LibraryInv, OneAtMost

LEMMA LibraryAsks ==
  ASSUME LibraryInv, NEW x, LibraryAsked(x), Ask(x), page'.shown, server' = server,
         LibraryShape(page)', MakesDefinition(x) => ~(page.shown /\ page.saving),
         page'.saving <=> (page.shown /\ page.saving) \/ MakesDefinition(x),
         page'.lib = "loading" => (page.shown /\ page.lib = "loading") \/ ListsDefs(x)
  PROVE  LibraryInv'
<1>1. Open' = Open \cup {x}
  BY AskOpens
<1> DEFINE C == FormChain
           D == FormChain'
<1>2. C \subseteq Open /\ D \subseteq Open' /\ \A y \in Open : y \in D <=> y \in C
  BY <1>1, FormChainIs
<1>3. OneAtMost(C) /\ (page.shown /\ page.saving <=> C # {})
  BY FormChainIs DEF LibraryInv, MakesDefinition
<1>4. x \in D <=> MakesDefinition(x)
  BY <1>1, FormChainIs
<1> HIDE DEF C, D
<1>5. D = C \cup (D \cap {x}) /\ \A y, z \in D : y = z /\ Copies(y)' = 1
  BY <1>2, <1>3, <1>4, ChainAsk
<1>6. page'.saving <=> D # {}
  BY <1>3, <1>4, <1>5
<1>7. page'.lib = "loading" => \E r \in Open' : ListsDefs(r)
  BY <1>1 DEF LibraryInv
<1> QED BY <1>1, <1>5, <1>6, <1>7 DEF LibraryInv, OneAtMost, D

LEMMA LibraryFollows ==
  ASSUME LibraryInv, NEW r \in Open, NEW x, LibraryAsked(x), wire' = BagAdd(Settled(r), x),
         x.live = r.live, MakesDefinition(x) <=> MakesDefinition(r),
         LibraryShape(page)', page'.shown = page.shown, page'.saving = page.saving,
         DOMAIN server' = DOMAIN server,
         page'.lib = "loading" => page.lib = "loading" \/ ListsDefs(x),
         ListsDefs(r) => ListsDefs(x)
  PROVE  LibraryInv'
<1>1. Open' \subseteq Open \cup {x} /\ Open \subseteq Open' \cup {r} /\ x \in Open'
  BY FollowOpens
<1> DEFINE C == FormChain
           D == FormChain'
<1>2. /\ C \subseteq Open /\ D \subseteq Open' /\ \A y \in Open : y \in Open' => (y \in D <=> y \in C)
      /\ x \in D => r \in C
  BY <1>1, FormChainIs
<1>3. OneAtMost(C) /\ (page.shown => (page.saving <=> C # {}))
  BY DEF LibraryInv
<1>4. (x \in D <=> MakesDefinition(x)) /\ (r \in C <=> MakesDefinition(r))
  BY <1>1, FormChainIs
<1> HIDE DEF C, D
<1>5. /\ r \in C => D = D \cap {x}
      /\ r \notin C => D = C
      /\ \A y, z \in D : y = z /\ Copies(y)' = 1
  BY <1>2, <1>3, ChainFollow, ZenonT(60)
<1>6. page'.shown => (page'.saving <=> D # {})
  BY <1>3, <1>4, <1>5
<1>7. page'.shown => (page'.lib = "loading" => \E y \in Open' : ListsDefs(y))
  BY <1>1 DEF LibraryInv
<1> QED BY <1>1, <1>5, <1>6, <1>7 DEF LibraryInv, OneAtMost, D

LEMMA LibrarySettles ==
  ASSUME LibraryInv, NEW r \in Open, wire' = Settled(r), LibraryShape(page)',
         page'.shown = page.shown, server' = server,
         page.shown => (page'.saving <=> page.saving /\ ~MakesDefinition(r)),
         page'.lib = "loading" => page.lib = "loading" /\ ~ListsDefs(r)
  PROVE  LibraryInv'
<1>1. Open' \subseteq Open /\ Open \subseteq Open' \cup {r}
  BY SettleOpens
<1> DEFINE C == FormChain
           D == FormChain'
<1>2. C \subseteq Open /\ D \subseteq Open' /\ \A y \in Open : y \in Open' => (y \in D <=> y \in C)
  BY <1>1, FormChainIs
<1>3. OneAtMost(C) /\ (page.shown => (page.saving <=> C # {}))
  BY DEF LibraryInv
<1>4. r \in C <=> MakesDefinition(r)
  BY <1>1, FormChainIs
<1> HIDE DEF C, D
<1>5. /\ r \in C => D = {}
      /\ r \notin C => D = C
      /\ \A y, z \in D : y = z /\ Copies(y)' = 1
  BY <1>2, <1>3, ChainSettle, ZenonT(60)
<1>6. page'.shown => (page'.saving <=> D # {})
  BY <1>3, <1>4, <1>5
<1>7. page'.shown => (page'.lib = "loading" => \E y \in Open' : ListsDefs(y))
  BY <1>1 DEF LibraryInv
<1> QED BY <1>1, <1>5, <1>6, <1>7 DEF LibraryInv, OneAtMost, D

LEMMA LibraryLeft ==
  ASSUME LibraryInv, LeaveLibrary
  PROVE  LibraryInv'
<1> DEFINE S == {r \in Open : r.live}
<1>1. \A y : y \in Open' <=> \/ y \in Open /\ y \notin S
                             \/ \E s \in S : s \in Open /\ y = [s EXCEPT !.live = FALSE]
  BY DetachOpens DEF LeaveLibrary, Open
<1>2. \A s \in S : LibraryAsked([s EXCEPT !.live = FALSE]) /\ ~[s EXCEPT !.live = FALSE].live
  BY DEF LibraryInv, LibraryAsked
<1>3. \A y \in Open \ S : LibraryAsked(y) /\ ~y.live
  BY DEF LibraryInv
<1>4. \A y \in Open' : LibraryAsked(y) /\ ~y.live
  <2>1. TAKE y \in Open'
  <2>2. CASE y \in Open \ S
    BY <1>3, <2>2
  <2>3. CASE \E s \in S : y = [s EXCEPT !.live = FALSE]
    BY <1>2, <2>3
  <2> QED BY <1>1, <2>2, <2>3
<1>5. LibraryShape(page)' /\ ~page'.shown /\ server' = server
  BY DEF LeaveLibrary, LibraryShape, LibraryInv
<1>6. FormChain' = {}
  BY <1>4, FormChainIs DEF MakesDefinition
<1> QED BY <1>4, <1>5, <1>6 DEF LibraryInv, OneAtMost

LEMMA LibraryServed ==
  ASSUME LibraryInv, NEW r \in Open, ServeLibrary(r)
  PROVE  LibraryInv'
<1>0. LibraryShape(page) /\ LibraryAsked(r) /\ DOMAIN server = {"defs"}
  BY DEF LibraryInv
<1>1. PICK x : /\ Reply(r, x) /\ LibraryAsked(x) /\ x.live = r.live
               /\ (MakesDefinition(x) <=> MakesDefinition(r)) /\ (ListsDefs(x) <=> ListsDefs(r))
  <2>1. CASE r.op = "defs"
    <3> DEFINE f == [defs |-> server.defs]
               x == AnsweredWith(r, f)
    <3>1. DOMAIN f = {"defs"}
      OBVIOUS
    <3>2. Reply(r, x)
      BY <2>1 DEF ServeLibrary
    <3> HIDE DEF f
    <3>3. DOMAIN x = DOMAIN r \cup DOMAIN f
          /\ \A k \in DOMAIN r : k \notin DOMAIN f /\ k # "stage" => x[k] = r[k]
      BY AnswerWithKeeps
    <3> HIDE DEF x
    <3>4. x["op"] = r["op"] /\ x["live"] = r["live"] /\ x["handler"] = r["handler"]
      BY <1>0, <2>1, <3>1, <3>3 DEF LibraryAsked
    <3>5. LibraryAsked(x)
      BY <1>0, <3>3, <3>4 DEF LibraryAsked
    <3> QED BY <3>2, <3>4, <3>5 DEF MakesDefinition, ListsDefs
  <2>2. CASE r.op # "defs"
    <3> DEFINE x == Answered(r)
    <3>1. Reply(r, x)
      BY <2>2 DEF ServeLibrary
    <3>2. DOMAIN x = DOMAIN r /\ \A k \in DOMAIN r : k # "stage" => x[k] = r[k]
      BY AnswerKeeps
    <3> HIDE DEF x
    <3>3. x["op"] = r["op"] /\ x["live"] = r["live"] /\ r.op = "create"
      BY <1>0, <2>2, <3>2 DEF LibraryAsked
    <3>4. LibraryAsked(x)
      BY <1>0, <3>2, <3>3 DEF LibraryAsked
    <3> QED BY <3>1, <3>3, <3>4 DEF MakesDefinition, ListsDefs
  <2> QED BY <2>1, <2>2
<1>2. wire' = BagAdd(Settled(r), x)
  BY <1>1 DEF Reply, Settled
<1>3. page' = page /\ DOMAIN server' = DOMAIN server
  BY <1>0 DEF ServeLibrary
<1> QED BY <1>0, <1>1, <1>2, <1>3, LibraryFollows

LEMMA LibraryCreated ==
  ASSUME LibraryInv, NEW r \in Open, NEW ok \in BOOLEAN, DefinitionCreated(r, ok)
  PROVE  LibraryInv'
<1>0. LibraryShape(page) /\ LibraryAsked(r) /\ r.op = "create" /\ server' = server
  BY DEF LibraryInv, DefinitionCreated
<1>1. CASE ok
  <2> DEFINE x == [ListDefs("create") EXCEPT !.live = r.live]
  <2>1. /\ LibraryAsked(x) /\ x.live = r.live /\ x.op = "defs"
        /\ MakesDefinition(x) <=> MakesDefinition(r)
    BY <1>0 DEF ListDefs, LibraryAsked, MakesDefinition
  <2>2. /\ wire' = BagAdd(Settled(r), x)
        /\ page' = IF r.live THEN [page EXCEPT !.typed = Nil, !.form = FALSE, !.lib = "loading"]
                             ELSE page
    BY <1>1 DEF DefinitionCreated
  <2> HIDE DEF x
  <2>3. /\ LibraryShape(page)' /\ page'.shown = page.shown /\ page'.saving = page.saving
        /\ page'.lib = "loading" => page.lib = "loading" \/ r.live
    BY <1>0, <2>2 DEF LibraryShape
  <2>4. ~ListsDefs(r) /\ (ListsDefs(x) <=> r.live)
    BY <1>0, <2>1 DEF ListsDefs
  <2> QED BY <1>0, <2>1, <2>2, <2>3, <2>4, LibraryFollows
<1>2. CASE ~ok
  <2>1. /\ wire' = Settled(r)
        /\ page' = IF r.live THEN [page EXCEPT !.saving = FALSE] ELSE page
    BY <1>2 DEF DefinitionCreated
  <2>2. /\ LibraryShape(page)' /\ page'.shown = page.shown /\ page'.lib = page.lib
        /\ page'.saving <=> page.saving /\ ~r.live
    BY <1>0, <2>1 DEF LibraryShape, LibraryAsked
  <2>3. ~ListsDefs(r) /\ (MakesDefinition(r) <=> r.live)
    BY <1>0 DEF ListsDefs, MakesDefinition
  <2> QED BY <1>0, <2>1, <2>2, <2>3, LibrarySettles
<1> QED BY <1>1, <1>2

LEMMA LibraryListed ==
  ASSUME LibraryInv, NEW r \in Open, NEW ok \in BOOLEAN, DefsLoaded(r, ok)
  PROVE  LibraryInv'
<1>0. LibraryShape(page) /\ LibraryAsked(r) /\ r.op = "defs" /\ server' = server
      /\ wire' = Settled(r)
  BY DEF LibraryInv, DefsLoaded
<1>1. CASE r.live
  <2>1. /\ LibraryShape(page)' /\ page'.shown = page.shown /\ page'.lib # "loading"
        /\ page'.saving <=> page.saving /\ r.handler # "create"
    BY <1>0, <1>1 DEF LibraryShape, DefsLoaded
  <2>2. MakesDefinition(r) <=> r.handler = "create"
    BY <1>0, <1>1 DEF MakesDefinition
  <2> QED BY <1>0, <2>1, <2>2, LibrarySettles
<1>2. CASE ~r.live
  <2>1. page' = page /\ ~MakesDefinition(r) /\ ~ListsDefs(r)
    BY <1>0, <1>2 DEF DefsLoaded, MakesDefinition, ListsDefs
  <2> QED BY <1>0, <2>1, LibrarySettles
<1> QED BY <1>1, <1>2

LEMMA LibraryKept ==
  ASSUME LibraryInv, LibraryNext
  PROVE  LibraryInv'
<1>0. LibraryShape(page)
  BY DEF LibraryInv
<1>1. ASSUME \/ \E d \in Definitions : SelectDefinition(d) \/ TypeForm(d)
             \/ NewDefinition \/ CancelForm
      PROVE  LibraryInv'
  <2>1. /\ wire' = wire /\ server' = server /\ LibraryShape(page)'
        /\ page'.shown = page.shown /\ page'.saving = page.saving /\ page'.lib = page.lib
    BY <1>0, <1>1 DEF SelectDefinition, TypeForm, NewDefinition, CancelForm, LibraryEdits,
                      LibraryShape
  <2> QED BY <2>1, LibraryEdited
<1>2. ASSUME RetryDefs \/ EnterLibrary PROVE LibraryInv'
  <2>1. PICK h \in {"retry", "mount"} : Ask(ListDefs(h))
    BY <1>2 DEF RetryDefs, EnterLibrary
  <2> DEFINE x == ListDefs(h)
  <2>2. LibraryAsked(x) /\ ~MakesDefinition(x) /\ ListsDefs(x)
    BY DEF ListDefs, LibraryAsked, MakesDefinition, ListsDefs
  <2> HIDE DEF x
  <2>3. /\ page'.shown /\ server' = server /\ LibraryShape(page)'
        /\ page'.saving <=> page.shown /\ page.saving
    <3>1. CASE RetryDefs
      BY <1>0, <3>1 DEF RetryDefs, LibraryShape, ListShown
    <3>2. CASE EnterLibrary
      BY <1>0, <3>2 DEF EnterLibrary, LibraryShape, FirstLibrary
    <3> QED BY <1>2, <3>1, <3>2
  <2> QED BY <2>1, <2>2, <2>3, LibraryAsks DEF x
<1>3. ASSUME SubmitForm PROVE LibraryInv'
  <2> DEFINE x == Create(page.typed)
  <2>1. LibraryAsked(x) /\ MakesDefinition(x)
    BY DEF Create, LibraryAsked, MakesDefinition
  <2>2. /\ Ask(x) /\ page'.shown /\ page.shown /\ ~page.saving /\ page'.saving /\ server' = server
        /\ LibraryShape(page)' /\ page'.lib = page.lib
    BY <1>0, <1>3 DEF SubmitForm, LibraryShape, FormShown
  <2> HIDE DEF x
  <2> QED BY <2>1, <2>2, LibraryAsks
<1> QED BY <1>1, <1>2, <1>3, LibraryLeft, LibraryServed, LibraryCreated, LibraryListed DEF LibraryNext

LEMMA LibraryWaits == LibraryInv => LibraryBusyMeansWaiting /\ LibraryNoDoubleSubmit
BY DEF LibraryInv, LibraryBusyMeansWaiting, LibraryNoDoubleSubmit, ListsDefs, Pending

-----------------------------------------------------------------------------
(***************************************************************************)
(* The canvas: it is drawn anew whenever the tasks, the steps or the scope *)
(* change, and what the user draws in between joins nodes that are drawn.  *)
(***************************************************************************)
CanvasShape(p) ==
  p \in [ tasks : {p.tasks}, steps : {p.steps}, scope : {p.scope}, nodes : {p.nodes},
          edges : {p.edges}, counter : {p.counter}, editing : {p.editing}, deleting : {p.deleting} ]

DrawnIn(p) == {i \in NodeIds : p.nodes[i] # Nil}

EdgesJoin(p) == \A e \in p.edges : e[1] \in DrawnIn(p) /\ e[2] \in DrawnIn(p)

NodesMatch(p) ==
  \A i \in DrawnIn(p) : p.nodes[i] # 0 => i = TaskNode(p.nodes[i]) /\ p.nodes[i] \in p.tasks

ScopeKept(p) ==
  p.scope # Nil =>
    /\ p.scope \in p.steps
    /\ \A t \in 1..CanvasTasks : TaskNode(t) \in DrawnIn(p) => <<t, p.scope>> \in Mentions

CanvasLoads(s) == s.tasks \subseteq 1..CanvasTasks /\ s.steps \subseteq 1..MaxSteps

CanvasSound(p) ==
  /\ CanvasShape(p) /\ CanvasLoads(p)
  /\ DOMAIN p.nodes = NodeIds /\ p.counter \in Nat
  /\ EdgesJoin(p) /\ NodesMatch(p) /\ ScopeKept(p)

CanvasAsked(r) ==
  /\ {"op", "stage"} \subseteq DOMAIN r
  /\ r.op = "queue" /\ r.stage = "ok" => "tasks" \in DOMAIN r /\ r.tasks \subseteq 1..CanvasTasks
  /\ r.op = "roadmap" /\ r.stage = "ok" => "steps" \in DOMAIN r /\ r.steps \subseteq 1..MaxSteps

CanvasInv ==
  /\ CanvasSound(page)
  /\ DOMAIN server = {"tasks", "steps"} /\ CanvasLoads(server)
  /\ \A r \in Open : CanvasAsked(r)

\* The edges of a chain are between its members.
LEMMA ChainWithin ==
  ASSUME NEW S \in SUBSET Nat, NEW e \in Chain(S)
  PROVE  e[1] \in S /\ e[2] \in S
<1>1. PICK a \in S : (\E b \in S : b > a) /\ e = <<a, Min({b \in S : b > a})>>
  BY DEF Chain
<1>2. Min({b \in S : b > a}) \in {b \in S : b > a}
  <2>1. {b \in S : b > a} \in SUBSET Nat /\ {b \in S : b > a} # {}
    BY <1>1
  <2> QED BY <2>1, LeastExists
<1> QED BY <1>1, <1>2

\* The nodes of one kind are told apart by their numbers, the kinds by their names.
LEMMA NodesDiffer ==
  /\ \A t, u : TaskNode(t) = TaskNode(u) => t = u
  /\ \A s, t : StepNode(s) # TaskNode(t) /\ LocalNode(s) # TaskNode(t)
  /\ \A t : TaskNode(t) \notin DemoNodes /\ TaskNode(t)[2] = t
  /\ \A t \in 1..CanvasTasks : TaskNode(t) \in NodeIds
  /\ \A s \in 1..MaxSteps : StepNode(s) \in NodeIds
  /\ \A n \in 1..MaxLocal : LocalNode(n) \in NodeIds
  /\ DemoNodes \subseteq NodeIds
BY DEF TaskNode, StepNode, LocalNode, DemoNodes, NodeIds

\* What is drawn anew is sound.
LEMMA DrawnAnew ==
  ASSUME NEW p, CanvasShape(p), CanvasLoads(p), p.counter \in Nat
  PROVE  CanvasSound(Redrawn(p)) /\ Redrawn(p).counter = p.counter
<1> DEFINE q == [p EXCEPT !.scope = IF @ \in p.steps THEN @ ELSE Nil]
           S == ScopedSteps(q)
           T == ScopedTasks(q)
           empty == S = {} /\ T = {}
           o == Redrawn(p)
<1>0. CanvasTasks \in Nat /\ MaxSteps \in Nat /\ Nil \notin Nat
  BY CanvasAssumption
<1>1. /\ q.steps = p.steps /\ q.tasks = p.tasks /\ q.counter = p.counter
      /\ q.scope = (IF p.scope \in p.steps THEN p.scope ELSE Nil)
      /\ CanvasShape(q)
  BY DEF CanvasShape
<1>2. o = [q EXCEPT !.nodes = IF empty THEN DemoCanvas ELSE CanvasNodes(q),
                    !.edges = IF empty THEN DemoEdges ELSE CanvasEdges(q)]
  BY DEF Redrawn
<1> HIDE DEF q
<1>3. /\ S \subseteq p.steps /\ T \subseteq p.tasks
      /\ q.scope # Nil => q.scope \in p.steps /\ \A t \in T : <<t, q.scope>> \in Mentions
  <2>1. q.scope # Nil => q.scope \in p.steps
    BY <1>1
  <2> QED BY <1>1, <2>1 DEF ScopedSteps, ScopedTasks
<1>4. S \in SUBSET Nat /\ T \in SUBSET Nat /\ T \subseteq 1..CanvasTasks /\ S \subseteq 1..MaxSteps
      /\ 0 \notin T
  BY <1>0, <1>3 DEF CanvasLoads
<1>5. /\ o.scope = q.scope /\ o.tasks = p.tasks /\ o.steps = p.steps /\ o.counter = p.counter
      /\ CanvasShape(o)
      /\ o.nodes = (IF empty THEN DemoCanvas ELSE CanvasNodes(q))
      /\ o.edges = (IF empty THEN DemoEdges ELSE CanvasEdges(q))
  BY <1>1, <1>2 DEF CanvasShape
<1>6. CASE empty
  <2>1. o.nodes = DemoCanvas /\ o.edges = DemoEdges
    BY <1>5, <1>6
  <2>2. DOMAIN o.nodes = NodeIds /\ DrawnIn(o) = DemoNodes /\ \A i \in DemoNodes : o.nodes[i] = 0
    BY <1>0, <2>1, NodesDiffer DEF DemoCanvas, DrawnIn
  <2>3. EdgesJoin(o)
    BY <2>1, <2>2 DEF EdgesJoin, DemoEdges, DemoNodes
  <2>4. NodesMatch(o)
    BY <2>2 DEF NodesMatch
  <2>5. ScopeKept(o)
    BY <1>3, <1>5, <2>2, NodesDiffer DEF ScopeKept
  <2> QED BY <1>5, <2>2, <2>3, <2>4, <2>5 DEF CanvasSound, CanvasLoads
<1>7. CASE ~empty
  <2>1. o.nodes = CanvasNodes(q) /\ o.edges = CanvasEdges(q)
    BY <1>5, <1>7
  <2> HIDE DEF S, T, o
  <2>2. /\ DOMAIN o.nodes = NodeIds
        /\ \A i \in NodeIds : o.nodes[i] = IF \E t \in T : i = TaskNode(t) THEN i[2]
                                           ELSE IF \E s \in S : i = StepNode(s) THEN 0 ELSE Nil
    BY <2>1 DEF CanvasNodes, S, T
  <2>3. /\ \A t \in T : TaskNode(t) \in NodeIds /\ o.nodes[TaskNode(t)] = t
        /\ \A s \in S : StepNode(s) \in NodeIds /\ o.nodes[StepNode(s)] = 0
    BY <1>4, <2>2, NodesDiffer
  <2>4. ASSUME NEW i \in DrawnIn(o)
        PROVE  \/ \E t \in T : i = TaskNode(t)
               \/ o.nodes[i] = 0 /\ \A t : i # TaskNode(t)
    BY <2>2, <2>4, NodesDiffer DEF DrawnIn
  <2>5. /\ \A t \in T : TaskNode(t) \in DrawnIn(o)
        /\ \A s \in S : StepNode(s) \in DrawnIn(o)
    BY <1>0, <1>4, <2>3 DEF DrawnIn
  <2>6. EdgesJoin(o)
    <3>1. ASSUME NEW e \in o.edges PROVE e[1] \in DrawnIn(o) /\ e[2] \in DrawnIn(o)
      <4>1. CASE \E c \in Chain(S) : e = <<StepNode(c[1]), StepNode(c[2])>>
        <5>1. PICK c \in Chain(S) : e = <<StepNode(c[1]), StepNode(c[2])>>
          BY <4>1
        <5>2. c[1] \in S /\ c[2] \in S
          BY <1>4, ChainWithin
        <5>3. e[1] = StepNode(c[1]) /\ e[2] = StepNode(c[2])
          BY <5>1
        <5> QED BY <2>5, <5>2, <5>3
      <4>2. CASE \E c \in Chain(T) : e = <<TaskNode(c[1]), TaskNode(c[2])>>
        <5>1. PICK c \in Chain(T) : e = <<TaskNode(c[1]), TaskNode(c[2])>>
          BY <4>2
        <5>2. c[1] \in T /\ c[2] \in T
          BY <1>4, ChainWithin
        <5>3. e[1] = TaskNode(c[1]) /\ e[2] = TaskNode(c[2])
          BY <5>1
        <5> QED BY <2>5, <5>2, <5>3
      <4>3. CASE e \in DetailEdges(S, T)
        BY <2>5, <4>3 DEF DetailEdges
      <4> QED BY <2>1, <3>1, <4>1, <4>2, <4>3 DEF CanvasEdges, S, T
    <3> QED BY <3>1 DEF EdgesJoin
  <2>7. NodesMatch(o)
    BY <1>3, <1>5, <2>3, <2>4 DEF NodesMatch
  <2>8. ScopeKept(o)
    <3>1. ASSUME NEW t \in 1..CanvasTasks, TaskNode(t) \in DrawnIn(o) PROVE t \in T
      BY <2>4, <3>1, NodesDiffer
    <3> QED BY <1>3, <1>5, <3>1 DEF ScopeKept
  <2>9. CanvasLoads(o)
    BY <1>5 DEF CanvasLoads
  <2>10. CanvasSound(o)
    BY <1>5, <2>2, <2>6, <2>7, <2>8, <2>9 DEF CanvasSound
  <2> QED BY <1>5, <2>10 DEF o
<1> QED BY <1>5, <1>6, <1>7

LEMMA CanvasStarts ==
  ASSUME CanvasMounted
  PROVE  CanvasInv'
<1> DEFINE x == LoadOf("queue")
           y == LoadOf("roadmap")
<1>1. Open' = {x, y} /\ x.stage = "sent" /\ y.stage = "sent" /\ x.op = "queue" /\ y.op = "roadmap"
  BY MountOpens DEF CanvasMounted, LoadOf, Query
<1>2. \A r \in Open' : CanvasAsked(r)
  <2>1. {"op", "stage"} \subseteq DOMAIN x /\ {"op", "stage"} \subseteq DOMAIN y
    BY DEF LoadOf, Query
  <2> QED BY <1>1, <2>1 DEF CanvasAsked
<1>3. PICK p : p = page'
  OBVIOUS
<1>4. /\ p.tasks = {} /\ p.steps = {} /\ p.scope = Nil /\ p.nodes = DemoCanvas
      /\ p.edges = DemoEdges /\ p.counter = 0 /\ CanvasShape(p)
      /\ server' = [tasks |-> {}, steps |-> {}]
  BY <1>3 DEF CanvasMounted, Mounting, CanvasShape
<1>5. DOMAIN p.nodes = NodeIds /\ DrawnIn(p) = DemoNodes /\ \A i \in DemoNodes : p.nodes[i] = 0
  BY <1>4, NodesDiffer, CanvasAssumption DEF DemoCanvas, DrawnIn
<1>6. EdgesJoin(p)
  BY <1>4, <1>5 DEF EdgesJoin, DemoEdges, DemoNodes
<1>7. CanvasSound(p)
  BY <1>4, <1>5, <1>6 DEF CanvasSound, CanvasLoads, NodesMatch, ScopeKept
<1> QED BY <1>2, <1>3, <1>4, <1>7 DEF CanvasInv, CanvasLoads

\* What the user does with one node or edge.
LEMMA EdgesEdited ==
  ASSUME NEW p, CanvasSound(p), NEW E, \A e \in E : e \in p.edges \/ {e[1], e[2]} \subseteq DrawnIn(p)
  PROVE  CanvasSound([p EXCEPT !.edges = E])
<1> DEFINE q == [p EXCEPT !.edges = E]
<1>1. /\ q.tasks = p.tasks /\ q.steps = p.steps /\ q.scope = p.scope /\ q.nodes = p.nodes
      /\ q.edges = E /\ q.counter = p.counter /\ CanvasShape(q)
  BY DEF CanvasSound, CanvasShape
<1> HIDE DEF q
<1>2. DrawnIn(q) = DrawnIn(p)
  BY <1>1 DEF DrawnIn
<1>3. EdgesJoin(q)
  BY <1>1, <1>2 DEF EdgesJoin, CanvasSound
<1>4. CanvasSound(q)
  BY <1>1, <1>2, <1>3 DEF CanvasSound, CanvasLoads, NodesMatch, ScopeKept
<1> QED BY <1>4 DEF q

LEMMA NodeAdded ==
  ASSUME NEW p, CanvasSound(p), p.counter < MaxLocal
  PROVE  CanvasSound([p EXCEPT !.counter = @ + 1, !.nodes[LocalNode(p.counter + 1)] = 0])
<1> DEFINE q == [p EXCEPT !.counter = @ + 1, !.nodes[LocalNode(p.counter + 1)] = 0]
           a == LocalNode(p.counter + 1)
<1>0. MaxLocal \in Nat /\ Nil \notin Nat
  BY CanvasAssumption
<1>1. a \in NodeIds /\ (\A t : a # TaskNode(t))
  BY <1>0, NodesDiffer DEF CanvasSound
<1>2. /\ q.tasks = p.tasks /\ q.steps = p.steps /\ q.scope = p.scope
      /\ q.nodes = [p.nodes EXCEPT ![a] = 0]
      /\ q.edges = p.edges /\ q.counter = p.counter + 1 /\ CanvasShape(q)
  BY DEF CanvasSound, CanvasShape
<1> HIDE DEF q, a
<1>3. DOMAIN q.nodes = NodeIds /\ q.nodes[a] = 0 /\ \A i \in NodeIds : i # a => q.nodes[i] = p.nodes[i]
  BY <1>1, <1>2 DEF CanvasSound
<1>4. DrawnIn(q) = DrawnIn(p) \cup {a}
  BY <1>0, <1>1, <1>3 DEF DrawnIn
<1>5. EdgesJoin(q)
  BY <1>2, <1>4 DEF EdgesJoin, CanvasSound
<1>6. NodesMatch(q)
  BY <1>2, <1>3, <1>4 DEF NodesMatch, CanvasSound, DrawnIn
<1>7. ScopeKept(q)
  BY <1>1, <1>2, <1>4 DEF ScopeKept, CanvasSound
<1>8. CanvasSound(q)
  BY <1>2, <1>3, <1>5, <1>6, <1>7 DEF CanvasSound, CanvasLoads
<1> QED BY <1>8 DEF q, a

LEMMA NodeErased ==
  ASSUME NEW p, CanvasSound(p), NEW i
  PROVE  CanvasSound(WithoutNode(p, i))
<1> DEFINE q == WithoutNode(p, i)
<1>2. /\ q.tasks = p.tasks /\ q.steps = p.steps /\ q.scope = p.scope
      /\ q.nodes = [p.nodes EXCEPT ![i] = Nil]
      /\ q.edges = {e \in p.edges : i \notin {e[1], e[2]}} /\ q.counter = p.counter /\ CanvasShape(q)
  BY DEF CanvasSound, CanvasShape, WithoutNode
<1> HIDE DEF q
<1>3. /\ DOMAIN q.nodes = NodeIds
      /\ \A j \in NodeIds : q.nodes[j] = IF j = i THEN Nil ELSE p.nodes[j]
  BY <1>2 DEF CanvasSound
<1>4. DrawnIn(q) = DrawnIn(p) \ {i}
  BY <1>3 DEF DrawnIn
<1>5. EdgesJoin(q)
  BY <1>2, <1>4 DEF EdgesJoin, CanvasSound
<1>6. NodesMatch(q)
  BY <1>2, <1>3, <1>4 DEF NodesMatch, CanvasSound, DrawnIn
<1>7. ScopeKept(q)
  BY <1>2, <1>4 DEF ScopeKept, CanvasSound
<1>8. CanvasSound(q)
  BY <1>2, <1>3, <1>5, <1>6, <1>7 DEF CanvasSound, CanvasLoads
<1> QED BY <1>8 DEF q

\* The dialogs do not draw.
LEMMA DialogsApart ==
  ASSUME NEW p, CanvasSound(p), NEW v
  PROVE  CanvasSound([p EXCEPT !.editing = v]) /\ CanvasSound([p EXCEPT !.deleting = v])
<1>1. \A q : /\ CanvasShape(q) /\ q.tasks = p.tasks /\ q.steps = p.steps /\ q.scope = p.scope
             /\ q.nodes = p.nodes /\ q.edges = p.edges /\ q.counter = p.counter
             => CanvasSound(q)
  BY DEF CanvasSound, CanvasLoads, DrawnIn, EdgesJoin, NodesMatch, ScopeKept
<1>2. CanvasShape(p)
  BY DEF CanvasSound
<1>3. /\ CanvasShape([p EXCEPT !.editing = v]) /\ CanvasShape([p EXCEPT !.deleting = v])
  BY <1>2 DEF CanvasShape
<1> QED BY <1>1, <1>2, <1>3 DEF CanvasShape

LEMMA CanvasEdits ==
  ASSUME CanvasSound(page), CanvasUser
  PROVE  CanvasSound(page') /\ server' = server /\ wire' = wire
<1> USE DEF Edited
<1>0. Drawn = DrawnIn(page)
  BY DEF Drawn, DrawnIn, CanvasSound
<1>1. ASSUME NEW s, SelectRoadmapScope(s) PROVE CanvasSound(page') /\ server' = server /\ wire' = wire
  <2>1. PICK p : p = [page EXCEPT !.scope = s]
    OBVIOUS
  <2>2. CanvasShape(p) /\ CanvasLoads(p) /\ p.counter \in Nat
    BY <2>1 DEF CanvasSound, CanvasShape, CanvasLoads
  <2> QED BY <1>1, <2>1, <2>2, DrawnAnew DEF SelectRoadmapScope
<1>2. ASSUME NEW a \in Drawn, NEW b \in Drawn,
             \/ OnConnect(a, b)
             \/ \E e \in page.edges : OnReconnect(e, a, b)
      PROVE  CanvasSound(page') /\ server' = server /\ wire' = wire
  <2>1. \A E : E \subseteq page.edges \cup {<<a, b>>} => CanvasSound([page EXCEPT !.edges = E])
    BY <1>0, <1>2, EdgesEdited
  <2>2. \E E : E \subseteq page.edges \cup {<<a, b>>} /\ page' = [page EXCEPT !.edges = E]
    <3>1. CASE OnConnect(a, b)
      BY <3>1 DEF OnConnect
    <3>2. ASSUME NEW e \in page.edges, OnReconnect(e, a, b)
          PROVE \E E : E \subseteq page.edges \cup {<<a, b>>} /\ page' = [page EXCEPT !.edges = E]
      BY <3>2 DEF OnReconnect
    <3> QED BY <1>2, <3>1, <3>2
  <2>3. server' = server /\ wire' = wire
    BY <1>2 DEF OnConnect, OnReconnect
  <2> QED BY <2>1, <2>2, <2>3
<1>3. ASSUME NEW e \in page.edges, DeleteEdge(e)
      PROVE  CanvasSound(page') /\ server' = server /\ wire' = wire
  BY <1>3, EdgesEdited DEF DeleteEdge
<1>4. ASSUME AddLocal PROVE CanvasSound(page') /\ server' = server /\ wire' = wire
  BY <1>4, NodeAdded DEF AddLocal
<1>5. ASSUME NEW i, EraseNode(i) PROVE CanvasSound(page') /\ server' = server /\ wire' = wire
  BY <1>5, NodeErased DEF EraseNode
<1>6. ASSUME NEW i, OpenNodeEditor(i) \/ RequestDeleteNode(i)
      PROVE  CanvasSound(page') /\ server' = server /\ wire' = wire
  <2>1. page' = [page EXCEPT !.editing = i] \/ page' = [page EXCEPT !.deleting = i]
    BY <1>6 DEF OpenNodeEditor, RequestDeleteNode
  <2>2. server' = server /\ wire' = wire
    BY <1>6 DEF OpenNodeEditor, RequestDeleteNode
  <2>3. CanvasSound([page EXCEPT !.editing = i]) /\ CanvasSound([page EXCEPT !.deleting = i])
    BY DialogsApart
  <2> QED BY <2>1, <2>2, <2>3
<1> QED BY <1>1, <1>2, <1>3, <1>4, <1>5, <1>6 DEF CanvasUser, DuplicateNode, AddDecision

LEMMA CanvasKept ==
  ASSUME CanvasInv, CanvasNext
  PROVE  CanvasInv'
<1>0. CanvasSound(page) /\ DOMAIN server = {"tasks", "steps"} /\ CanvasLoads(server)
  BY DEF CanvasInv
<1>1. ASSUME CanvasSound(page'), server' = server, \A r \in Open' : r \in Open \/ CanvasAsked(r)
      PROVE  CanvasInv'
  BY <1>0, <1>1 DEF CanvasInv
<1>2. ASSUME NEW op \in {"queue", "roadmap"}, PollCanvas(op) PROVE CanvasInv'
  <2>1. PICK x : x = LoadOf(op)
    OBVIOUS
  <2>2. CanvasAsked(x)
    BY <2>1 DEF CanvasAsked, LoadOf, Query
  <2>3. Open' = Open \cup {x} /\ page' = page /\ server' = server
    BY <1>2, <2>1, AskOpens DEF PollCanvas
  <2> QED BY <1>0, <1>1, <2>2, <2>3
<1>3. ASSUME NEW r \in Open, ServeCanvas(r) PROVE CanvasInv'
  <2>1. CanvasAsked(r)
    BY DEF CanvasInv
  <2>2. PICK x : x = AnsweredWith(r, IF r.op = "queue" THEN [tasks |-> server.tasks]
                                     ELSE [steps |-> server.steps])
    OBVIOUS
  <2>3. Reply(r, x) /\ page' = page /\ server' = server
    BY <1>3, <2>2 DEF ServeCanvas
  <2>4. CanvasAsked(x)
    <3>1. CASE r.op = "queue"
      BY <1>0, <2>1, <2>2, <3>1 DEF CanvasAsked, AnsweredWith, Answered, Joined, CanvasLoads
    <3>2. CASE r.op # "queue"
      BY <1>0, <2>1, <2>2, <3>2 DEF CanvasAsked, AnsweredWith, Answered, Joined, CanvasLoads
    <3> QED BY <3>1, <3>2
  <2>5. \A y \in Open' : y \in Open \/ y = x
    BY <2>3, ReplyOpens
  <2> QED BY <1>0, <1>1, <2>3, <2>4, <2>5
<1>4. ASSUME NEW r \in Open, NEW ok \in BOOLEAN, CanvasLoaded(r, ok) PROVE CanvasInv'
  <2>1. server' = server /\ \A y \in Open' : y \in Open
    BY <1>4, SettleOpens DEF CanvasLoaded
  <2>2. CanvasAsked(r) /\ CanvasShape(page) /\ CanvasLoads(page) /\ page.counter \in Nat
    BY <1>0 DEF CanvasInv, CanvasSound
  <2>3. CASE ~ok
    BY <1>0, <1>1, <1>4, <2>1, <2>3 DEF CanvasLoaded
  <2>4. CASE ok /\ r.op = "roadmap"
    <3>1. PICK p : p = [page EXCEPT !.steps = r.steps]
      OBVIOUS
    <3>2. page' = Redrawn(p) /\ r.steps \subseteq 1..MaxSteps
      BY <1>4, <2>2, <2>4, <3>1 DEF CanvasLoaded, Ends, CanvasAsked
    <3>3. CanvasShape(p) /\ CanvasLoads(p) /\ p.counter \in Nat
      BY <2>2, <3>1, <3>2 DEF CanvasShape, CanvasLoads
    <3> QED BY <1>1, <2>1, <3>2, <3>3, DrawnAnew
  <2>5. CASE ok /\ r.op = "queue"
    <3>1. PICK p : p = [page EXCEPT !.tasks = r.tasks]
      OBVIOUS
    <3>2. page' = Redrawn(p) /\ r.tasks \subseteq 1..CanvasTasks
      BY <1>4, <2>2, <2>5, <3>1 DEF CanvasLoaded, Ends, CanvasAsked
    <3>3. CanvasShape(p) /\ CanvasLoads(p) /\ p.counter \in Nat
      BY <2>2, <3>1, <3>2 DEF CanvasShape, CanvasLoads
    <3> QED BY <1>1, <2>1, <3>2, <3>3, DrawnAnew
  <2> QED BY <1>4, <2>3, <2>4, <2>5 DEF CanvasLoaded
<1>5. ASSUME CanvasUser PROVE CanvasInv'
  BY <1>0, <1>1, <1>5, CanvasEdits DEF Open
<1>6. ASSUME CloseNodeEditor PROVE CanvasInv'
  BY <1>0, <1>1, <1>6, DialogsApart DEF CloseNodeEditor, Open
<1>7. ASSUME NEW sure \in BOOLEAN, ConfirmDeleteNode(sure) PROVE CanvasInv'
  <2>1. PICK p : p = [page EXCEPT !.deleting = Nil]
    OBVIOUS
  <2>2. CanvasSound(p)
    BY <1>0, <2>1, DialogsApart
  <2>3. \A i : CanvasSound(WithoutNode(p, i))
    BY <2>2, NodeErased
  <2>4. page' = p \/ page' = WithoutNode(p, page.deleting)
    BY <1>7, <2>1 DEF ConfirmDeleteNode
  <2> QED BY <1>1, <1>7, <2>2, <2>3, <2>4 DEF ConfirmDeleteNode, Open
<1>8. ASSUME page' = page, wire' = wire, DOMAIN server' = {"tasks", "steps"}, CanvasLoads(server')
      PROVE  CanvasInv'
  BY <1>0, <1>8 DEF CanvasInv, Open
<1>9. ASSUME NEW t \in 1..CanvasTasks, OutsideTask(t) PROVE CanvasInv'
  <2>1. DOMAIN server' = {"tasks", "steps"} /\ CanvasLoads(server')
    BY <1>0, <1>9 DEF OutsideTask, CanvasLoads
  <2> QED BY <1>8, <1>9, <2>1 DEF OutsideTask
<1>10. ASSUME NEW s \in 1..MaxSteps, OutsideStep(s) PROVE CanvasInv'
  <2>1. SymDiff(server.steps, {s}) \subseteq server.steps \cup {s}
    BY DEF SymDiff
  <2>2. DOMAIN server' = {"tasks", "steps"} /\ CanvasLoads(server')
    BY <1>0, <1>10, <2>1 DEF OutsideStep, CanvasLoads
  <2> QED BY <1>8, <1>10, <2>2 DEF OutsideStep
<1> QED BY <1>2, <1>3, <1>4, <1>5, <1>6, <1>7, <1>9, <1>10 DEF CanvasNext

LEMMA CanvasAgrees ==
  route = "canvas" /\ CanvasInv => EdgesConnect /\ OneNodePerTask /\ ScopeHolds
<1> SUFFICES ASSUME route = "canvas", CanvasInv
             PROVE  EdgesConnect /\ OneNodePerTask /\ ScopeHolds
  OBVIOUS
<1>1. CanvasSound(page) /\ Drawn = DrawnIn(page)
  BY DEF CanvasInv, CanvasSound, Drawn, DrawnIn
<1> QED BY <1>1 DEF CanvasSound, EdgesJoin, NodesMatch, ScopeKept, EdgesConnect, OneNodePerTask, ScopeHolds

-----------------------------------------------------------------------------
(***************************************************************************)
(* The steps below the flows of a run: what is shown or answered of a flow *)
(* is of that flow on the server, and a flow that is not there yet is not  *)
(* shown.                                                                  *)
(***************************************************************************)
\* s are steps of flow f.
StepsOf(s, f) == s \in Seq(Steps) /\ f \in DOMAIN server /\ Range(s) \subseteq Range(server[f])

AskedOf(r) ==
  /\ r.op \in {"steps", "createStep"} => "flow" \in DOMAIN r /\ r.flow \in DOMAIN server
  /\ r.op = "steps" /\ r.stage = "ok" => "steps" \in DOMAIN r /\ StepsOf(r.steps, r.flow)
  /\ r.op = "createStep" /\ r.stage = "ok" =>
       "step" \in DOMAIN r /\ r.step \in Range(server[r.flow]) /\ r.step \in Steps
  /\ r.op = "flows" /\ r.stage = "ok" => "flows" \in DOMAIN r /\ r.flows \subseteq DOMAIN server

ShownOf(p) ==
  /\ p.flows \subseteq DOMAIN server
  /\ p.stepFlow \in DOMAIN server \cup {Nil}
  /\ DOMAIN p.steps = Flows
  /\ \A f \in Flows : p.steps[f] = Nil \/ StepsOf(p.steps[f], f)

FlowsKept == DOMAIN server \subseteq Flows /\ \A f \in DOMAIN server : server[f] \in Seq(Steps)

StepsInv ==
  /\ FlowsKept
  /\ ShownOf(page)
  /\ \A r \in Open : AskedOf(r)

\* Flows and steps are only added.
LEMMA StepsStand ==
  ASSUME StepsInv, FlowsKept', DOMAIN server \subseteq DOMAIN server',
         \A f \in DOMAIN server : Range(server[f]) \subseteq Range(server'[f]),
         page' = page \/ ShownOf(page)', \A x \in Open' : x \in Open \/ AskedOf(x)'
  PROVE  StepsInv'
<1>1. \A s, f : StepsOf(s, f) => StepsOf(s, f)'
  BY DEF StepsOf
<1>2. \A x \in Open : AskedOf(x)'
  <2> TAKE x \in Open
  <2>1. AskedOf(x)
    BY DEF StepsInv
  <2>2. x.op = "createStep" /\ x.stage = "ok" => x.step \in Range(server'[x.flow])
    BY <2>1 DEF AskedOf
  <2> QED BY <1>1, <2>1, <2>2 DEF AskedOf
<1>3. page' = page => ShownOf(page)'
  BY <1>1 DEF StepsInv, ShownOf
<1> QED BY <1>2, <1>3 DEF StepsInv

LEMMA StepsStart ==
  ASSUME NEW s \in FirstFlows, DetailMounted(s)
  PROVE  StepsInv'
<1> DEFINE x == ListFlows("mount")
<1>1. Open' = {x} /\ x.op = "flows" /\ x.stage = "sent"
  BY MountOpens DEF DetailMounted, ListFlows
<1>2. server' = s /\ page'.flows = {} /\ page'.stepFlow = Nil /\ page'.steps = [f \in Flows |-> Nil]
  BY DEF DetailMounted, Mounting
<1>3. FlowsKept'
  BY <1>2, FirstFlowsAssumption DEF FlowsKept
<1>4. ShownOf(page)'
  BY <1>2 DEF ShownOf
<1> HIDE DEF x
<1> QED BY <1>1, <1>3, <1>4 DEF StepsInv, AskedOf

\* The range of a sequence grows by what is appended.
LEMMA AppendRange ==
  ASSUME NEW A, NEW s \in Seq(A), NEW x \in A
  PROVE  Append(s, x) \in Seq(A) /\ Range(Append(s, x)) = Range(s) \cup {x}
<1>1. /\ Append(s, x) \in Seq(A) /\ DOMAIN Append(s, x) = 1..(Len(s) + 1) /\ DOMAIN s = 1..Len(s)
      /\ \A i \in 1..Len(s) : Append(s, x)[i] = s[i]
      /\ Append(s, x)[Len(s) + 1] = x /\ Len(s) \in Nat
  OBVIOUS
<1> DEFINE t == Append(s, x)
<1> HIDE DEF t
<1>2. \A i \in 1..(Len(s) + 1) : i \in 1..Len(s) \/ i = Len(s) + 1
  BY <1>1
<1> QED BY <1>1, <1>2 DEF Range, t

\* A request stays what it is when its component is gone.
LEMMA DetachedAsks ==
  ASSUME NEW s, AskedOf(s), {"op", "stage"} \subseteq DOMAIN s, NEW y, y = [s EXCEPT !.live = FALSE],
         server' = server
  PROVE  AskedOf(y)'
<1>1. DOMAIN y = DOMAIN s /\ \A k \in DOMAIN s : k # "live" => y[k] = s[k]
  OBVIOUS
<1>2. /\ y["op"] = s["op"] /\ y["stage"] = s["stage"]
      /\ "flow" \in DOMAIN s => y["flow"] = s["flow"]
      /\ "steps" \in DOMAIN s => y["steps"] = s["steps"]
      /\ "step" \in DOMAIN s => y["step"] = s["step"]
      /\ "flows" \in DOMAIN s => y["flows"] = s["flows"]
  BY <1>1
<1> QED BY <1>1, <1>2 DEF AskedOf, StepsOf

\* The user's handlers.
LEMMA StepsUserKept ==
  ASSUME DetailInv, StepsInv,
         \/ AddFlow \/ CloseFlowForm \/ CloseStepForm \/ SubmitFlow \/ SubmitStep
         \/ \E f \in Flows : ToggleFlow(f) \/ AddStep(f)
  PROVE  StepsInv'
<1>0. DetailShape(page) /\ ShownOf(page) /\ FlowsKept
  BY DEF DetailInv, StepsInv
<1>1. ASSUME NEW x, wire' = wire \/ Ask(x), AskedOf(x), server' = server, DetailShape(page'),
             page'.steps = page.steps, page'.flows = page.flows,
             page'.stepFlow \in {page.stepFlow, Nil} \cup page.flows
      PROVE  StepsInv'
  <2>1. ShownOf(page)' /\ FlowsKept'
    BY <1>0, <1>1 DEF ShownOf, FlowsKept, StepsOf
  <2>2. Open' = Open \/ Open' = Open \cup {x}
    BY <1>1, AskOpens DEF Open
  <2>3. AskedOf(x)'
    BY <1>1 DEF AskedOf, StepsOf
  <2> QED BY <1>1, <2>1, <2>2, <2>3, StepsStand
<1>2. ASSUME NEW f, AddFlow \/ CloseFlowForm \/ AddStep(f) PROVE StepsInv'
  <2> DEFINE x == Query("createFlow")
  <2>1. x.op = "createFlow"
    BY DEF Query
  <2>2. /\ wire' = wire /\ server' = server /\ DetailShape(page')
        /\ page'.steps = page.steps /\ page'.flows = page.flows
        /\ page'.stepFlow \in {page.stepFlow, Nil} \cup page.flows
    BY <1>0, <1>2 DEF AddFlow, CloseFlowForm, AddStep, AddStepOffered, FlowOffered, DetailEdits,
                      DetailShape
  <2> HIDE DEF x
  <2> QED BY <1>1, <2>1, <2>2 DEF AskedOf
<1>3. ASSUME CloseStepForm PROVE StepsInv'
  <2>1. /\ server' = server /\ page'.steps = page.steps /\ page'.flows = page.flows
        /\ page'.stepFlow = Nil
    BY <1>0, <1>3 DEF CloseStepForm, DetailShape
  <2>2. ShownOf(page)' /\ FlowsKept'
    BY <1>0, <2>1 DEF ShownOf, FlowsKept, StepsOf
  <2>3. ASSUME NEW y \in Open' PROVE y \in Open \/ AskedOf(y)'
    <3>1. \/ y \in Open
          \/ \E s \in StepChain : s \in Open /\ y = [s EXCEPT !.live = FALSE]
      BY <1>3, <2>3, DetachOpens DEF CloseStepForm, Open
    <3>2. ASSUME NEW s \in Open, y = [s EXCEPT !.live = FALSE] PROVE AskedOf(y)'
      <4>1. AskedOf(s) /\ {"op", "stage"} \subseteq DOMAIN s
        BY DEF StepsInv, DetailInv, DetailAsked
      <4> QED BY <2>1, <3>2, <4>1, DetachedAsks
    <3> QED BY <3>1, <3>2
  <2> QED BY <2>1, <2>2, <2>3, StepsStand
<1>4. ASSUME SubmitFlow PROVE StepsInv'
  <2> DEFINE x == Query("createFlow")
  <2>1. x.op = "createFlow" /\ Ask(x)
    BY <1>4 DEF Query, SubmitFlow
  <2>2. /\ server' = server /\ DetailShape(page')
        /\ page'.steps = page.steps /\ page'.flows = page.flows /\ page'.stepFlow = page.stepFlow
    BY <1>0, <1>4 DEF SubmitFlow, DetailShape
  <2> HIDE DEF x
  <2> QED BY <1>1, <2>1, <2>2 DEF AskedOf
<1>5. ASSUME SubmitStep PROVE StepsInv'
  <2> DEFINE x == CreateStep(page.stepFlow)
  <2>1. /\ Ask(x) /\ "flow" \in DOMAIN x /\ x.flow = page.stepFlow /\ x.op = "createStep"
        /\ x.stage = "sent"
    BY <1>5 DEF CreateStep, SubmitStep
  <2>2. /\ server' = server /\ DetailShape(page')
        /\ page'.steps = page.steps /\ page'.flows = page.flows /\ page'.stepFlow = page.stepFlow
    BY <1>0, <1>5 DEF SubmitStep, DetailShape
  <2>3. page.stepFlow \in DOMAIN server
    BY <1>0, <1>5 DEF SubmitStep, StepForm, ShownOf
  <2> HIDE DEF x
  <2>4. AskedOf(x)
    BY <2>1, <2>3 DEF AskedOf
  <2> QED BY <1>1, <2>1, <2>2, <2>4
<1>6. ASSUME NEW f \in Flows, ToggleFlow(f) PROVE StepsInv'
  <2> DEFINE x == GetSteps(f)
  <2>1. "flow" \in DOMAIN x /\ x.flow = f /\ x.op = "steps" /\ x.stage = "sent"
    BY DEF GetSteps
  <2>2. /\ wire' = wire \/ Ask(x)
        /\ f \in page.flows /\ server' = server
    BY <1>6 DEF ToggleFlow, FlowOffered
  <2>3. /\ page'.steps = page.steps /\ page'.flows = page.flows /\ page'.stepFlow = page.stepFlow
        /\ DetailShape(page')
    BY <1>0, <1>6 DEF ToggleFlow, DetailShape
  <2> HIDE DEF x
  <2>4. AskedOf(x)
    BY <1>0, <2>1, <2>2 DEF AskedOf, ShownOf
  <2> QED BY <1>1, <2>2, <2>3, <2>4
<1> QED BY <1>2, <1>3, <1>4, <1>5, <1>6

LEMMA StepsServed ==
  ASSUME DetailInv, StepsInv, NEW r \in Open, ServeDetail(r)
  PROVE  StepsInv'
<1>0. /\ DetailAsked(r) /\ AskedOf(r) /\ FlowsKept /\ page' = page
      /\ {"op", "stage"} \subseteq DOMAIN r
  BY DEF DetailInv, StepsInv, DetailAsked, ServeDetail
\* The answer is to the request, of the same flow.
<1>a. ASSUME NEW k \in {"flows", "steps", "step"}, NEW g, DOMAIN g = {k}, NEW x, x = AnsweredWith(r, g)
      PROVE  /\ x["op"] = r["op"] /\ k \in DOMAIN x /\ x[k] = g[k]
             /\ "flow" \in DOMAIN r => "flow" \in DOMAIN x /\ x["flow"] = r["flow"]
  <2>1. /\ DOMAIN x = DOMAIN r \cup DOMAIN g
        /\ \A l \in DOMAIN r : l \notin DOMAIN g /\ l # "stage" => x[l] = r[l]
    BY <1>a, AnswerWithKeeps
  <2>2. x[k] = g[k]
    BY <1>a DEF AnsweredWith, Joined
  <2> QED BY <1>0, <1>a, <2>1, <2>2
<1>b. ASSUME NEW x, Reply(r, x), AskedOf(x)', FlowsKept', DOMAIN server \subseteq DOMAIN server',
             \A f \in DOMAIN server : Range(server[f]) \subseteq Range(server'[f])
      PROVE  StepsInv'
  <2>1. Open' \subseteq Open \cup {x}
    BY <1>b, ReplyOpens
  <2> QED BY <1>0, <1>b, <2>1, StepsStand
<1>1. CASE r.op = "flows"
  <2>1. PICK x : x = AnsweredWith(r, [flows |-> DOMAIN server])
    OBVIOUS
  <2>3. Reply(r, x) /\ server' = server
    BY <1>1, <2>1 DEF ServeDetail
  <2>4. x.op = "flows" /\ "flows" \in DOMAIN x /\ x.flows = DOMAIN server
    BY <1>1, <1>a, <2>1
  <2>5. AskedOf(x)' /\ FlowsKept'
    BY <1>0, <2>3, <2>4 DEF AskedOf, FlowsKept
  <2> QED BY <1>b, <2>3, <2>5
<1>2. CASE r.op = "steps"
  <2>1. PICK x : x = AnsweredWith(r, [steps |-> server[r.flow]])
    OBVIOUS
  <2>3. Reply(r, x) /\ server' = server
    BY <1>2, <2>1 DEF ServeDetail
  <2>4. "flow" \in DOMAIN r /\ r.flow \in DOMAIN server /\ server[r.flow] \in Seq(Steps)
    BY <1>0, <1>2 DEF AskedOf, FlowsKept
  <2>5. /\ x.op = "steps" /\ "steps" \in DOMAIN x /\ x.steps = server[r.flow]
        /\ "flow" \in DOMAIN x /\ x.flow = r.flow
    BY <1>2, <1>a, <2>1, <2>4
  <2>6. AskedOf(x)' /\ FlowsKept'
    BY <1>0, <2>3, <2>4, <2>5 DEF AskedOf, FlowsKept, StepsOf
  <2> QED BY <1>b, <2>3, <2>6
<1>3. CASE r.op \in {"refresh", "createFlow"}
  <2>1. PICK x : x = Answered(r)
    OBVIOUS
  <2>2. x["op"] = r["op"]
    BY <1>0, <2>1, AnswerKeeps
  <2>3. AskedOf(x)'
    BY <1>3, <2>2 DEF AskedOf
  <2>4. CASE r.op = "refresh"
    <3>1. Reply(r, x) /\ server' = server
      BY <2>1, <2>4 DEF ServeDetail
    <3> QED BY <1>0, <1>b, <2>3, <3>1 DEF FlowsKept
  <2>5. CASE r.op = "createFlow"
    <3>1. PICK f \in Flows \ DOMAIN server : server' = With(server, f, <<>>) /\ Reply(r, x)
      BY <2>1, <2>5 DEF ServeDetail
    <3>2. /\ DOMAIN server' = DOMAIN server \cup {f} /\ server'[f] = <<>>
          /\ \A g \in DOMAIN server : server'[g] = server[g]
      BY <3>1 DEF With
    <3>3. <<>> \in Seq(Steps)
      OBVIOUS
    <3>4. FlowsKept'
      BY <1>0, <3>2, <3>3 DEF FlowsKept
    <3> QED BY <1>b, <2>3, <3>1, <3>2, <3>4
  <2> QED BY <1>3, <2>4, <2>5
<1>4. CASE r.op = "createStep"
  <2>1. PICK s \in Steps : /\ server' = [server EXCEPT ![r.flow] = Append(@, s)]
                           /\ Reply(r, AnsweredWith(r, [step |-> s]))
    BY <1>4 DEF ServeDetail
  <2>2. PICK x : x = AnsweredWith(r, [step |-> s])
    OBVIOUS
  <2>4. Reply(r, x)
    BY <2>1, <2>2
  <2>5. "flow" \in DOMAIN r /\ r.flow \in DOMAIN server /\ server[r.flow] \in Seq(Steps)
    BY <1>0, <1>4 DEF AskedOf, FlowsKept
  <2>6. /\ x.op = "createStep" /\ "step" \in DOMAIN x /\ x.step = s
        /\ "flow" \in DOMAIN x /\ x.flow = r.flow
    BY <1>4, <1>a, <2>2, <2>5
  <2>7. /\ Append(server[r.flow], s) \in Seq(Steps)
        /\ Range(Append(server[r.flow], s)) = Range(server[r.flow]) \cup {s}
    BY <2>5, AppendRange
  <2>8. /\ DOMAIN server' = DOMAIN server /\ server'[r.flow] = Append(server[r.flow], s)
        /\ \A g \in DOMAIN server : g # r.flow => server'[g] = server[g]
    BY <2>1, <2>5
  <2>9. FlowsKept' /\ \A f \in DOMAIN server : Range(server[f]) \subseteq Range(server'[f])
    BY <1>0, <2>7, <2>8 DEF FlowsKept
  <2>10. AskedOf(x)'
    BY <2>5, <2>6, <2>7, <2>8 DEF AskedOf
  <2> QED BY <1>b, <2>4, <2>8, <2>9, <2>10
<1> QED BY <1>0, <1>1, <1>2, <1>3, <1>4 DEF DetailAsked

LEMMA StepsAnswersKept ==
  ASSUME DetailInv, StepsInv, NEW r \in Open, NEW ok \in BOOLEAN,
         Refreshed(r) \/ FlowCreated(r, ok) \/ FlowsLoaded(r, ok) \/ StepsLoaded(r, ok) \/ StepCreated(r, ok)
  PROVE  StepsInv'
<1>0. DetailShape(page) /\ ShownOf(page) /\ FlowsKept /\ AskedOf(r) /\ DetailAsked(r)
  BY DEF DetailInv, StepsInv
\* What else is open is what was, and what follows.
<1>a. ASSUME NEW x, wire' = Settled(r) \/ wire' = BagAdd(Settled(r), x), AskedOf(x), server' = server,
             page'.steps = page.steps, page'.stepFlow = page.stepFlow,
             page'.flows \subseteq DOMAIN server
      PROVE  StepsInv'
  <2>1. Open' \subseteq Open \cup {x}
    BY <1>a, SettleOpens, FollowOpens
  <2>2. ShownOf(page)' /\ FlowsKept' /\ AskedOf(x)'
    BY <1>0, <1>a DEF ShownOf, FlowsKept, StepsOf, AskedOf
  <2> QED BY <1>a, <2>1, <2>2, StepsStand
<1>b. AskedOf(Query("refresh")) /\ AskedOf(ListFlows("create"))
  BY DEF AskedOf, Query, ListFlows
<1>1. ASSUME Refreshed(r) PROVE StepsInv'
  <2>1. /\ wire' = Settled(r) /\ server' = server
        /\ page'.steps = page.steps /\ page'.stepFlow = page.stepFlow /\ page'.flows = page.flows
    BY <1>0, <1>1 DEF Refreshed, DetailShape
  <2> QED BY <1>0, <1>a, <1>b, <2>1 DEF ShownOf
<1>2. ASSUME FlowCreated(r, ok) PROVE StepsInv'
  <2>1. /\ wire' = Settled(r) \/ wire' = BagAdd(Settled(r), ListFlows("create"))
        /\ server' = server
        /\ page'.steps = page.steps /\ page'.stepFlow = page.stepFlow /\ page'.flows = page.flows
    BY <1>0, <1>2 DEF FlowCreated, DetailShape
  <2> QED BY <1>0, <1>a, <1>b, <2>1 DEF ShownOf
<1>3. ASSUME FlowsLoaded(r, ok) PROVE StepsInv'
  <2>1. ok => r.flows \subseteq DOMAIN server
    BY <1>0, <1>3 DEF FlowsLoaded, Ends, AskedOf
  <2>2. /\ wire' = Settled(r) \/ wire' = BagAdd(Settled(r), Query("refresh"))
        /\ server' = server
        /\ page'.steps = page.steps /\ page'.stepFlow = page.stepFlow
        /\ page'.flows \in {page.flows, {}} \/ (ok /\ page'.flows = r.flows)
    BY <1>0, <1>3 DEF FlowsLoaded, DetailShape
  <2> QED BY <1>0, <1>a, <1>b, <2>1, <2>2 DEF ShownOf
<1>4. ASSUME StepsLoaded(r, ok) PROVE StepsInv'
  <2> DEFINE s == IF ok THEN r.steps ELSE <<>>
  <2>1. StepsOf(s, r.flow)
    <3>1. CASE ok
      BY <1>0, <1>4, <3>1 DEF StepsLoaded, Ends, AskedOf
    <3>2. CASE ~ok
      <4>1. <<>> \in Seq(Steps) /\ Range(<<>>) = {}
        BY DEF Range
      <4>2. r.flow \in DOMAIN server
        BY <1>0, <1>4 DEF StepsLoaded, AskedOf
      <4> QED BY <3>2, <4>1, <4>2 DEF StepsOf
    <3> QED BY <3>1, <3>2
  <2>2. page' = [page EXCEPT !.steps[r.flow] = s] /\ wire' = Settled(r) /\ server' = server
    BY <1>4 DEF StepsLoaded
  <2> HIDE DEF s
  <2>3. /\ page'.flows = page.flows /\ page'.stepFlow = page.stepFlow
        /\ page'.steps = [page.steps EXCEPT ![r.flow] = s]
    BY <1>0, <2>2 DEF DetailShape
  <2>4. /\ DOMAIN page'.steps = Flows
        /\ \A f \in Flows : page'.steps[f] = IF f = r.flow THEN s ELSE page.steps[f]
    BY <1>0, <2>3 DEF ShownOf
  <2>5. ShownOf(page') /\ server' = server
    BY <1>0, <2>1, <2>2, <2>3, <2>4 DEF ShownOf
  <2>6. ShownOf(page)' /\ FlowsKept'
    BY <1>0, <2>5 DEF ShownOf, StepsOf, FlowsKept
  <2>7. Open' \subseteq Open
    BY <2>2, SettleOpens
  <2> QED BY <2>2, <2>6, <2>7, StepsStand
<1>5. ASSUME StepCreated(r, ok) PROVE StepsInv'
  <2>1. CASE ~ok
    <3>1. wire' = Settled(r) /\ server' = server /\ page' = [page EXCEPT !.stepSaving = @ /\ ~r.live]
      BY <1>5, <2>1 DEF StepCreated
    <3>2. page'.steps = page.steps /\ page'.stepFlow = page.stepFlow /\ page'.flows = page.flows
      BY <1>0, <3>1 DEF DetailShape
    <3> QED BY <1>0, <1>a, <1>b, <3>1, <3>2 DEF ShownOf
  <2>2. CASE ok
    <3> DEFINE shown == IF page.steps[r.flow] = Nil THEN <<>> ELSE page.steps[r.flow]
               s == Append(shown, r.step)
    <3>1. /\ r.flow \in DOMAIN server /\ r.step \in Range(server[r.flow]) /\ r.step \in Steps
          /\ r.flow \in Flows
      BY <1>0, <1>5, <2>2 DEF StepCreated, Ends, AskedOf, FlowsKept
    <3>2. StepsOf(shown, r.flow)
      <4>1. <<>> \in Seq(Steps) /\ Range(<<>>) = {}
        BY DEF Range
      <4> QED BY <1>0, <3>1, <4>1 DEF StepsOf, ShownOf
    <3>3. /\ page' = [page EXCEPT !.steps[r.flow] = s, !.expanded = @ \cup {r.flow},
                                  !.stepFlow = Nil, !.stepSaving = FALSE]
          /\ wire' = Detached(Settled(r), StepChain) /\ server' = server
      BY <1>5, <2>2 DEF StepCreated
    <3> HIDE DEF shown
    <3>4. StepsOf(s, r.flow)
      BY <3>1, <3>2, AppendRange DEF StepsOf
    <3> HIDE DEF s
    <3>5. /\ page'.flows = page.flows /\ page'.stepFlow = Nil
          /\ page'.steps = [page.steps EXCEPT ![r.flow] = s]
      BY <1>0, <3>3 DEF DetailShape
    <3>6. /\ DOMAIN page'.steps = Flows
          /\ \A f \in Flows : page'.steps[f] = IF f = r.flow THEN s ELSE page.steps[f]
      BY <1>0, <3>5 DEF ShownOf
    <3>7. ShownOf(page')
      BY <1>0, <3>4, <3>5, <3>6 DEF ShownOf
    <3>8. ShownOf(page)' /\ FlowsKept'
      BY <1>0, <3>3, <3>7 DEF ShownOf, StepsOf, FlowsKept
    <3>9. ASSUME NEW y \in Open' PROVE y \in Open \/ AskedOf(y)'
      <4>1. BagToSet(Settled(r)) \subseteq Open
        BY RemoveCloses DEF Settled, Open
      <4>2. \/ y \in Open
            \/ \E t \in StepChain : t \in Open /\ y = [t EXCEPT !.live = FALSE]
        BY <3>3, <3>9, <4>1, DetachOpens DEF Open
      <4>3. ASSUME NEW t \in Open, y = [t EXCEPT !.live = FALSE] PROVE AskedOf(y)'
        <5>1. AskedOf(t) /\ {"op", "stage"} \subseteq DOMAIN t
          BY DEF StepsInv, DetailInv, DetailAsked
        <5> QED BY <3>3, <4>3, <5>1, DetachedAsks
      <4> QED BY <4>2, <4>3
    <3> QED BY <3>3, <3>8, <3>9, StepsStand
  <2> QED BY <2>1, <2>2
<1> QED BY <1>1, <1>2, <1>3, <1>4, <1>5

LEMMA StepsKept ==
  ASSUME DetailInv, StepsInv, DetailNext
  PROVE  StepsInv'
BY StepsUserKept, StepsServed, StepsAnswersKept DEF DetailNext

-----------------------------------------------------------------------------
(***************************************************************************)
(* The definition that is selected: what is listed, in the tab or in an    *)
(* answer under way, is on the server, which forgets none.                 *)
(***************************************************************************)
ListedDefs(r) ==
  r.op = "defs" /\ r.stage = "ok" => "defs" \in DOMAIN r /\ r.defs \subseteq server.defs

DefsInv ==
  /\ page.defs \subseteq server.defs
  /\ page.selected # Nil => page.selected \in server.defs
  /\ \A r \in Open : ListedDefs(r)

LEMMA DefsStart ==
  ASSUME NEW D, LibraryMounted(D)
  PROVE  DefsInv'
<1> DEFINE x == ListDefs("mount")
<1>1. Open' = {x} /\ x.stage = "sent"
  BY MountOpens DEF LibraryMounted, ListDefs
<1>2. page'.defs = {} /\ page'.selected = Nil
  BY DEF LibraryMounted, Mounting, FirstLibrary
<1> QED BY <1>1, <1>2 DEF DefsInv, ListedDefs

\* The server keeps what it has, and what is open is as truthful as before.
LEMMA DefsStand ==
  ASSUME DefsInv, server.defs \subseteq server'.defs,
         page'.defs \subseteq server'.defs,
         page'.selected # Nil => page'.selected \in server'.defs,
         \A x \in Open' : x \in Open \/ ListedDefs(x)'
  PROVE  DefsInv'
BY DEF DefsInv, ListedDefs

LEMMA DefsServed ==
  ASSUME LibraryInv, DefsInv, NEW r \in Open, ServeLibrary(r)
  PROVE  DefsInv'
<1>0. LibraryAsked(r) /\ page' = page
  BY DEF LibraryInv, ServeLibrary
<1>1. CASE r.op = "defs"
  <2>1. PICK x : x = AnsweredWith(r, [defs |-> server.defs])
    OBVIOUS
  <2>2. Reply(r, x) /\ server' = server
    BY <1>1, <2>1 DEF ServeLibrary
  <2>3. "defs" \in DOMAIN x /\ x["defs"] = server.defs
    BY <2>1 DEF AnsweredWith, Joined
  <2>4. Open' \subseteq Open \cup {x}
    BY <2>2, ReplyOpens
  <2>5. ListedDefs(x)'
    BY <2>2, <2>3 DEF ListedDefs
  <2>6. \A y \in Open' : y \in Open \/ ListedDefs(y)'
    BY <2>4, <2>5
  <2> QED BY <1>0, <2>2, <2>6, DefsStand DEF DefsInv
<1>2. CASE r.op # "defs"
  <2> DEFINE x == Answered(r)
  <2>1. Reply(r, x) /\ server' = [defs |-> server.defs \cup {r.def}]
    BY <1>2 DEF ServeLibrary
  <2>2. x["op"] = r["op"]
    BY <1>0, AnswerKeeps DEF LibraryAsked
  <2> HIDE DEF x
  <2>3. Open' \subseteq Open \cup {x}
    BY <2>1, ReplyOpens
  <2>4. ListedDefs(x)'
    BY <1>2, <2>2 DEF ListedDefs
  <2>5. \A y \in Open' : y \in Open \/ ListedDefs(y)'
    BY <2>3, <2>4
  <2>6. server.defs \subseteq server'.defs
    BY <2>1
  <2> QED BY <1>0, <2>5, <2>6, DefsStand DEF DefsInv
<1> QED BY <1>1, <1>2

LEMMA DefsKept ==
  ASSUME LibraryInv, DefsInv, LibraryNext
  PROVE  DefsInv'
<1>0. LibraryShape(page) /\ \A r \in Open : LibraryAsked(r)
  BY DEF LibraryInv
<1>1. ASSUME \/ \E d \in Definitions : SelectDefinition(d) \/ TypeForm(d)
             \/ NewDefinition \/ CancelForm
      PROVE  DefsInv'
  <2>1. /\ Open' = Open /\ server' = server /\ page'.defs = page.defs
        /\ page'.selected \in {page.selected, Nil} \cup page.defs
    BY <1>0, <1>1 DEF SelectDefinition, TypeForm, NewDefinition, CancelForm, LibraryEdits,
                      LibraryShape, Open
  <2> QED BY <2>1, DefsStand DEF DefsInv
<1>2. ASSUME NEW x, x.op = "create" \/ x.stage = "sent", Ask(x), server' = server,
             page'.defs \in {{}, page.defs}, page'.selected \in {Nil, page.selected}
      PROVE  DefsInv'
  <2>1. Open' = Open \cup {x} /\ ListedDefs(x)'
    BY <1>2, AskOpens DEF ListedDefs
  <2> QED BY <1>2, <2>1, DefsStand DEF DefsInv
<1>3. ASSUME RetryDefs \/ EnterLibrary PROVE DefsInv'
  <2>1. PICK h \in {"retry", "mount"} : Ask(ListDefs(h))
    BY <1>3 DEF RetryDefs, EnterLibrary
  <2>2. ListDefs(h).stage = "sent"
    BY DEF ListDefs
  <2>3. /\ server' = server
        /\ page'.defs \in {{}, page.defs} /\ page'.selected \in {Nil, page.selected}
    BY <1>0, <1>3 DEF RetryDefs, EnterLibrary, LibraryShape, FirstLibrary
  <2> QED BY <1>2, <2>1, <2>2, <2>3
<1>4. ASSUME SubmitForm PROVE DefsInv'
  <2>1. Ask(Create(page.typed)) /\ Create(page.typed).stage = "sent"
    BY <1>4 DEF SubmitForm, Create
  <2>2. server' = server /\ page'.defs = page.defs /\ page'.selected = page.selected
    BY <1>0, <1>4 DEF SubmitForm, LibraryShape
  <2> QED BY <1>2, <2>1, <2>2
<1>5. ASSUME LeaveLibrary PROVE DefsInv'
  <2> DEFINE S == {r \in Open : r.live}
  <2>1. \A y : y \in Open' <=> \/ y \in Open /\ y \notin S
                               \/ \E s \in S : s \in Open /\ y = [s EXCEPT !.live = FALSE]
    BY <1>5, DetachOpens DEF LeaveLibrary, Open
  <2>2. server' = server /\ page'.defs = page.defs /\ page'.selected = page.selected
    BY <1>0, <1>5 DEF LeaveLibrary, LibraryShape
  <2>3. ASSUME NEW s \in Open PROVE ListedDefs([s EXCEPT !.live = FALSE])'
    <3>1. [s EXCEPT !.live = FALSE].op = s.op /\ [s EXCEPT !.live = FALSE].stage = s.stage
      BY <1>0 DEF LibraryAsked
    <3>2. "defs" \in DOMAIN s => /\ "defs" \in DOMAIN [s EXCEPT !.live = FALSE]
                                /\ [s EXCEPT !.live = FALSE].defs = s.defs
      OBVIOUS
    <3> QED BY <2>2, <3>1, <3>2 DEF DefsInv, ListedDefs
  <2>4. \A y \in Open' : y \in Open \/ ListedDefs(y)'
    BY <2>1, <2>3
  <2> QED BY <2>2, <2>4, DefsStand DEF DefsInv
<1>6. ASSUME NEW r \in Open, NEW ok \in BOOLEAN, DefinitionCreated(r, ok) PROVE DefsInv'
  <2>1. server' = server /\ page'.defs = page.defs /\ page'.selected = page.selected
    BY <1>0, <1>6 DEF DefinitionCreated, LibraryShape
  <2>2. \A y \in Open' : y \in Open \/ ListedDefs(y)'
    <3> DEFINE x == [ListDefs("create") EXCEPT !.live = r.live]
    <3>1. x.stage = "sent"
      BY DEF ListDefs
    <3>2. wire' = Settled(r) \/ wire' = BagAdd(Settled(r), x)
      BY <1>6 DEF DefinitionCreated
    <3> HIDE DEF x
    <3>3. Open' \subseteq Open \cup {x}
      BY <3>2, SettleOpens, FollowOpens
    <3> QED BY <3>1, <3>3 DEF ListedDefs
  <2> QED BY <2>1, <2>2, DefsStand DEF DefsInv
<1>7. ASSUME NEW r \in Open, NEW ok \in BOOLEAN, DefsLoaded(r, ok) PROVE DefsInv'
  <2>1. Open' \subseteq Open /\ server' = server
    BY <1>7, SettleOpens DEF DefsLoaded
  <2>2. page'.selected = page.selected /\ (page'.defs = page.defs \/ (ok /\ page'.defs = r.defs))
    BY <1>0, <1>7 DEF DefsLoaded, LibraryShape
  <2>3. ok => r.defs \subseteq server.defs
    BY <1>7 DEF DefsLoaded, Ends, DefsInv, ListedDefs
  <2> QED BY <2>1, <2>2, <2>3, DefsStand DEF DefsInv
<1> QED BY <1>1, <1>3, <1>4, <1>5, <1>6, <1>7, DefsServed DEF LibraryNext

-----------------------------------------------------------------------------
(***************************************************************************)
(* The figures of the dashboard: what is shown and answered is about the   *)
(* assistants and the nodes there are.                                     *)
(***************************************************************************)
AboutFleet(s) ==
  /\ {"agents", "roster", "nodes"} \subseteq DOMAIN s
  /\ DOMAIN s.agents \subseteq Agents /\ s.roster \subseteq Agents
  /\ DOMAIN s.nodes \subseteq FleetNodes

ToldOf(r) == r.op = "runtime" /\ r.stage = "ok" => AboutFleet(r)

FleetInv ==
  /\ AboutFleet(page) /\ {"stats", "runtimeError"} \subseteq DOMAIN page
  /\ AboutFleet(server)
  /\ \A r \in Open : ToldOf(r)

LEMMA FleetStarts ==
  ASSUME DashboardMounted(FirstFleet)
  PROVE  FleetInv'
<1>1. /\ page' = [stats |-> "loading", agents |-> <<>>, roster |-> {}, nodes |-> <<>>,
                  runtimeError |-> FALSE]
      /\ server' = FirstFleet
      /\ Open' = {LoadDashboard, LoadRuntime}
  BY MountOpens DEF DashboardMounted, Mounting
<1>2. AboutFleet(page')
  BY <1>1 DEF AboutFleet
<1>3. /\ FirstFleet \in [agents : Reporting, roster : SUBSET Agents, nodes : NodeRows]
      /\ FirstFleet.agents \in Reporting /\ FirstFleet.nodes \in NodeRows
  BY FirstFleetAssumption DEF Fleets
<1>4. DOMAIN FirstFleet.agents \subseteq Agents /\ DOMAIN FirstFleet.nodes \subseteq FleetNodes
  BY <1>3 DEF Reporting, NodeRows
<1>5. AboutFleet(server')
  BY <1>1, <1>3, <1>4 DEF AboutFleet
<1>6. ToldOf(LoadDashboard) /\ ToldOf(LoadRuntime)
  BY DEF ToldOf, LoadDashboard, LoadRuntime, Query
<1>7. {"stats", "runtimeError"} \subseteq DOMAIN page'
  BY <1>1
<1>8. \A r \in Open' : ToldOf(r)
  BY <1>1, <1>6
<1> QED BY <1>2, <1>5, <1>7, <1>8 DEF FleetInv

LEMMA FleetKept ==
  ASSUME DashboardInv, FleetInv, DashboardNext, route' = "dashboard"
  PROVE  FleetInv'
<1>0. /\ AboutFleet(page) /\ {"stats", "runtimeError"} \subseteq DOMAIN page /\ AboutFleet(server)
      /\ DOMAIN server = {"agents", "roster", "nodes"}
      /\ \A r \in Open : ToldOf(r) /\ {"op", "stage"} \subseteq DOMAIN r
  BY DEF FleetInv, DashboardInv
<1>1. CASE RefreshDashboard
  <2>1. Open' = Open \cup {LoadDashboard, LoadRuntime}
    BY <1>1, AddOpens DEF RefreshDashboard, Open
  <2>2. ToldOf(LoadDashboard) /\ ToldOf(LoadRuntime)
    BY DEF ToldOf, LoadDashboard, LoadRuntime, Query
  <2>3. AboutFleet(page') /\ {"stats", "runtimeError"} \subseteq DOMAIN page' /\ server' = server
    BY <1>0, <1>1 DEF RefreshDashboard, AboutFleet
  <2>4. \A r \in Open' : ToldOf(r)
    BY <1>0, <2>1, <2>2
  <2> QED BY <1>0, <2>3, <2>4 DEF FleetInv
<1>2. CASE FleetMoves
  <2>1. page' = page /\ Open' = Open
    BY <1>2 DEF FleetMoves, Open
  <2>2. AboutFleet(server')
    <3>1. ASSUME NEW a \in Agents, NEW w, server' = [server EXCEPT !.agents = With(@, a, w)]
          PROVE  AboutFleet(server')
      <4>1. DOMAIN With(server.agents, a, w) = DOMAIN server.agents \cup {a}
        BY DEF With
      <4> QED BY <1>0, <3>1, <4>1 DEF AboutFleet
    <3>2. ASSUME NEW n \in DOMAIN server.nodes, NEW s, server' = [server EXCEPT !.nodes[n] = s]
          PROVE  AboutFleet(server')
      BY <1>0, <3>2 DEF AboutFleet
    <3>3. ASSUME NEW a \in Agents, server' = [server EXCEPT !.roster = @ \cup {a}]
          PROVE  AboutFleet(server')
      BY <1>0, <3>3 DEF AboutFleet
    <3> QED BY <1>2, <3>1, <3>2, <3>3 DEF FleetMoves
  <2> QED BY <1>0, <2>1, <2>2 DEF FleetInv
<1>3. CASE \E l \in Links : FollowLink(l)
  BY <1>3 DEF FollowLink
<1>4. ASSUME NEW r \in Open, ServeDashboard(r) PROVE FleetInv'
  <2>0. page' = page /\ server' = server
    BY <1>4 DEF ServeDashboard
  <2>1. PICK x : Reply(r, x) /\ ToldOf(x)
    <3>1. CASE r.op = "stats" /\ Reply(r, Answered(r))
      <4>1. PICK x : x = Answered(r)
        OBVIOUS
      <4>2. x["op"] = r["op"]
        BY <1>0, <4>1, AnswerKeeps
      <4> QED BY <3>1, <4>1, <4>2 DEF ToldOf
    <3>2. CASE Reply(r, AnsweredWith(r, server))
      <4>1. PICK x : x = AnsweredWith(r, server)
        OBVIOUS
      <4>2. /\ {"agents", "roster", "nodes"} \subseteq DOMAIN x
            /\ x["agents"] = server["agents"] /\ x["roster"] = server["roster"]
            /\ x["nodes"] = server["nodes"]
        BY <1>0, <4>1 DEF AnsweredWith, Joined
      <4>3. ToldOf(x)
        BY <1>0, <4>2 DEF ToldOf, AboutFleet
      <4> QED BY <3>2, <4>1, <4>3
    <3> QED BY <1>4, <3>1, <3>2 DEF ServeDashboard
  <2>2. Open' \subseteq Open \cup {x}
    BY <2>1, ReplyOpens
  <2> QED BY <1>0, <2>0, <2>1, <2>2 DEF FleetInv
<1>5. ASSUME NEW r \in Open, NEW ok \in BOOLEAN, StatsLoaded(r, ok) \/ RuntimeLoaded(r, ok)
      PROVE  FleetInv'
  <2>1. Open' \subseteq Open /\ server' = server
    BY <1>5, SettleOpens DEF StatsLoaded, RuntimeLoaded
  <2>2. AboutFleet(page') /\ {"stats", "runtimeError"} \subseteq DOMAIN page'
    <3>1. CASE StatsLoaded(r, ok)
      BY <1>0, <3>1 DEF StatsLoaded, AboutFleet
    <3>2. CASE RuntimeLoaded(r, ok) /\ ok
      <4>1. AboutFleet(r)
        BY <1>0, <3>2 DEF RuntimeLoaded, Ends, ToldOf
      <4>2. page' = [page EXCEPT !.agents = r.agents, !.nodes = r.nodes, !.roster = r.roster]
        BY <3>2 DEF RuntimeLoaded
      <4> QED BY <1>0, <4>1, <4>2 DEF AboutFleet
    <3>3. CASE RuntimeLoaded(r, ok) /\ ~ok
      BY <1>0, <3>3 DEF RuntimeLoaded, AboutFleet
    <3> QED BY <1>5, <3>1, <3>2, <3>3
  <2> QED BY <1>0, <2>1, <2>2 DEF FleetInv
<1> QED BY <1>1, <1>2, <1>3, <1>4, <1>5 DEF DashboardNext

LEMMA FleetFigures ==
  ASSUME IsFiniteSet(Agents), IsFiniteSet(FleetNodes), AboutFleet(page)
  PROVE  FiguresAgree
<1> DEFINE mine(t) == {a \in DOMAIN page.agents : (a \in page.roster) = t}
           busy(t) == {a \in mine(t) : ResolveAgentStatus(page.agents[a]) = "running"}
           in(s) == {n \in DOMAIN page.nodes : NormalizeNodeStatus(page.nodes[n]) = s}
<1>1. IsFiniteSet(AgentIds) /\ ActiveAgents \subseteq AgentIds /\ IsFiniteSet(ActiveAgents)
  <2>1. AgentIds \subseteq Agents
    BY DEF AgentIds, AboutFleet
  <2>2. ActiveAgents \subseteq AgentIds
    BY DEF ActiveAgents
  <2> QED BY <2>1, <2>2, SubsetCount
<1>2. Cardinality(mine(TRUE)) + Cardinality(mine(FALSE)) <= Cardinality(AgentIds)
  <2>1. mine(TRUE) \subseteq AgentIds /\ mine(FALSE) \subseteq AgentIds /\ mine(TRUE) \cap mine(FALSE) = {}
    BY DEF AgentIds
  <2> QED BY <1>1, <2>1, PartsCount
<1>3. Cardinality(busy(TRUE)) + Cardinality(busy(FALSE)) <= Cardinality(ActiveAgents)
  <2>1. busy(TRUE) \subseteq ActiveAgents /\ busy(FALSE) \subseteq ActiveAgents
    BY DEF ActiveAgents, AgentIds, StatusOf
  <2>2. busy(TRUE) \cap busy(FALSE) = {}
    OBVIOUS
  <2> QED BY <1>1, <2>1, <2>2, PartsCount
<1>4. Cardinality(in("online")) + Cardinality(in("degraded")) + Cardinality(in("offline"))
        = Cardinality(DOMAIN page.nodes)
  <2>0. IsFiniteSet(DOMAIN page.nodes)
    BY SubsetCount DEF AboutFleet
  <2>1. /\ in("online") \subseteq DOMAIN page.nodes /\ in("degraded") \subseteq DOMAIN page.nodes
        /\ in("offline") \subseteq DOMAIN page.nodes
        /\ in("online") \cap in("degraded") = {}
        /\ (in("online") \cup in("degraded")) \cap in("offline") = {}
    OBVIOUS
  <2>2. (in("online") \cup in("degraded")) \cup in("offline") = DOMAIN page.nodes
    BY DEF NormalizeNodeStatus, NodeWords
  <2> DEFINE A == in("online")
             B == in("degraded")
             C == in("offline")
             D == DOMAIN page.nodes
  <2>3. /\ A \in SUBSET D /\ B \in SUBSET D /\ C \in SUBSET D /\ A \cup B \in SUBSET D
        /\ A \cap B = {} /\ (A \cup B) \cap C = {} /\ (A \cup B) \cup C = D /\ IsFiniteSet(D)
    BY <2>0, <2>1, <2>2
  <2> HIDE DEF A, B, C, D
  <2>4. /\ Cardinality(A \cup B) = Cardinality(A) + Cardinality(B)
        /\ {Cardinality(A), Cardinality(B), Cardinality(A \cup B), Cardinality(D)} \subseteq Nat
    BY <2>3, PartsCount
  <2>5. /\ Cardinality((A \cup B) \cup C) = Cardinality(A \cup B) + Cardinality(C)
        /\ Cardinality(C) \in Nat
    BY <2>3, PartsCount
  <2>6. Cardinality(A) + Cardinality(B) + Cardinality(C) = Cardinality(D)
    BY <2>3, <2>4, <2>5
  <2> QED BY <2>6 DEF A, B, C, D
<1>5. /\ TeamCard(TRUE).total = Cardinality(mine(TRUE)) /\ TeamCard(FALSE).total = Cardinality(mine(FALSE))
      /\ TeamCard(TRUE).active = Cardinality(busy(TRUE))
      /\ TeamCard(FALSE).active = Cardinality(busy(FALSE))
  BY DEF TeamCard
<1>6. /\ NodeSummary["online"] = Cardinality(in("online"))
      /\ NodeSummary["degraded"] = Cardinality(in("degraded"))
      /\ NodeSummary["offline"] = Cardinality(in("offline"))
  BY DEF NodeSummary, SummarizeNodes, NodeWords
<1> HIDE DEF mine, busy, in
<1> QED BY <1>1, <1>2, <1>3, <1>4, <1>5, <1>6 DEF FiguresAgree

-----------------------------------------------------------------------------
(***************************************************************************)
(* The order of the draft of the roadmap: that of tasks sorted by a strict *)
(* total order, in which no two have as many before them.                  *)
(***************************************************************************)
Sorted(s) == \A i, j \in DOMAIN s : i < j => Before(s[i], s[j])

LEMMA BeforeIsOrder ==
  /\ \A a, b, c \in Tasks : Before(a, b) /\ Before(b, c) => Before(a, c)
  /\ \A a \in Tasks : ~Before(a, a)
  /\ \A a, b \in Tasks : a = b \/ Before(a, b) \/ Before(b, a)
<1>0. ASSUME NEW a \in Tasks
      PROVE  /\ a.id \in Nat /\ a.number \in Nat /\ a.pinned \in BOOLEAN
             /\ a = [id |-> a.id, number |-> a.number, pinned |-> a.pinned]
  <2>1. a \in [id : TaskIds, number : 0..MaxNumber, pinned : BOOLEAN]
    BY DEF Tasks
  <2>2. a = [id |-> a.id, number |-> a.number, pinned |-> a.pinned]
    BY <2>1
  <2>3. a.id \in TaskIds /\ a.number \in 0..MaxNumber /\ a.pinned \in BOOLEAN
    BY <2>1
  <2> QED BY <2>2, <2>3, TasksAssumption
<1>1. ASSUME NEW a \in Tasks, NEW b \in Tasks, NEW c \in Tasks, Before(a, b), Before(b, c)
      PROVE  Before(a, c)
  BY <1>0, <1>1 DEF Before
<1>2. ASSUME NEW a \in Tasks PROVE ~Before(a, a)
  BY <1>0 DEF Before
<1>3. ASSUME NEW a \in Tasks, NEW b \in Tasks, ~Before(a, b), ~Before(b, a) PROVE a = b
  <2>1. a.pinned = b.pinned /\ a.number = b.number /\ a.id = b.id
    BY <1>0, <1>3 DEF Before
  <2> QED BY <1>0, <2>1
<1> QED BY <1>1, <1>2, <1>3

LEMMA SortsTasks ==
  ASSUME NEW S \in SUBSET Tasks, IsFiniteSet(S)
  PROVE  /\ SortRoadmapTasks(S) \in Seq(Tasks) /\ Sorted(SortRoadmapTasks(S))
<1> DEFINE n == Cardinality(S)
           first(x) == {y \in S : Before(y, x)}
           rank == [x \in S |-> Cardinality(first(x))]
           o == SortRoadmapTasks(S)
<1>1. n \in Nat /\ \A x \in S : first(x) \in SUBSET S /\ IsFiniteSet(first(x))
  BY SubsetCount
<1>2. ASSUME NEW x \in S, NEW y \in S, Before(x, y)
      PROVE  rank[x] < rank[y]
  <2>1. first(x) \in SUBSET first(y) /\ x \in first(y) /\ x \notin first(x)
    BY <1>2, BeforeIsOrder
  <2>2. IsFiniteSet(first(y))
    BY <1>1
  <2> HIDE DEF first
  <2>3. /\ Cardinality(first(x)) \in Nat /\ Cardinality(first(y)) \in Nat
        /\ Cardinality(first(x)) <= Cardinality(first(y))
        /\ Cardinality(first(x)) # Cardinality(first(y))
    BY <2>1, <2>2, SubsetCount
  <2> QED BY <2>3
<1>3. rank \in [S -> 0..(n - 1)]
  <2> SUFFICES ASSUME NEW x \in S PROVE Cardinality(first(x)) \in 0..(n - 1)
    OBVIOUS
  <2>1. first(x) \in SUBSET S /\ x \notin first(x)
    BY BeforeIsOrder
  <2> HIDE DEF first
  <2>2. Cardinality(first(x)) \in Nat /\ Cardinality(first(x)) <= n /\ Cardinality(first(x)) # n
    BY <2>1, SubsetCount
  <2> QED BY <1>1, <2>2
<1>4. \A x, y \in S : x # y => rank[x] # rank[y]
  <2> HIDE DEF rank
  <2>1. ASSUME NEW x \in S, NEW y \in S, x # y PROVE rank[x] # rank[y]
    <3>1. Before(x, y) \/ Before(y, x)
      BY <2>1, BeforeIsOrder
    <3>2. rank[x] < rank[y] \/ rank[y] < rank[x]
      BY <1>2, <3>1
    <3>3. rank[x] \in Nat /\ rank[y] \in Nat
      BY <1>1, <1>3
    <3> QED BY <3>2, <3>3
  <2> QED BY <2>1
<1>5. \A k \in 0..(n - 1) : \E x \in S : rank[x] = k
  <2> HIDE DEF rank
  <2> QED BY <1>3, <1>4, EachOnce
<1>6. ASSUME NEW i \in 1..n PROVE o[i] \in S /\ rank[o[i]] = i - 1
  <2>1. o[i] = CHOOSE x \in S : Cardinality(first(x)) = i - 1
    BY DEF SortRoadmapTasks
  <2>2. i - 1 \in 0..(n - 1)
    BY <1>1
  <2>3. \E x \in S : Cardinality(first(x)) = i - 1
    BY <1>5, <2>2
  <2> HIDE DEF first, o
  <2>4. o[i] \in S /\ Cardinality(first(o[i])) = i - 1
    BY <2>1, <2>3
  <2> QED BY <2>4
<1>7. DOMAIN o = 1..n /\ o \in [1..n -> Tasks]
  <2> DEFINE at(i) == CHOOSE x \in S : Cardinality(first(x)) = i - 1
  <2>1. o = [i \in 1..n |-> at(i)]
    BY DEF SortRoadmapTasks
  <2> HIDE DEF o, n, at, first, rank
  <2>2. DOMAIN o = 1..n
    BY <2>1
  <2>3. \A i \in 1..n : o[i] \in Tasks
    BY <1>6
  <2>4. o = [i \in DOMAIN o |-> o[i]]
    BY <2>1
  <2> QED BY <2>2, <2>3, <2>4
<1>8. o \in Seq(Tasks)
  <2> HIDE DEF o, n
  <2> QED BY <1>1, <1>7
<1>9. ASSUME NEW i \in 1..n, NEW j \in 1..n, i < j PROVE Before(o[i], o[j])
  <2> HIDE DEF o, n, rank
  <2>1. o[i] \in S /\ o[j] \in S /\ rank[o[i]] = i - 1 /\ rank[o[j]] = j - 1
    BY <1>6
  <2>2. o[i] # o[j] /\ ~(rank[o[j]] < rank[o[i]])
    BY <1>1, <1>9, <2>1
  <2> QED BY <1>2, <2>1, <2>2, BeforeIsOrder
<1> QED BY <1>7, <1>8, <1>9 DEF Sorted

DraftInv == page.draft \in Seq(Tasks) /\ Sorted(page.draft)

\* What a sequence lists is finite.
LEMMA ListedFinite ==
  ASSUME NEW S, NEW s \in Seq(S), \A x \in S : \E i \in 1..Len(s) : s[i] = x
  PROVE  IsFiniteSet(S)
BY DEF IsFiniteSet

\* A set of naturals with a bound has a greatest element.
LEMMA GreatestExists ==
  ASSUME NEW S \in SUBSET Nat, NEW a \in S, NEW b \in Nat, \A x \in S : x <= b
  PROVE  Max(S) \in S /\ \A x \in S : Max(S) >= x
<1> DEFINE T == {n \in Nat : \A x \in S : x <= n}
<1>1. T \in SUBSET Nat /\ b \in T
  OBVIOUS
<1>2. PICK m : m = Min(T)
  OBVIOUS
<1>3. m \in T /\ \A n \in T : m <= n
  <2> HIDE DEF T
  <2> QED BY <1>1, <1>2, LeastExists
<1>4. m \in S
  <2> SUFFICES ASSUME m \notin S PROVE FALSE
    OBVIOUS
  <2>1. \A x \in S : x <= m /\ x # m /\ x \in Nat
    BY <1>3
  <2>2. m \in Nat /\ a <= m - 1
    BY <1>3, <2>1
  <2>3. m - 1 \in Nat
    BY <2>1, <2>2
  <2>4. m - 1 \in T
    BY <2>1, <2>2, <2>3
  <2> QED BY <1>3, <2>2, <2>4
<1>5. \A x \in S : m >= x
  BY <1>3
<1> QED BY <1>4, <1>5 DEF Max

LEMMA DraftSorted ==
  ASSUME NEW S \in SUBSET Tasks, NEW s \in Seq(S), \A x \in S : \E i \in 1..Len(s) : s[i] = x,
         page'.draft = SortRoadmapTasks(S)
  PROVE  DraftInv'
BY ListedFinite, SortsTasks DEF DraftInv, Sorted

LEMMA SelectionSorted ==
  ASSUME NEW s \in Seq(Tasks), Sorted(s), NEW P
  PROVE  Selected(s, P) \in Seq(Tasks) /\ Sorted(Selected(s, P))
<1> DEFINE o == Selected(s, P)
<1>1. o \in Seq(Tasks) /\ DOMAIN o = 1..Len(o)
  BY SelectedInOrder
<1>2. ASSUME NEW i \in 1..Len(o), NEW j \in 1..Len(o), i < j
      PROVE  \E k, l \in 1..Len(s) : k < l /\ o[i] = s[k] /\ o[j] = s[l]
  BY <1>2, SelectedInOrder, SMTT(30)
<1>3. \A k, l \in 1..Len(s) : k < l => Before(s[k], s[l])
  BY DEF Sorted
<1> HIDE DEF o
<1>4. ASSUME NEW i \in 1..Len(o), NEW j \in 1..Len(o), i < j PROVE Before(o[i], o[j])
  <2>1. PICK k, l \in 1..Len(s) : k < l /\ o[i] = s[k] /\ o[j] = s[l]
    BY <1>2, <1>4
  <2> QED BY <1>3, <2>1
<1>5. Sorted(o)
  BY <1>1, <1>4 DEF Sorted
<1> QED BY <1>1, <1>5 DEF o

LEMMA DraftStarts == ASSUME TasksMounted PROVE DraftInv'
<1>1. page'.draft = <<>> /\ <<>> \in Seq(Tasks) /\ DOMAIN <<>> = {}
  BY DEF TasksMounted, Mounting
<1> QED BY <1>1 DEF DraftInv, Sorted

LEMMA DraftKept ==
  ASSUME DraftInv, TasksNext
  PROVE  DraftInv'
<1> DEFINE s == page.draft
<1>0. /\ s \in Seq(Tasks) /\ DOMAIN s = 1..Len(s) /\ Len(s) \in Nat
      /\ \A i \in 1..Len(s) : s[i] \in Tasks
      /\ ToSet(s) = {s[i] : i \in 1..Len(s)}
      /\ ToSet(s) \in SUBSET Tasks
  BY DEF DraftInv, ToSet
<1>1. ASSUME NEW t \in TaskIds, AddRoadmapTask(t) PROVE DraftInv'
  <2> DEFINE N == {s[i].number : i \in DOMAIN s} \cup {0}
             next == Max(N) + 1
             x == [id |-> t, number |-> next, pinned |-> FALSE]
             S == ToSet(s) \cup {x}
             q == Append(s, x)
  <2>1. page'.draft = SortRoadmapTasks(S) /\ next <= MaxNumber
    BY <1>1 DEF AddRoadmapTask, DraftBecomes, Draft
  <2>2. next \in Nat
    <3>1. MaxNumber \in Nat /\ \A i \in 1..Len(s) : s[i].number \in 0..MaxNumber
      BY <1>0, TasksAssumption DEF Tasks
    <3>2. N \in SUBSET Nat /\ 0 \in N /\ \A y \in N : y <= MaxNumber
      BY <1>0, <3>1
    <3> HIDE DEF N
    <3>3. Max(N) \in N
      BY <3>1, <3>2, GreatestExists
    <3>4. Max(N) \in Nat
      BY <3>2, <3>3
    <3> QED BY <3>4
  <2>3. x \in Tasks
    <3> HIDE DEF next
    <3> QED BY <2>1, <2>2, TasksAssumption DEF Tasks
  <2> HIDE DEF x, next
  <2>4. S \in SUBSET Tasks /\ \A i \in 1..Len(s) : s[i] \in S
    BY <1>0, <2>3
  <2>5. s \in Seq(S)
    <3>1. s = [i \in 1..Len(s) |-> s[i]]
      BY <1>0
    <3> HIDE DEF S, s
    <3> QED BY <1>0, <2>4, <3>1
  <2>6. /\ q \in Seq(S) /\ Len(q) = Len(s) + 1 /\ q[Len(s) + 1] = x
        /\ \A i \in 1..Len(s) : q[i] = s[i]
    BY <2>5
  <2> HIDE DEF q
  <2>7. \A y \in S : \E i \in 1..Len(q) : q[i] = y
    BY <1>0, <2>6
  <2> HIDE DEF S
  <2> QED BY <2>1, <2>4, <2>6, <2>7, DraftSorted
<1>2. ASSUME NEW t \in TaskIds, RemoveRoadmapTask(t) PROVE DraftInv'
  <2>1. PICK P : P = {i \in DOMAIN Draft : Draft[i].id # t}
    OBVIOUS
  <2>2. page'.draft = Selected(s, P)
    BY <1>2, <2>1 DEF RemoveRoadmapTask, DraftBecomes, Draft
  <2>3. s \in Seq(Tasks) /\ Sorted(s)
    BY DEF DraftInv
  <2>4. Selected(s, P) \in Seq(Tasks) /\ Sorted(Selected(s, P))
    BY <2>3, SelectionSorted
  <2> QED BY <2>2, <2>4 DEF DraftInv, Sorted
<1>3. ASSUME NEW f, NEW S, DOMAIN f = 1..Len(s), \A i \in 1..Len(s) : f[i] \in Tasks,
             f = [i \in 1..Len(s) |-> f[i]],
             S = {f[i] : i \in 1..Len(s)}, page'.draft = SortRoadmapTasks(S)
      PROVE  DraftInv'
  <2> HIDE DEF s
  <2>1. S \in SUBSET Tasks /\ \A i \in 1..Len(s) : f[i] \in S
    BY <1>3
  <2>2. f \in Seq(S) /\ Len(f) = Len(s)
    BY <1>0, <1>3, <2>1
  <2>3. \A x \in S : \E i \in 1..Len(f) : f[i] = x
    BY <1>3, <2>2
  <2> QED BY <1>3, <2>1, <2>2, <2>3, DraftSorted
<1>4. ASSUME NEW t \in TaskIds, PinTask(t) PROVE DraftInv'
  <2> DEFINE turned(x) == IF x.id = t THEN [x EXCEPT !.pinned = ~@] ELSE x
             f == [i \in 1..Len(s) |-> turned(s[i])]
             S == {turned(x) : x \in ToSet(s)}
  <2>1. page'.draft = SortRoadmapTasks(S)
    BY <1>4 DEF PinTask, DraftBecomes, Draft
  <2>2. \A x \in Tasks : turned(x) \in Tasks
    BY DEF Tasks
  <2> HIDE DEF turned
  <2>3. \A i \in 1..Len(s) : f[i] = turned(s[i]) /\ f[i] \in Tasks
    BY <1>0, <2>2
  <2>4. S = {f[i] : i \in 1..Len(s)}
    <3> HIDE DEF f, s
    <3> QED BY <1>0, <2>3
  <2>5. DOMAIN f = 1..Len(s) /\ f = [i \in 1..Len(s) |-> f[i]]
    OBVIOUS
  <2> HIDE DEF f, S
  <2> QED BY <1>3, <2>1, <2>3, <2>4, <2>5
<1>5. ASSUME NEW i \in DOMAIN page.draft, NEW j \in {i - 1, i + 1}, ReorderRoadmapTask(i, j)
      PROVE  DraftInv'
  <2> DEFINE f == [s EXCEPT ![i].number = s[j].number, ![j].number = s[i].number]
             S == ToSet(f)
  <2>1. page'.draft = SortRoadmapTasks(S) /\ j \in DOMAIN s
    BY <1>5 DEF ReorderRoadmapTask, DraftBecomes, Draft
  <2>2. \A x, y \in Tasks : [x EXCEPT !.number = y.number] \in Tasks
    BY DEF Tasks
  <2>3. DOMAIN f = 1..Len(s) /\ \A k \in 1..Len(s) : f[k] \in Tasks
    <3>1. i \in 1..Len(s) /\ j \in 1..Len(s) /\ i # j
      BY <1>0, <2>1
    <3>2. /\ DOMAIN f = DOMAIN s
          /\ \A k \in DOMAIN s : f[k] = IF k = j THEN [s[j] EXCEPT !.number = s[i].number]
                                        ELSE IF k = i THEN [s[i] EXCEPT !.number = s[j].number]
                                        ELSE s[k]
      <4> HIDE DEF s
      <4> QED BY <1>0, <3>1
    <3> HIDE DEF f, s
    <3> QED BY <1>0, <2>2, <3>1, <3>2
  <2>4. f = [k \in DOMAIN f |-> f[k]]
    OBVIOUS
  <2> HIDE DEF f, s
  <2>5. S = {f[k] : k \in 1..Len(s)}
    BY <2>3 DEF ToSet
  <2> HIDE DEF S
  <2> QED BY <1>3, <2>1, <2>3, <2>4, <2>5
<1>6. ASSUME SaveTasks PROVE DraftInv'
  <2> DEFINE reset(x) == [x EXCEPT !.number = 0]
             f == [i \in 1..Len(s) |-> reset(s[i])]
             S == {reset(x) : x \in ToSet(s)}
  <2>1. page'.draft = SortRoadmapTasks(S)
    BY <1>6 DEF SaveTasks, Persisted, Draft
  <2>2. \A x \in Tasks : reset(x) \in Tasks
    BY TasksAssumption DEF Tasks
  <2> HIDE DEF reset
  <2>3. \A i \in 1..Len(s) : f[i] = reset(s[i]) /\ f[i] \in Tasks
    BY <1>0, <2>2
  <2>4. S = {f[i] : i \in 1..Len(s)}
    <3> HIDE DEF f, s
    <3> QED BY <1>0, <2>3
  <2>5. DOMAIN f = 1..Len(s) /\ f = [i \in 1..Len(s) |-> f[i]]
    OBVIOUS
  <2> HIDE DEF f, S
  <2> QED BY <1>3, <2>1, <2>3, <2>4, <2>5
<1> HIDE DEF s
<1> QED BY <1>1, <1>2, <1>4, <1>5, <1>6 DEF TasksNext, Draft

-----------------------------------------------------------------------------
(***************************************************************************)
(* The tab.                                                                *)
(***************************************************************************)
PlanInv ==
  /\ route = "taskmap" => MapInv /\ TaskMapBusyMeansWaiting
  /\ route = "roadmap" => RoadmapInv
  /\ route = "views" => Typed(page)
  /\ route = "runs" => RunsInv
  /\ route = "run" => DetailInv
  /\ route = "dashboard" => DashboardInv
  /\ route = "terminal" => PanelInv
  /\ route = "assignments" => AssignmentsInv
  /\ route = "import" => ImportInv
  /\ route = "library" => LibraryInv
  /\ route = "plugins" => PluginsInv

\* A step that changes nothing keeps each of them.
LEMMA PlanStutters ==
  ASSUME PlanInv, UNCHANGED tab
  PROVE  PlanInv'
<1>1. page' = page /\ server' = server /\ route' = route /\ wire' = wire
  BY DEF tab
<1>2. Open' = Open /\ \A r : Copies(r)' = Copies(r)
  BY <1>1 DEF Open, Copies
<1>3. (MapInv /\ TaskMapBusyMeansWaiting) => (MapInv /\ TaskMapBusyMeansWaiting)'
  BY <1>1, <1>2 DEF MapInv, PageKept, QueueKept, TaskMapBusyMeansWaiting
<1>4. RoadmapInv => RoadmapInv'
  <2>1. \A p \in Panels : ReadDocument(p)' = ReadDocument(p)
    BY <1>1 DEF ReadDocument
  <2>2. Pending("load")' = Pending("load") /\ Pending("save")' = Pending("save")
    BY <1>2 DEF Pending
  <2>3. \A p \in Panels : \A d : Known(p, d)' = Known(p, d)
    BY <2>1 DEF Known
  <2>4. RoadmapBusyMeansWaiting => RoadmapBusyMeansWaiting'
    BY <1>1, <2>2 DEF RoadmapBusyMeansWaiting
  <2>5. RoadmapTyped => RoadmapTyped'
    BY <1>1, <1>2, <2>1 DEF RoadmapTyped, DocsKept
  <2>6. RoadmapTyped /\ HeldKnown => HeldKnown'
    <3>1. SUFFICES ASSUME RoadmapTyped, HeldKnown PROVE HeldKnown'
      OBVIOUS
    <3>2. \A r \in Open : r \in DocRequests
      BY <3>1 DEF RoadmapTyped
    <3> QED BY <1>1, <1>2, <2>3, <3>1, <3>2, CarriedDocs DEF HeldKnown
  <2> QED BY <1>1, <2>4, <2>5, <2>6 DEF RoadmapInv
<1>5. RunsInv => RunsInv'
  BY <1>1, <1>2 DEF RunsInv, RunChain, Pending, OneAtMost
<1>6. DetailInv => DetailInv'
  BY <1>1, <1>2 DEF DetailInv, FlowChain, StepChain, OneAtMost
<1>7. (DashboardInv => DashboardInv') /\ (PluginsInv => PluginsInv')
  BY <1>1, <1>2 DEF DashboardInv, DashboardBusyMeansWaiting, PluginsInv, PluginsBusyMeansWaiting, Pending
<1>8. (PanelInv => PanelInv') /\ (AssignmentsInv => AssignmentsInv')
  BY <1>1, <1>2 DEF PanelInv, TerminalBusyMeansWaiting, AssignmentsInv
<1>9. (ImportInv => ImportInv') /\ (LibraryInv => LibraryInv')
  BY <1>1, <1>2 DEF ImportInv, LibraryInv, Applying, FormChain, Pending, OneAtMost
<1>10. Typed(page) => Typed(page')
  BY <1>1
<1> QED BY <1>1, <1>3, <1>4, <1>5, <1>6, <1>7, <1>8, <1>9, <1>10 DEF PlanInv

\* The page that is mounted starts in its invariant.
LEMMA PlanMounts ==
  ASSUME route = "none", OpenPage
  PROVE  PlanInv'
<1>1. [Next]_tab
  BY DEF Next
<1>2. route' # "none"
  BY DEF OpenPage, TaskMapMounted, CanvasMounted, RoadmapMounted, TasksMounted, ViewsMounted,
     RunsMounted, DetailMounted, DashboardMounted, TerminalMounted, AssignmentsMounted,
     ImportMounted, LibraryMounted, PluginsMounted, Mounting
<1>3. ASSUME route' = "taskmap" PROVE (MapInv /\ TaskMapBusyMeansWaiting)'
  <2>1. TaskMapMounted(<<>>)
    BY <1>1, <1>2, <1>3, TaskMapStep DEF tab
  <2>2. ~page'.busy
    BY <2>1 DEF TaskMapMounted, Mounting
  <2> QED BY <2>1, <2>2, MapMounted DEF TaskMapBusyMeansWaiting
<1>4. ASSUME route' = "roadmap" PROVE RoadmapInv'
  BY <1>1, <1>4, RoadmapStep, RoadmapStarts DEF tab
<1>5. ASSUME route' = "views" PROVE Typed(page')
  BY <1>1, <1>5, ViewsStep, ViewsStart DEF tab
<1>6. ASSUME route' = "runs" PROVE RunsInv'
  BY <1>1, <1>6, RunsStep, RunsStart DEF tab
<1>7. ASSUME route' = "run" PROVE DetailInv'
  BY <1>1, <1>7, DetailStep, DetailStarts DEF tab
<1>8. ASSUME route' = "dashboard" PROVE DashboardInv'
  BY <1>1, <1>8, DashboardStep, DashboardStarts DEF tab
<1>9. ASSUME route' = "terminal" PROVE PanelInv'
  BY <1>1, <1>9, TerminalStep, PanelStarts DEF tab
<1>10. ASSUME route' = "assignments" PROVE AssignmentsInv'
  BY <1>1, <1>10, AssignmentsStep, AssignmentsStart DEF tab
<1>11. ASSUME route' = "import" PROVE ImportInv'
  BY <1>1, <1>11, ImportStep, ImportStarts DEF tab
<1>12. ASSUME route' = "library" PROVE LibraryInv'
  BY <1>1, <1>12, LibraryStep, LibraryStarts DEF tab
<1>13. ASSUME route' = "plugins" PROVE PluginsInv'
  BY <1>1, <1>13, PluginsStep, PluginsStart DEF tab
<1> QED BY <1>3, <1>4, <1>5, <1>6, <1>7, <1>8, <1>9, <1>10, <1>11, <1>12, <1>13 DEF PlanInv

\* A page that is shown keeps its invariant.
LEMMA PlanSteps ==
  ASSUME PlanInv, route # "none", Next
  PROVE  PlanInv'
<1>1. [Next]_tab
  OBVIOUS
<1>2. CASE UNCHANGED tab
  BY <1>2, PlanStutters
<1>3. CASE ~UNCHANGED tab
  <2>1. ASSUME route' = "taskmap" PROVE (MapInv /\ TaskMapBusyMeansWaiting)'
    BY <1>1, <1>3, <2>1, TaskMapStep, MapKept, MapWaits DEF PlanInv
  <2>2. ASSUME route' = "roadmap" PROVE RoadmapInv'
    BY <1>1, <1>3, <2>2, RoadmapStep, RoadmapKept DEF PlanInv
  <2>3. ASSUME route' = "views" PROVE Typed(page')
    BY <1>1, <1>3, <2>3, ViewsStep, ViewsKept, ViewsAssumption DEF PlanInv
  <2>4. ASSUME route' = "runs" PROVE RunsInv'
    BY <1>1, <1>3, <2>4, RunsStep, RunsKept DEF PlanInv
  <2>5. ASSUME route' = "run" PROVE DetailInv'
    BY <1>1, <1>3, <2>5, DetailStep, DetailKept DEF PlanInv
  <2>6. ASSUME route' = "dashboard" PROVE DashboardInv'
    BY <1>1, <1>3, <2>6, DashboardStep, DashboardKept DEF PlanInv
  <2>7. ASSUME route' = "terminal" PROVE PanelInv'
    BY <1>1, <1>3, <2>7, TerminalStep, PanelKept DEF PlanInv
  <2>8. ASSUME route' = "assignments" PROVE AssignmentsInv'
    BY <1>1, <1>3, <2>8, AssignmentsStep, AssignmentsKept DEF PlanInv
  <2>9. ASSUME route' = "import" PROVE ImportInv'
    BY <1>1, <1>3, <2>9, ImportStep, ImportKept DEF PlanInv
  <2>10. ASSUME route' = "library" PROVE LibraryInv'
    BY <1>1, <1>3, <2>10, LibraryStep, LibraryKept DEF PlanInv
  <2>11. ASSUME route' = "plugins" PROVE PluginsInv'
    BY <1>1, <1>3, <2>11, PluginsStep, PluginsKept DEF PlanInv
  <2> QED BY <2>1, <2>2, <2>3, <2>4, <2>5, <2>6, <2>7, <2>8, <2>9, <2>10, <2>11 DEF PlanInv
<1> QED BY <1>2, <1>3

\* The page that is shown is in its invariant, for every page at once.
THEOREM PlanInvariant == Spec => []PlanInv
<1>1. Init => PlanInv
  BY DEF Init, PlanInv
<1>2. PlanInv /\ [Next]_tab => PlanInv'
  <2> SUFFICES ASSUME PlanInv, [Next]_tab PROVE PlanInv'
    OBVIOUS
  <2>1. CASE UNCHANGED tab
    BY <2>1, PlanStutters
  <2>2. CASE route = "none" /\ Next
    BY <2>2, PlanMounts DEF Next
  <2>3. CASE route # "none" /\ Next
    BY <2>3, PlanSteps
  <2> QED BY <2>1, <2>2, <2>3
<1> QED BY <1>1, <1>2, PTL DEF Spec

-----------------------------------------------------------------------------
(***************************************************************************)
(* The cells of the pages that belong together.                            *)
(***************************************************************************)
CellsInv ==
  /\ route = "canvas" => CanvasInv
  /\ route = "tasks" => DraftInv
  /\ route = "run" => StepsInv
  /\ route = "dashboard" => FleetInv
  /\ route = "library" => DefsInv

LEMMA CellsStutter ==
  ASSUME CellsInv, UNCHANGED tab
  PROVE  CellsInv'
<1>1. page' = page /\ server' = server /\ route' = route /\ wire' = wire /\ Open' = Open
  BY DEF tab, Open
<1>2. CanvasInv => CanvasInv'
  BY <1>1 DEF CanvasInv
<1>3. DraftInv => DraftInv'
  BY <1>1 DEF DraftInv, Sorted
<1>4. StepsInv => StepsInv'
  <2>1. \A x : AskedOf(x) => AskedOf(x)'
    BY <1>1 DEF AskedOf, StepsOf
  <2>2. FlowsKept => FlowsKept'
    BY <1>1 DEF FlowsKept
  <2>3. ShownOf(page) => ShownOf(page)'
    BY <1>1 DEF ShownOf, StepsOf
  <2> QED BY <1>1, <2>1, <2>2, <2>3 DEF StepsInv
<1>5. FleetInv => FleetInv'
  BY <1>1 DEF FleetInv
<1>6. DefsInv => DefsInv'
  BY <1>1 DEF DefsInv, ListedDefs
<1> QED BY <1>1, <1>2, <1>3, <1>4, <1>5, <1>6 DEF CellsInv

LEMMA CellsStep ==
  ASSUME PlanInv, CellsInv, [Next]_tab, ~UNCHANGED tab
  PROVE  CellsInv'
<1>1. ASSUME route' = "canvas" PROVE CanvasInv'
  BY <1>1, CanvasStep, CanvasStarts, CanvasKept DEF CellsInv
<1>2. ASSUME route' = "tasks" PROVE DraftInv'
  BY <1>2, TasksStep, DraftStarts, DraftKept DEF CellsInv
<1>3. ASSUME route' = "run" PROVE StepsInv'
  BY <1>3, DetailStep, StepsStart, StepsKept DEF CellsInv, PlanInv
<1>4. ASSUME route' = "dashboard" PROVE FleetInv'
  BY <1>4, DashboardStep, FleetStarts, FleetKept DEF CellsInv, PlanInv
<1>5. ASSUME route' = "library" PROVE DefsInv'
  BY <1>5, LibraryStep, DefsStart, DefsKept DEF CellsInv, PlanInv
<1> QED BY <1>1, <1>2, <1>3, <1>4, <1>5 DEF CellsInv

\* The views are of the same tasks, so this follows from what each says.
LEMMA ViewsSayTheSame == ViewsAgree
<1>1. Filtered(page) \subseteq Existing
  BY DEF Filtered, Existing
<1>2. ASSUME NEW t \in Existing, Dependencies(t) \subseteq Existing
      PROVE  BlockedInMap(t) <=> BlockedInList(t)
  BY <1>2 DEF BlockedInMap, BlockedInList
<1>3. ASSUME NEW l \in BlockedLines PROVE BlockedInMap(l[2]) /\ BlockedInList(l[2])
  <2>1. l[1] \in Existing /\ l[1] \in Dependencies(l[2]) /\ page.tasks[l[1]].status # "done"
    BY <1>1 DEF BlockedLines
  <2> QED BY <2>1 DEF BlockedInMap, BlockedInList
<1> QED BY <1>2, <1>3 DEF ViewsAgree

LEMMA StepsAreShown == route = "run" /\ StepsInv => StepsShownExist
<1> SUFFICES ASSUME StepsInv
             PROVE  \A f \in DOMAIN server :
                      page.steps[f] # Nil => Range(page.steps[f]) \subseteq Range(server[f])
  BY DEF StepsShownExist
<1> QED BY DEF StepsInv, FlowsKept, ShownOf, StepsOf

-----------------------------------------------------------------------------
\* A task that waits is held by no node (taskqueue/service.go), although Get, check
\* and Update are separate statements, and calls of the page, of other clients and
\* of the sweeps, for any node or for none, overwrite each other with rows made of
\* stale ones; and the page claims and starts tasks for a node only.
THEOREM WaitingTasksStayUnheld == Spec => []WaitingTasksUnheld
<1>1. (route = "taskmap" /\ MapInv) => \A w \in DOMAIN Queue : Unheld(Row(w))
  BY DEF MapInv, QueueKept, Queue, Row
<1>2. (route = "taskmap" /\ MapInv) => \A r \in Open : r.op \in {"claim", "start"} => r.host \in Hosts
  BY DEF MapInv, Asked, Loads, QueueListings, Made, Called, Half
<1>3. PlanInv => WaitingTasksUnheld
  BY <1>1, <1>2 DEF PlanInv, WaitingTasksUnheld
<1> QED BY <1>3, PlanInvariant, PTL

\* A save of the roadmap or of the project data that is accepted replaces the very
\* document it was made from (projectdata/repository.go): no write is lost, whatever
\* loads, saves and edits overlap, for any documents and any number of writes.
THEOREM NoWriteIsLost == Spec => []SaveReplacesItsBase
<1>1. PlanInv => SaveReplacesItsBase
  BY SavesKnown DEF PlanInv, SaveReplacesItsBase
<1> QED BY <1>1, PlanInvariant, PTL

\* With any number of tasks, no edit made in the dependency map closes a cycle
\* (RoadmapDependencyMap.tsx).
THEOREM MapStaysAcyclic == Spec => MapAddsNoCycle
<1> DEFINE Step == [route = "views" /\ route' = route /\ page.viewMode = "map"
                      /\ Acyclic(page.tasks) => Acyclic(page'.tasks)]_tab
<1>1. PlanInv /\ [Next]_tab => Step
  <2> SUFFICES ASSUME PlanInv, [Next]_tab, route = "views", route' = route,
                      page.viewMode = "map", Acyclic(page.tasks), ~UNCHANGED tab
               PROVE  Acyclic(page'.tasks)
    OBVIOUS
  <2>1. ViewsNext
    BY ViewsStep
  <2>2. Typed(page)
    BY DEF PlanInv
  <2> QED BY <2>1, <2>2, MapStep, ViewsAssumption
<1> QED BY <1>1, PlanInvariant, PTL DEF Spec, MapAddsNoCycle

\* No page that plans or follows work keeps a spinner or a disabled control with no
\* request under way, with any tasks, runs, skills, plugins and terminals, however
\* many requests are open and in whatever order they are answered.
THEOREM NoPlanPageHangs == Spec => []BusyMeansWaiting
<1>1. PlanInv => BusyMeansWaiting
  <2> SUFFICES ASSUME PlanInv PROVE BusyMeansWaiting
    OBVIOUS
  <2>1. route = "taskmap" => TaskMapBusyMeansWaiting
    BY DEF PlanInv
  <2>2. route = "roadmap" => RoadmapBusyMeansWaiting
    BY DEF PlanInv, RoadmapInv
  <2>3. route = "runs" => RunsBusyMeansWaiting
    BY DEF PlanInv, RunsInv, RunsBusyMeansWaiting
  <2>4. route = "run" => DetailBusyMeansWaiting
    BY DEF PlanInv, DetailInv, DetailBusyMeansWaiting, ListsAtMount, Pending
  <2>5. route = "dashboard" => DashboardBusyMeansWaiting
    BY DEF PlanInv, DashboardInv
  <2>6. route = "terminal" => TerminalBusyMeansWaiting
    BY DEF PlanInv, PanelInv
  <2>7. route = "assignments" => AssignmentsBusyMeansWaiting
    BY AssignmentsWait DEF PlanInv
  <2>8. route = "import" => ImportBusyMeansWaiting
    BY ImportWaits DEF PlanInv
  <2>9. route = "library" => LibraryBusyMeansWaiting
    BY LibraryWaits DEF PlanInv
  <2>10. route = "plugins" => PluginsBusyMeansWaiting
    BY DEF PlanInv, PluginsInv
  <2> QED BY <2>1, <2>2, <2>3, <2>4, <2>5, <2>6, <2>7, <2>8, <2>9, <2>10 DEF BusyMeansWaiting
<1> QED BY <1>1, PlanInvariant, PTL

\* However the dialogs of runs, flows, steps and skills, and the import, are left,
\* closed, opened and filled meanwhile, each has one request under way at most.
THEOREM NoPlanPageSubmitsTwice == Spec => []NoDoubleSubmit
<1>1. PlanInv => NoDoubleSubmit
  <2> SUFFICES ASSUME PlanInv PROVE NoDoubleSubmit
    OBVIOUS
  <2>1. route = "runs" => RunsNoDoubleSubmit
    BY DEF PlanInv, RunsInv, RunsNoDoubleSubmit
  <2>2. route = "run" => DetailNoDoubleSubmit
    BY DEF PlanInv, DetailInv, DetailNoDoubleSubmit
  <2>3. route = "import" => ImportNoDoubleSubmit
    BY ImportWaits DEF PlanInv
  <2>4. route = "library" => LibraryNoDoubleSubmit
    BY LibraryWaits DEF PlanInv
  <2> QED BY <2>1, <2>2, <2>3, <2>4 DEF NoDoubleSubmit
<1> QED BY <1>1, PlanInvariant, PTL

\* The output that the terminal shows has no hole and no repetition but after a
\* websocket snapshot (terminal-store.ts, terminal-runtime.ts), for any sessions and
\* any output: chunks are lost while the stream changes over, replayed from the first
\* one on, and sent again after a reconnect.
THEOREM OutputFollowsOn == Spec => []DeltasFollowOn
<1>1. PlanInv => DeltasFollowOn
  BY DEF PlanInv, PanelInv, InOrder, FollowsOn, DeltasFollowOn
<1> QED BY <1>1, PlanInvariant, PTL

\* Cells that several handlers write, and that belong together, agree after any
\* sequence of edits, answers and failures.
THEOREM PlanCellsAgree ==
  ASSUME IsFiniteSet(Agents), IsFiniteSet(FleetNodes)
  PROVE  Spec => []CellsAgree
<1>1. Init => CellsInv
  BY DEF Init, CellsInv
<1>2. PlanInv /\ CellsInv /\ [Next]_tab => CellsInv'
  BY CellsStutter, CellsStep
<1>3. CellsInv => CellsAgree
  <2> SUFFICES ASSUME CellsInv PROVE CellsAgree
    OBVIOUS
  <2>1. EdgesConnect /\ OneNodePerTask /\ ScopeHolds
    BY CanvasAgrees DEF CellsInv, EdgesConnect, OneNodePerTask, ScopeHolds
  <2>2. DraftInOrder
    BY DEF CellsInv, DraftInOrder, DraftInv, Sorted, Draft
  <2>3. StepsShownExist
    BY StepsAreShown DEF CellsInv, StepsShownExist
  <2>4. FiguresAgree
    BY FleetFigures DEF CellsInv, FleetInv, FiguresAgree
  <2>5. SelectedExists
    BY DEF CellsInv, DefsInv, SelectedExists
  <2> QED BY <2>1, <2>2, <2>3, <2>4, <2>5, ViewsSayTheSame DEF CellsAgree
<1> QED BY <1>1, <1>2, <1>3, PlanInvariant, PTL DEF Spec
=============================================================================
