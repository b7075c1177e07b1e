---------------------------- MODULE RoadmapViews ----------------------------
(***************************************************************************)
(* The three views of the tasks in the draft of the roadmap: the           *)
(* dependency map, the list of cards and the kanban board                  *)
(* (features/roadmap-project-data/components).  Each edits the same tasks  *)
(* with inputs of its own, and only the map looks at cycles.               *)
(*                                                                         *)
(* Titles, assignees and dates are left out.  The place of a task and its  *)
(* pin are in RoadmapPage; here the tasks are in the order in which they  *)
(* were added, so their ids, which are random, stand for that order.       *)
(***************************************************************************)
EXTENDS WebTab

CONSTANTS MaxTasks,     \* bound on the tasks that are ever added
          Columns       \* the statuses of a task, todo and done among them

ViewsConstants == MaxTasks \in Nat /\ {"todo", "done"} \subseteq Columns

ASSUME ViewsAssumption == ViewsConstants

Ids == 1..MaxTasks
RoadmapTask == [status : Columns, dependencies : SUBSET Ids]
NewTask == [status |-> "todo", dependencies |-> {}]

ViewsState ==
  [ viewMode : {"map", "list", "kanban"},
    statusFilter : Columns \cup {"all"},
    existing : SUBSET Ids,
    tasks : [Ids -> RoadmapTask],           \* NewTask for those that do not exist
    added : 0..MaxTasks,
    selectedTaskId : Ids \cup {Nil},        \* of the map, Nil while it is not drawn
    confirming : SUBSET Ids ]               \* cards that ask whether to delete

ViewsMounted ==
  Mounting("views",
           [viewMode |-> "map", statusFilter |-> "all", existing |-> {}, added |-> 0,
            tasks |-> [t \in Ids |-> NewTask], selectedTaskId |-> Nil, confirming |-> {}],
           Nil, EmptyBag)

-----------------------------------------------------------------------------
Existing == page.existing
Dependencies(t) == page.tasks[t].dependencies

\* filteredTasks
Filtered(p) ==
  {t \in p.existing : p.statusFilter \in {"all", p.tasks[t].status}}

\* What is drawn after a change.  The effect of the map selects the first task
\* when the selected one is not drawn; a card that is gone forgets its question.
Rendered(p) ==
  LET drawn == Filtered(p)
  IN [p EXCEPT !.confirming = IF p.viewMode = "list" THEN @ \cap drawn ELSE {},
               !.selectedTaskId = IF p.viewMode # "map" \/ drawn = {} THEN Nil
                                  ELSE IF @ \in drawn THEN @ ELSE Min(drawn)]

Shows(p) ==
  /\ page' = Rendered(p)
  /\ UNCHANGED <<route, server, wire>>

\* hasDependencyPath: target is in every set that holds from and, with a task,
\* the tasks that it depends on.
Closed(S, tasks) ==
  \A x \in S : tasks[x].dependencies \subseteq S

HasDependencyPath(from, target, tasks) ==
  \A S \in SUBSET Ids : from \in S /\ Closed(S, tasks) => target \in S

\* Mutant: only a direct dependency counts.
CreatesShortCycle(d, t, tasks) == t \in tasks[d].dependencies

\* The option of task d in the dependencies of task t of the map.
CreatesCycle(d, t, tasks) == HasDependencyPath(d, t, tasks)

-----------------------------------------------------------------------------
(* The toolbar.                                                             *)

ChangeView(v) == v # page.viewMode /\ Shows([page EXCEPT !.viewMode = v])

ChangeFilter(f) == f # page.statusFilter /\ Shows([page EXCEPT !.statusFilter = f])

AddTask ==
  /\ page.added < MaxTasks
  /\ Shows([page EXCEPT !.added = @ + 1, !.existing = @ \cup {page.added + 1}])

-----------------------------------------------------------------------------
(* Edits of one task.                                                       *)

\* The map and a card date the first start and the first end of the work as
\* well (buildStatusPatch), the board does not.
ChangeStatus(t, s) ==
  /\ t \in Filtered(page) /\ s # page.tasks[t].status
  /\ Shows([page EXCEPT !.tasks[t].status = s])

Select(t) ==
  /\ page.viewMode = "map" /\ t \in Filtered(page)
  /\ Shows([page EXCEPT !.selectedTaskId = t])

\* A card, or the inspector of the map, edits t.
EditedInFull(t) ==
  \/ page.viewMode = "map" /\ t = page.selectedTaskId
  \/ page.viewMode = "list" /\ t \in Filtered(page)

\* The select with several choices offers every other task, and in the map the
\* options that would close a cycle cannot be chosen.  What is chosen at once is
\* checked against the dependencies before.
DependencyOptions(t) ==
  {d \in Existing \ {t} :
     page.viewMode = "map" => d \in Dependencies(t) \/ ~CreatesCycle(d, t, page.tasks)}

ChangeDependencies(t, D) ==
  /\ EditedInFull(t) /\ D \subseteq DependencyOptions(t)
  /\ Shows([page EXCEPT !.tasks[t].dependencies = D])

-----------------------------------------------------------------------------
(* Deletions: a card asks first, the board does not, the map has none.  The *)
(* tasks that depend on the deleted one keep its id.                        *)

AskDeleteTask(t) ==
  /\ page.viewMode = "list" /\ t \in Filtered(page)
  /\ Shows([page EXCEPT !.confirming = @ \cup {t}])

KeepTask(t) ==
  /\ t \in page.confirming
  /\ Shows([page EXCEPT !.confirming = @ \ {t}])

DeleteTask(t) ==
  /\ t \in page.confirming \/ (page.viewMode = "kanban" /\ t \in Filtered(page))
  /\ Shows([page EXCEPT !.existing = @ \ {t}, !.tasks[t] = NewTask])

ViewsNext ==
  \/ \E v \in {"map", "list", "kanban"} : ChangeView(v)
  \/ \E f \in Columns \cup {"all"} : ChangeFilter(f)
  \/ AddTask
  \/ \E t \in Ids : \/ Select(t) \/ AskDeleteTask(t) \/ KeepTask(t) \/ DeleteTask(t)
                    \/ \E s \in Columns : ChangeStatus(t, s)
                    \/ \E D \in SUBSET Ids : ChangeDependencies(t, D)

-----------------------------------------------------------------------------
(* What the views say of the same tasks.                                    *)

\* Mutant: only the tasks that are drawn count.
BlockedByDrawn(t) ==
  \E d \in Dependencies(t) \cap Filtered(page) : page.tasks[d].status # "done"

\* data-blocked-dependency of a node of the map: a dependency that is gone is
\* not done.
BlockedInMap(t) ==
  \E d \in Dependencies(t) : d \in Existing => page.tasks[d].status # "done"

\* blockedDependencyCount of a card skips it.
BlockedInList(t) ==
  \E d \in Dependencies(t) \cap Existing : page.tasks[d].status # "done"

\* blockedConnectorCount: the lines of the map between two tasks that are drawn.
BlockedLines ==
  {l \in Filtered(page) \X Filtered(page) :
     l[1] \in Dependencies(l[2]) /\ page.tasks[l[1]].status # "done"}

-----------------------------------------------------------------------------
\* No task waits for itself, directly or through others.
Acyclic(tasks) ==
  \A t \in Ids : \A d \in tasks[t].dependencies : ~HasDependencyPath(d, t, tasks)

\* However many dependencies are chosen at once, no edit made in the map closes
\* a cycle in an acyclic roadmap.
MapAddsNoCycle ==
  [][route = "views" /\ route' = route /\ page.viewMode = "map" /\ Acyclic(page.tasks)
       => Acyclic(page'.tasks)]_tab

\* Unless a dependency has been deleted, a task is blocked in the map exactly if
\* it is in the list, and a line drawn as blocked ends at a blocked task.
ViewsAgree ==
  route = "views" =>
    /\ \A t \in Existing :
         Dependencies(t) \subseteq Existing => (BlockedInMap(t) <=> BlockedInList(t))
    /\ \A l \in BlockedLines : BlockedInMap(l[2]) /\ BlockedInList(l[2])
=============================================================================
