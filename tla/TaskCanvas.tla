----------------------------- MODULE TaskCanvas -----------------------------
(***************************************************************************)
(* The canvas of the task map (pages/taskmap/TaskMapPage.tsx): the nodes   *)
(* and edges that are made of the queue and of the roadmap, and what the   *)
(* user draws between two redraws.  TaskMapPage has the controls of the    *)
(* tasks.                                                                  *)
(*                                                                         *)
(* Tasks and steps are numbered in the order in which they are drawn.      *)
(* Labels, positions, colours and the fields of the editor are left out.   *)
(***************************************************************************)
EXTENDS WebTab

CONSTANTS CanvasTasks, MaxSteps,  \* bounds on the queue and on the roadmap
          MaxLocal, MaxDrawn,     \* bounds on the nodes and edges of the user
          Mentions                \* <<task, step>>: the task names the step

ASSUME CanvasAssumption ==
  /\ {CanvasTasks, MaxSteps, MaxLocal, MaxDrawn} \subseteq Nat /\ Nil \notin Nat
  /\ Mentions \subseteq (1..CanvasTasks) \X (1..MaxSteps)

TaskNode(t) == <<"task", t>>
StepNode(s) == <<"roadmap", s>>
LocalNode(n) == <<"node", n>>

\* The nodes of initialNodes, of which two stand for all.
DemoNodes == {<<"demo", 1>>, <<"demo", 2>>}
DemoEdges == {<<<<"demo", 1>>, <<"demo", 2>>>>}

NodeIds == {TaskNode(t) : t \in 1..CanvasTasks} \cup {StepNode(s) : s \in 1..MaxSteps}
             \cup {LocalNode(n) : n \in 1..MaxLocal} \cup DemoNodes

CanvasState ==
  [ tasks : SUBSET (1..CanvasTasks),                  \* queueTasks
    steps : SUBSET (1..MaxSteps),                  \* roadmap
    scope : 1..MaxSteps \cup {Nil},                \* selectedRoadmapTaskId
    nodes : [NodeIds -> 0..CanvasTasks \cup {Nil}],   \* backendTaskId, 0 for none;
                                                   \* Nil: not drawn
    edges : SUBSET (NodeIds \X NodeIds),
    counter : 0..MaxLocal,                         \* nodeIdCounter
    editing : NodeIds \cup {Nil},                  \* editingNodeId
    deleting : NodeIds \cup {Nil} ]                \* deleteNodeId

LoadOf(op) == Query(op)

-----------------------------------------------------------------------------
(* What a canvas is made of.                                                *)

\* mapTasksToEdges and mapRoadmapTasksToEdges: each is joined to the next.
Chain(S) == {<<a, Min({b \in S : b > a})>> : a \in {x \in S : \E b \in S : b > x}}

\* The steps and the tasks within the scope; a scope that is not in the roadmap
\* is none.
ScopedSteps(p) == IF p.scope \in p.steps THEN {p.scope} ELSE p.steps
ScopedTasks(p) ==
  IF p.scope \in p.steps THEN {t \in p.tasks : <<t, p.scope>> \in Mentions} ELSE p.tasks

\* mapRoadmapDetailEdges
DetailEdges(steps, tasks) ==
  {<<StepNode(m[2]), TaskNode(m[1])>> :
     m \in {x \in Mentions : x[1] \in tasks /\ x[2] \in steps}}

\* mapTaskToNode and mapRoadmapTaskToNode
CanvasNodes(p) ==
  [i \in NodeIds |->
     IF \E t \in ScopedTasks(p) : i = TaskNode(t) THEN i[2]
     ELSE IF \E s \in ScopedSteps(p) : i = StepNode(s) THEN 0
     ELSE Nil]

CanvasEdges(p) ==
  {<<StepNode(e[1]), StepNode(e[2])>> : e \in Chain(ScopedSteps(p))}
    \cup {<<TaskNode(e[1]), TaskNode(e[2])>> : e \in Chain(ScopedTasks(p))}
    \cup DetailEdges(ScopedSteps(p), ScopedTasks(p))

DemoCanvas == [i \in NodeIds |-> IF i \in DemoNodes THEN 0 ELSE Nil]

\* buildTaskMapCanvas and the two effects: the canvas is made anew, and a scope
\* that has left the roadmap is dropped.  Without a node the demo is shown.
Redrawn(p) ==
  LET q == [p EXCEPT !.scope = IF @ \in p.steps THEN @ ELSE Nil]
      empty == ScopedSteps(q) = {} /\ ScopedTasks(q) = {}
  IN [q EXCEPT !.nodes = IF empty THEN DemoCanvas ELSE CanvasNodes(q),
               !.edges = IF empty THEN DemoEdges ELSE CanvasEdges(q)]

CanvasMounted ==
  Mounting("canvas",
           [tasks |-> {}, steps |-> {}, scope |-> Nil, nodes |-> DemoCanvas,
            edges |-> DemoEdges, counter |-> 0, editing |-> Nil, deleting |-> Nil],
           [tasks |-> {}, steps |-> {}],
           SetToBag({LoadOf("queue"), LoadOf("roadmap")}))

-----------------------------------------------------------------------------
Drawn == {i \in NodeIds : page.nodes[i] # Nil}

\* The dialogs cover the canvas while their node is drawn.
DialogOpen == page.editing \in Drawn \/ page.deleting \in Drawn

Edited(p) ==
  /\ page' = p
  /\ UNCHANGED <<route, server, wire>>

-----------------------------------------------------------------------------
(* Loads.                                                                   *)

\* The intervals of ten and of thirty seconds, and the refresh buttons.
PollCanvas(op) ==
  /\ Room(1) /\ Ask(LoadOf(op))
  /\ UNCHANGED <<route, page, server>>

\* refreshQueue and refreshRoadmap.  Answers come in any order, so an older one
\* may replace a newer; what cannot be read stays as it is.
CanvasLoaded(r, ok) ==
  /\ r.op \in {"queue", "roadmap"} /\ Ends(r, ok)
  /\ page' = IF ~ok THEN page
             ELSE IF r.op = "roadmap" THEN Redrawn([page EXCEPT !.steps = r.steps])
             ELSE Redrawn([page EXCEPT !.tasks = r.tasks])
  /\ wire' = Settled(r)
  /\ UNCHANGED <<route, server>>

\* selectRoadmapScope
SelectRoadmapScope(s) ==
  /\ s \in page.steps \cup {Nil} /\ s # page.scope
  /\ Edited(Redrawn([page EXCEPT !.scope = s]))

-----------------------------------------------------------------------------
(* Edges.                                                                   *)

\* Room for one more edge of the user (the bound of the model).
DrawnByUser == page.edges \ (CanvasEdges(page) \cup DemoEdges)

OnConnect(a, b) ==
  /\ {a, b} \subseteq Drawn /\ a # b /\ Cardinality(DrawnByUser) < MaxDrawn
  /\ Edited([page EXCEPT !.edges = @ \cup {<<a, b>>}])

\* An end of an edge is dragged to another node.
OnReconnect(e, a, b) ==
  /\ e \in page.edges /\ {a, b} \subseteq Drawn
  /\ a # b /\ (a = e[1] \/ b = e[2]) /\ Cardinality(DrawnByUser) < MaxDrawn
  /\ Edited([page EXCEPT !.edges = (@ \ {e}) \cup {<<a, b>>}])

DeleteEdge(e) ==
  /\ e \in page.edges
  /\ Edited([page EXCEPT !.edges = @ \ {e}])

-----------------------------------------------------------------------------
(* Nodes.                                                                   *)

AddLocal ==
  /\ page.counter < MaxLocal
  /\ page' = [page EXCEPT !.counter = @ + 1, !.nodes[LocalNode(page.counter + 1)] = 0]
  /\ UNCHANGED <<route, server, wire>>

\* addNode of a decision.
AddDecision == AddLocal

\* A copy of a node has no backend task.
DuplicateNode(i) == i \in Drawn /\ AddLocal

WithoutNode(p, i) ==
  [p EXCEPT !.nodes[i] = Nil, !.edges = {e \in @ : i \notin {e[1], e[2]}}]

\* The delete key: React Flow takes the node and its edges off the canvas.
EraseNode(i) == i \in Drawn /\ Edited(WithoutNode(page, i))

OpenNodeEditor(i) == i \in Drawn /\ Edited([page EXCEPT !.editing = i])
RequestDeleteNode(i) == i \in Drawn /\ Edited([page EXCEPT !.deleting = i])

\* Save or cancel; what is saved are fields of the node.
CloseNodeEditor ==
  /\ page.editing \in Drawn
  /\ page' = [page EXCEPT !.editing = Nil]
  /\ UNCHANGED <<route, server, wire>>

\* The node of a task stays until a load brings the cancelled task; another one
\* is deleted (deleteNode).
ConfirmDeleteNode(sure) ==
  /\ page.editing \notin Drawn /\ page.deleting \in Drawn
  /\ LET p == [page EXCEPT !.deleting = Nil]
     IN page' = IF sure /\ page.nodes[page.deleting] = 0
                THEN WithoutNode(p, page.deleting) ELSE p
  /\ UNCHANGED <<route, server, wire>>

-----------------------------------------------------------------------------
(* The backend.                                                             *)

ServeCanvas(r) ==
  /\ r.stage = "sent"
  /\ Reply(r, AnsweredWith(r, IF r.op = "queue" THEN [tasks |-> server.tasks]
                                 ELSE [steps |-> server.steps]))
  /\ UNCHANGED <<route, page, server>>

\* Others enqueue tasks, which come last, and edit the roadmap.
OutsideTask(t) ==
  /\ t = Cardinality(server.tasks) + 1
  /\ server' = [server EXCEPT !.tasks = @ \cup {t}]
  /\ UNCHANGED <<route, page, wire>>

OutsideStep(s) ==
  /\ server' = [server EXCEPT !.steps = SymDiff(@, {s})]
  /\ UNCHANGED <<route, page, wire>>

\* What a dialog covers.
CanvasUser ==
  \/ \E s \in 1..MaxSteps \cup {Nil} : SelectRoadmapScope(s)
  \/ \E a, b \in Drawn : OnConnect(a, b) \/ \E e \in page.edges : OnReconnect(e, a, b)
  \/ \E e \in page.edges : DeleteEdge(e)
  \/ \E i \in Drawn : DuplicateNode(i) \/ EraseNode(i)
                      \/ OpenNodeEditor(i) \/ RequestDeleteNode(i)
  \/ AddDecision

CanvasNext ==
  \/ \E op \in {"queue", "roadmap"} : PollCanvas(op)
  \/ \E r \in Open : ServeCanvas(r) \/ \E ok \in BOOLEAN : CanvasLoaded(r, ok)
  \/ ~DialogOpen /\ CanvasUser
  \/ CloseNodeEditor
  \/ \E sure \in BOOLEAN : ConfirmDeleteNode(sure)
  \/ \E t \in 1..CanvasTasks : OutsideTask(t)
  \/ \E s \in 1..MaxSteps : OutsideStep(s)

-----------------------------------------------------------------------------
\* Whatever is drawn, copied, erased or loaded in between, both ends of every
\* edge are drawn.
EdgesConnect == route = "canvas" => \A e \in page.edges : {e[1], e[2]} \subseteq Drawn

\* Only one node of the canvas acts on a task of the queue, the one with its id,
\* and that is a task the page knows.
OneNodePerTask ==
  route = "canvas" =>
    \A i \in Drawn : page.nodes[i] # 0 =>
      i = TaskNode(page.nodes[i]) /\ page.nodes[i] \in page.tasks

\* A scope is a step of the roadmap, and within it every task drawn mentions it.
ScopeHolds ==
  route = "canvas" /\ page.scope # Nil =>
    /\ page.scope \in page.steps
    /\ \A t \in 1..CanvasTasks : TaskNode(t) \in Drawn => <<t, page.scope>> \in Mentions
=============================================================================
