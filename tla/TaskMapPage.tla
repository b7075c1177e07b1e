----------------------------- MODULE TaskMapPage -----------------------------
(***************************************************************************)
(* The task map (pages/taskmap/TaskMapPage.tsx): the queue and the roadmap *)
(* drawn on one canvas, and the controls that claim, start, finish and     *)
(* cancel a task, against the task queue (TaskQueue), which other clients  *)
(* and the sweeps of the backend change as well.                           *)
(*                                                                         *)
(* server.queue maps the tasks that exist to their rows.  A call of the     *)
(* page is in stage read between its read of the row and its write; the    *)
(* calls of others fall before, between or after, in one step.  Of the     *)
(* canvas only the nodes of tasks matter here; TaskCanvas has the rest.    *)
(* What is only shown (labels, figures, the run list) is left out.         *)
(***************************************************************************)
EXTENDS WebTab, TaskQueue

CONSTANT Works     \* the ids of tasks

Queues == UNION {[S -> Rows] : S \in SUBSET Works}

TaskMapState ==
  [ list : Queues,                                   \* queueTasks
    canvas : UNION {[S -> Hosts \cup {NoHost}] : S \in SUBSET Works},
                        \* the nodes of queue tasks, with their data.nodeId
    busy : BOOLEAN ]                                 \* controlBusy

\* The calls on one task.
Calls == {"claim", "start", "ack", "nack", "cancel"}
Load(handler) == [op |-> "list", stage |-> "sent", handler |-> handler]
Call(op, w, h) == [op |-> op, stage |-> "sent", task |-> w, host |-> h]

\* The answer of a call.  The handlers of all but a claim go on alike.
Done(op, w, h) == Answered(IF op = "claim" THEN Call(op, w, h) ELSE Query("change"))

\* The first render lists the queue.
TaskMapMounted(q) ==
  Mounting("taskmap",
           [list |-> <<>>, canvas |-> <<>>, busy |-> FALSE],
           [queue |-> q],
           SetToBag({Load("poll")}))

Keep == UNCHANGED <<route, server, wire>>

-----------------------------------------------------------------------------
(* What the page offers for a node that is drawn.  Selecting it, opening its *)
(* menu, its editor or the dialog that confirms its removal are not steps:   *)
(* they change nothing else.                                                *)

OnCanvas == DOMAIN page.canvas
Listed(w) == page.list[w]

\* The buttons below the details.
DetailsOffer(w, op) ==
  op \in {"ack", "nack"} => Listed(w).status = "running"
\* The status select, whatever the status is.
StatusOffers(op) == op \in {"run", "ack", "nack", "cancel"}
\* The context menu, whatever the status is.
MenuOffers(op) == op \in {"run", "ack", "nack"}

ControlOffered(w, op) ==
  /\ w \in OnCanvas /\ ~page.busy
  /\ DetailsOffer(w, op) \/ StatusOffers(op) \/ MenuOffers(op)

\* The selects of agent and node are locked once the node says success, which
\* the editor may make it say, or unsay, whatever the status of the task.
ContextOffered(w) == w \in OnCanvas

-----------------------------------------------------------------------------
(* The canvas.                                                              *)

\* The effect on queueTasks and roadmap: the canvas is drawn anew, and what was
\* only drawn is gone.
RedrawnTasks(q) ==
  [page EXCEPT !.list = q, !.canvas = [w \in DOMAIN q |-> q[w].host]]

\* The delete key takes the selected node off the canvas, not out of the queue.
EraseTaskNode(w) ==
  /\ w \in OnCanvas
  /\ page' = [page EXCEPT !.canvas = Restrict(@, OnCanvas \ {w})]
  /\ Keep

\* A scope of one roadmap step draws the tasks that mention it.
SelectScope(S) ==
  /\ S \subseteq DOMAIN page.list
  /\ page' = [RedrawnTasks(page.list) EXCEPT !.canvas = Restrict(@, S)]
  /\ Keep

\* A poll of the roadmap draws the canvas anew.
RoadmapLoaded ==
  /\ page' = RedrawnTasks(page.list)
  /\ Keep

SelectHost(w, h) ==
  /\ ContextOffered(w)
  /\ page' = [page EXCEPT !.canvas[w] = h]
  /\ Keep

-----------------------------------------------------------------------------
(* Loads of the queue.                                                      *)

\* The interval of ten seconds, and the refresh buttons.
PollQueue == Room(1) /\ Ask(Load("poll")) /\ UNCHANGED <<route, page, server>>

\* refreshQueue after its await: it swallows every error, so its handler goes on.
QueueLoaded(r, ok) ==
  /\ r.op = "list" /\ Ends(r, ok)
  /\ page' = [IF ok THEN RedrawnTasks(r.queue) ELSE page
               EXCEPT !.busy = @ /\ r.handler = "poll"]
  /\ wire' = Settled(r)
  /\ UNCHANGED <<route, server>>

-----------------------------------------------------------------------------
(* Controls: a handler sets controlBusy, awaits its calls and a reload, and  *)
(* clears controlBusy, whoever has set it since.                            *)

Control(r) ==
  /\ Room(1) /\ Ask(r)
  /\ page' = [page EXCEPT !.busy = TRUE]
  /\ UNCHANGED <<route, server>>

\* addNode: its buttons are never disabled, and it sends no idempotency key.
AddNode == Control(Query("create"))

\* The node a task is to run on: of the canvas, of the row, or any that is
\* registered.
HostsFor(w) ==
  LET named == {page.canvas[w], Listed(w).host} \ {NoHost}
  IN IF named = {} THEN Hosts
     ELSE IF page.canvas[w] # NoHost THEN {page.canvas[w]} ELSE named

\* runTaskControl for the task as it is listed: the call it begins with.
FirstCall(w, h) ==
  LET t == Listed(w)
  IN CASE t.status = "pending" -> Call("claim", w, h)
       [] t.status = "claimed" ->
            Call("start", w, IF t.host # NoHost THEN t.host ELSE h)
       [] OTHER -> Load("control")

RunTask(w) ==
  /\ ControlOffered(w, "run")
  /\ \E h \in HostsFor(w) : Control(FirstCall(w, h))

FinishTask(w, op) ==
  /\ ControlOffered(w, op)
  /\ Control(Call(op, w, Listed(w).host))

\* The confirm dialog of a node that is still drawn, which looks at no flag.
ConfirmDelete(w) == w \in OnCanvas /\ Control(Call("cancel", w, NoHost))

\* The agent select, which looks at no flag either: the agent is given to the
\* node the canvas names, if any.
AssignTaskAgent(w) ==
  /\ ContextOffered(w)
  /\ page.canvas[w] # NoHost
  /\ Control(Query("assign"))

\* A call of a control has ended: the next one, the reload, or the end.
ControlAnswered(r, ok) ==
  /\ r.op \in Calls \cup {"create", "assign", "change"}
  /\ Ends(r, ok)
  /\ LET next == IF r.op = "claim" THEN Call("start", r.task, r.host)
                                   ELSE Load("control")
     IN IF ok THEN wire' = BagAdd(Settled(r), next) /\ UNCHANGED page
              ELSE wire' = Settled(r) /\ page' = [page EXCEPT !.busy = FALSE]
  /\ UNCHANGED <<route, server>>

-----------------------------------------------------------------------------
(* The backend.                                                             *)

Queue == server.queue
Row(w) == Queue[w]

\* Get and the check: the call goes on with what it read.
ReadBy(r, t) == [op |-> r.op, stage |-> "read", task |-> r.task, host |-> r.host, row |-> t]

CallReads(r) ==
  /\ r.stage = "sent" /\ r.op \in Calls
  /\ r.task \in DOMAIN Queue /\ Passes(r.op, r.host, Row(r.task))
  /\ Reply(r, ReadBy(r, Row(r.task)))
  /\ UNCHANGED <<route, page, server>>

\* Update, with the row made of what was read.
CallWrites(r) ==
  /\ r.stage = "read"
  /\ \E t \in After(r.op, r.host, r.row) :
       server' = [server EXCEPT !.queue[r.task] = t]
  /\ Reply(r, Done(r.op, r.task, r.host))
  /\ UNCHANGED <<route, page>>

Listing(r) == [op |-> "list", stage |-> "ok", handler |-> r.handler, queue |-> Queue]

ServeTaskMap(r) ==
  /\ r.stage = "sent"
  /\ CASE r.op = "list" -> Reply(r, Listing(r)) /\ UNCHANGED server
       [] r.op = "create" ->
            /\ \E w \in Works \ DOMAIN Queue :
                 server' = [server EXCEPT !.queue = Inserted(@, w)]
            /\ Reply(r, Done(r.op, Nil, NoHost))
       [] r.op = "assign" -> Reply(r, Done(r.op, Nil, NoHost)) /\ UNCHANGED server
       [] OTHER -> FALSE
  /\ UNCHANGED <<route, page>>

\* Another client of the queue, the timeout scan or the promotion of retries
\* makes a call of its own, from its read to its write.  The handlers look at no
\* node id: a client may name a node that does not exist, or none.
OutsideCall(op, w, h) ==
  /\ w \in DOMAIN Queue
  /\ Passes(op, h, Row(w))
  /\ \E t \in After(op, h, Row(w)) : server' = [server EXCEPT !.queue[w] = t]
  /\ UNCHANGED <<route, page, wire>>

TaskMapUser ==
  \/ \E w \in Works : \/ ConfirmDelete(w) \/ EraseTaskNode(w)
                      \/ RunTask(w) \/ AssignTaskAgent(w)
                      \/ \E h \in Hosts : SelectHost(w, h)
                      \/ \E op \in {"ack", "nack", "cancel"} : FinishTask(w, op)
  \/ \E S \in SUBSET Works : SelectScope(S)
  \/ AddNode

TaskMapBackend ==
  \/ \E r \in Open : CallReads(r) \/ CallWrites(r) \/ ServeTaskMap(r)
  \/ \E w \in Works, op \in Calls \cup {"timeout", "promote"} :
       \E h \in Hosts \cup {NoHost} : OutsideCall(op, w, h)

TaskMapNext ==
  \/ TaskMapUser \/ PollQueue \/ RoadmapLoaded \/ TaskMapBackend
  \/ \E r \in Open, ok \in BOOLEAN : QueueLoaded(r, ok) \/ ControlAnswered(r, ok)

-----------------------------------------------------------------------------
\* While the controls are disabled, a control has a call or its reload open:
\* although one cell serves every control, and the first to end clears it, the
\* page is never left disabled with nothing under way.
TaskMapBusyMeansWaiting ==
  page.busy => \E r \in Open : r.op # "list" \/ r.handler = "control"

\* A task that is back in the queue is held by no node, so that any may claim it,
\* whatever stale rows the calls write back over each other; and although others
\* claim tasks for no node, the page itself claims and starts each for one.
WaitingTasksUnheld ==
  route = "taskmap" =>
    /\ \A w \in DOMAIN Queue : Unheld(Row(w))
    /\ \A r \in Open : r.op \in {"claim", "start"} => r.host \in Hosts
=============================================================================
