------------------------------ MODULE RunsPage ------------------------------
(***************************************************************************)
(* The runs (pages/runs/RunsPage.tsx) against the ledger of runs: the list,*)
(* RunsPage, and the expanded row of one run, RunDetail, on a route of its *)
(* own.  Requests of api/v2 have no timer.                                 *)
(***************************************************************************)
EXTENDS WebTab

CONSTANT Runs

\* nextRunActions: the buttons of a row.
NextRunActions ==
  [pending |-> {"running", "cancelled"},
   running |-> {"succeeded", "failed", "cancelled"},
   succeeded |-> {}, failed |-> {}, cancelled |-> {}]
RunStates == DOMAIN NextRunActions
Listings == UNION {[S -> RunStates] : S \in SUBSET Runs}

\* The filter of a state stands for that of a tenant too.
Filters == {"all", "running"}

RunsState ==
  [ runs : Listings, filter : Filters,
    load : {"idle", "loading", "error", "unavailable"},
    expanded : Runs \cup {Nil},
    dialog : BOOLEAN,                      \* dialogOpen
    typed : BOOLEAN, saving : BOOLEAN ]    \* form and saving of NewRunDialog

\* What a handler's load has closed over: the filters, and whether the list
\* was empty.
Closure(p) == [empty |-> DOMAIN p.runs = {}, filter |-> p.filter]
Begun(p, c) == [p EXCEPT !.load = IF c.empty /\ @ # "unavailable" THEN "loading" ELSE @]
ListRuns(c, handler) ==
  [op |-> "runs", stage |-> "sent", filter |-> c.filter, handler |-> handler, live |-> TRUE]
CreateRun == [op |-> "create", stage |-> "sent", closure |-> Closure(page), live |-> TRUE]
PutState(x, to) ==
  [op |-> "state", stage |-> "sent", closure |-> Closure(page), run |-> x, to |-> to, live |-> TRUE]

FirstRuns == [runs |-> <<>>, filter |-> "all", load |-> "loading", expanded |-> Nil,
              dialog |-> FALSE, typed |-> FALSE, saving |-> FALSE]

RunsMounted(f) ==
  Mounting("runs", FirstRuns, f, SetToBag({ListRuns(Closure(FirstRuns), "load")}))

-----------------------------------------------------------------------------
\* Without the ledger the page is a message and a retry button.
Reachable == page.load # "unavailable"
ListOffered == Reachable /\ ~page.dialog
RowOffered(x) == ListOffered /\ x \in DOMAIN page.runs
FormOffered == Reachable /\ page.dialog

Edits(p) == page' = p /\ UNCHANGED <<route, server, wire>>

ToggleExpand(x) ==
  RowOffered(x) /\ Edits([page EXCEPT !.expanded = IF @ = x THEN Nil ELSE x])
OpenNewRun == ListOffered /\ Edits([page EXCEPT !.dialog = TRUE])
\* Escape closes the dialog also while it is saving; its state stays.
CloseNewRun == FormOffered /\ Edits([page EXCEPT !.dialog = FALSE])
TypeNewRun == FormOffered /\ Edits([page EXCEPT !.typed = TRUE])

\* Refresh, Retry and the interval of five seconds.
LoadRuns ==
  /\ Room(1)
  /\ page' = Begun(page, Closure(page))
  /\ Ask(ListRuns(Closure(page), "load"))
  /\ UNCHANGED <<route, server>>

\* A new filter makes a new load, whose effect runs it at once.
SetFilter(f) ==
  /\ ListOffered /\ f # page.filter /\ Room(1)
  /\ LET p == [page EXCEPT !.filter = f]
     IN page' = Begun(p, Closure(p)) /\ Ask(ListRuns(Closure(p), "load"))
  /\ UNCHANGED <<route, server>>

SubmitRun ==
  /\ FormOffered /\ page.typed /\ ~page.saving /\ Room(1)
  /\ page' = [page EXCEPT !.saving = TRUE]
  /\ Ask(CreateRun)
  /\ UNCHANGED <<route, server>>

ClickState(x, to) ==
  /\ RowOffered(x) /\ to \in NextRunActions[page.runs[x]] /\ Room(1)
  /\ Ask(PutState(x, to))
  /\ UNCHANGED <<route, page, server>>

\* The handlers of the creation and of a state go on with the load they closed
\* over; a failure ends the creation, and is not caught for a state.
RunChanged(r, ok) ==
  /\ r.op \in {"create", "state"} /\ Ends(r, ok)
  /\ IF ok
     THEN /\ page' = Begun(page, r.closure)
          /\ wire' = BagAdd(Settled(r), [ListRuns(r.closure, r.op) EXCEPT !.live = r.live])
     ELSE /\ page' = [page EXCEPT !.saving = @ /\ ~(r.op = "create" /\ r.live)]
          /\ wire' = Settled(r)
  /\ UNCHANGED <<route, server>>

\* The end of handleSubmit: a dialog that was replaced meanwhile keeps its form.
Submitted(p, r) ==
  IF r.handler # "create" THEN p
  ELSE [p EXCEPT !.dialog = FALSE, !.typed = @ /\ ~r.live, !.saving = @ /\ ~r.live]

\* Another number of runs makes a new load too.
RunsLoaded(r) ==
  /\ r.op = "runs" /\ Ends(r, TRUE)
  /\ LET p == Submitted([page EXCEPT !.runs = r.rows, !.load = "idle"], r)
     IN IF Cardinality(DOMAIN r.rows) = Cardinality(DOMAIN page.runs)
        THEN page' = p /\ wire' = Settled(r)
        ELSE /\ page' = Begun(p, Closure(p))
             /\ wire' = BagAdd(Settled(r), ListRuns(Closure(p), "load"))
  /\ UNCHANGED <<route, server>>

RunsFailed(r) ==
  /\ r.op = "runs"
  /\ \/ /\ page' = Submitted([page EXCEPT !.load = "error"], r)
        /\ wire' = Settled(r)
     \/ \* 503: the dialog is unmounted with the rest of the page.
        /\ page' = Submitted([page EXCEPT !.load = "unavailable", !.typed = FALSE,
                                          !.saving = FALSE], r)
        /\ wire' = Detached(Settled(r), {s \in Open : s.live})
  /\ UNCHANGED <<route, server>>

-----------------------------------------------------------------------------
Matches(s, f) == f = "all" \/ s = f

ServeRuns(r) ==
  /\ r.stage = "sent"
  /\ \/ /\ r.op = "runs"
        /\ LET rows == {x \in DOMAIN server : Matches(server[x], r.filter)}
           IN Reply(r, AnsweredWith(r, [rows |-> [x \in rows |-> server[x]]]))
        /\ UNCHANGED server
     \/ /\ r.op = "create"
        /\ \E x \in Runs \ DOMAIN server : server' = With(server, x, "pending")
        /\ Reply(r, Answered(r))
     \/ /\ r.op = "state"
        /\ r.to = server[r.run] \/ r.to \in NextRunActions[server[r.run]]
        /\ server' = [server EXCEPT ![r.run] = r.to]
        /\ Reply(r, Answered(r))
  /\ UNCHANGED <<route, page>>

\* The scheduler and other tabs.
RunAdvances ==
  /\ \E x \in DOMAIN server : \E to \in NextRunActions[server[x]] :
        server' = [server EXCEPT ![x] = to]
  /\ UNCHANGED <<route, page, wire>>

RunsNext ==
  \/ OpenNewRun \/ CloseNewRun \/ TypeNewRun \/ LoadRuns \/ SubmitRun \/ RunAdvances
  \/ \E x \in Runs : ToggleExpand(x) \/ \E to \in RunStates : ClickState(x, to)
  \/ \E f \in Filters : SetFilter(f)
  \/ \E r \in Open : \/ ServeRuns(r) \/ RunsLoaded(r) \/ RunsFailed(r)
                     \/ \E ok \in BOOLEAN : RunChanged(r, ok)

-----------------------------------------------------------------------------
RunChain == {r \in Open : r.live /\ (r.op = "create" \/ (r.op = "runs" /\ r.handler = "create"))}

\* The spinner and the disabled form never wait for nothing.
RunsBusyMeansWaiting ==
  /\ page.load = "loading" => Pending("runs") # {}
  /\ page.saving => RunChain # {}

\* The dialog that is mounted has one creation under way at most, although it
\* may be closed and opened again meanwhile.
RunsNoDoubleSubmit == OneAtMost(RunChain)

-----------------------------------------------------------------------------
(***************************************************************************)
(* RunDetail with its two dialogs.  The list of flows has no flows in its  *)
(* rows, so the detail loads them once.  onRefresh, the load of the page   *)
(* around it, is a request whose failure is swallowed.                     *)
(***************************************************************************)
CONSTANTS Flows, Steps

DetailState ==
  [ flows : SUBSET Flows, loadingFlows : BOOLEAN, expanded : SUBSET Flows,
    steps : [Flows -> Seq(Steps) \cup {Nil}],         \* stepsByFlow
    flowDialog : BOOLEAN, flowSaving : BOOLEAN,
    stepFlow : Flows \cup {Nil}, stepSaving : BOOLEAN ]

ListFlows(handler) == [op |-> "flows", stage |-> "sent", handler |-> handler]
GetSteps(f) == [op |-> "steps", stage |-> "sent", flow |-> f]
\* live says whether the dialog that asked is still mounted.
CreateStep(f) == [op |-> "createStep", stage |-> "sent", flow |-> f, live |-> TRUE]

DetailMounted(s) ==
  Mounting("run",
           [flows |-> {}, loadingFlows |-> TRUE, expanded |-> {},
            steps |-> [f \in Flows |-> Nil], flowDialog |-> FALSE, flowSaving |-> FALSE,
            stepFlow |-> Nil, stepSaving |-> FALSE],
           s, SetToBag({ListFlows("mount")}))

-----------------------------------------------------------------------------
Uncovered == ~page.loadingFlows /\ ~page.flowDialog /\ page.stepFlow = Nil
AddFlowOffered == Uncovered
FlowOffered(f) == Uncovered /\ f \in page.flows
AddStepOffered(f) == FlowOffered(f) /\ f \in page.expanded
FlowForm == page.flowDialog
StepForm == page.stepFlow # Nil

DetailEdits(p) == page' = p /\ UNCHANGED <<route, server, wire>>

\* The steps of a flow are asked for until they were shown once.
ToggleFlow(f) ==
  /\ FlowOffered(f)
  /\ page' = [page EXCEPT !.expanded = IF f \in @ THEN @ \ {f} ELSE @ \cup {f}]
  /\ IF page.steps[f] # Nil THEN UNCHANGED wire
                            ELSE Room(1) /\ Ask(GetSteps(f))
  /\ UNCHANGED <<route, server>>

AddFlow == AddFlowOffered /\ DetailEdits([page EXCEPT !.flowDialog = TRUE])
AddStep(f) == AddStepOffered(f) /\ DetailEdits([page EXCEPT !.stepFlow = f])

\* Escape closes a dialog also while it is saving.  That of a flow keeps its
\* state; that of a step is unmounted.
CloseFlowForm == FlowForm /\ DetailEdits([page EXCEPT !.flowDialog = FALSE])
StepChain == {r \in Open : r.op = "createStep" /\ r.live}
CloseStepForm ==
  /\ StepForm
  /\ page' = [page EXCEPT !.stepFlow = Nil, !.stepSaving = FALSE]
  /\ wire' = Detached(wire, StepChain)
  /\ UNCHANGED <<route, server>>

SubmitFlow ==
  /\ FlowForm /\ ~page.flowSaving /\ Room(1)
  /\ page' = [page EXCEPT !.flowSaving = TRUE]
  /\ Ask(Query("createFlow"))
  /\ UNCHANGED <<route, server>>

\* Mutant: the button is not disabled while it saves.
SubmitStepAgain ==
  /\ StepForm /\ Room(1)
  /\ page' = [page EXCEPT !.stepSaving = TRUE]
  /\ Ask(CreateStep(page.stepFlow))
  /\ UNCHANGED <<route, server>>

SubmitStep ==
  /\ StepForm /\ ~page.stepSaving /\ Room(1)
  /\ page' = [page EXCEPT !.stepSaving = TRUE]
  /\ Ask(CreateStep(page.stepFlow))
  /\ UNCHANGED <<route, server>>

-----------------------------------------------------------------------------
\* handleCreateFlow: create, list the flows, refresh the page around; then the
\* dialog is closed, whichever opening of it is shown.
FlowCreated(r, ok) ==
  /\ r.op = "createFlow" /\ Ends(r, ok)
  /\ IF ok THEN wire' = BagAdd(Settled(r), ListFlows("create")) /\ UNCHANGED page
           ELSE wire' = Settled(r) /\ page' = [page EXCEPT !.flowSaving = FALSE]
  /\ UNCHANGED <<route, server>>

FlowsLoaded(r, ok) ==
  /\ r.op = "flows" /\ Ends(r, ok)
  /\ IF r.handler = "mount"
     THEN /\ page' = [page EXCEPT !.flows = IF ok THEN r.flows ELSE {},
                                  !.loadingFlows = FALSE]
          /\ wire' = Settled(r)
     ELSE IF ok THEN /\ page' = [page EXCEPT !.flows = r.flows]
                     /\ wire' = BagAdd(Settled(r), Query("refresh"))
                ELSE /\ page' = [page EXCEPT !.flowSaving = FALSE]
                     /\ wire' = Settled(r)
  /\ UNCHANGED <<route, server>>

Refreshed(r) ==
  /\ r.op = "refresh"
  /\ page' = [page EXCEPT !.flowDialog = FALSE, !.flowSaving = FALSE]
  /\ wire' = Settled(r)
  /\ UNCHANGED <<route, server>>

StepsLoaded(r, ok) ==
  /\ r.op = "steps" /\ Ends(r, ok)
  /\ page' = [page EXCEPT !.steps[r.flow] = IF ok THEN r.steps ELSE <<>>]
  /\ wire' = Settled(r)
  /\ UNCHANGED <<route, server>>

\* handleCreateStep, then onClose of the dialog, whose flow need not be the one
\* shown any more.
StepCreated(r, ok) ==
  /\ r.op = "createStep" /\ Ends(r, ok)
  /\ IF ok
     THEN LET shown == IF page.steps[r.flow] = Nil THEN <<>> ELSE page.steps[r.flow]
          IN /\ page' = [page EXCEPT !.steps[r.flow] = Append(shown, r.step),
                                     !.expanded = @ \cup {r.flow},
                                     !.stepFlow = Nil, !.stepSaving = FALSE]
             /\ wire' = Detached(Settled(r), StepChain)
     ELSE /\ page' = [page EXCEPT !.stepSaving = @ /\ ~r.live]
          /\ wire' = Settled(r)
  /\ UNCHANGED <<route, server>>

\* server maps the flows of the run to their steps, oldest first.
AllSteps == UNION {Range(server[f]) : f \in DOMAIN server}
ServeDetail(r) ==
  /\ r.stage = "sent"
  /\ \/ r.op = "flows" /\ Reply(r, AnsweredWith(r, [flows |-> DOMAIN server])) /\ UNCHANGED server
     \/ r.op = "steps" /\ Reply(r, AnsweredWith(r, [steps |-> server[r.flow]])) /\ UNCHANGED server
     \/ r.op = "refresh" /\ Reply(r, Answered(r)) /\ UNCHANGED server
     \/ /\ r.op = "createFlow"
        /\ \E f \in Flows \ DOMAIN server : server' = With(server, f, <<>>)
        /\ Reply(r, Answered(r))
     \/ /\ r.op = "createStep"
        /\ \E s \in Steps \ AllSteps :
              /\ server' = [server EXCEPT ![r.flow] = Append(@, s)]
              /\ Reply(r, AnsweredWith(r, [step |-> s]))
  /\ UNCHANGED <<route, page>>

DetailNext ==
  \/ AddFlow \/ CloseFlowForm \/ CloseStepForm \/ SubmitFlow \/ SubmitStep
  \/ \E f \in Flows : ToggleFlow(f) \/ AddStep(f)
  \/ \E r \in Open : \/ ServeDetail(r) \/ Refreshed(r)
                     \/ \E ok \in BOOLEAN : \/ FlowCreated(r, ok) \/ FlowsLoaded(r, ok)
                                            \/ StepsLoaded(r, ok) \/ StepCreated(r, ok)

-----------------------------------------------------------------------------
FlowChain == {r \in Open : r.op \in {"createFlow", "refresh"} \/ (r.op = "flows" /\ r.handler = "create")}

\* The spinner and the disabled forms never wait for nothing.
DetailBusyMeansWaiting ==
  /\ page.loadingFlows => \E r \in Pending("flows") : r.handler = "mount"
  /\ page.flowSaving => FlowChain # {}
  /\ page.stepSaving => StepChain # {}

\* Neither dialog sends a second creation while its first is under way.
DetailNoDoubleSubmit ==
  OneAtMost(FlowChain) /\ OneAtMost(StepChain)

\* What the detail lists as steps of a flow are steps of that flow.
StepsShownExist ==
  route = "run" =>
    \A f \in DOMAIN server :
       page.steps[f] # Nil => Range(page.steps[f]) \subseteq Range(server[f])
=============================================================================
