--------------------------- MODULE FlowScheduler ---------------------------
(***************************************************************************)
(* The dispatch loop (backend/go/internal/flowscheduler) of a fleet of     *)
(* schedulers over one ledger and one lease service (internal/stepLease).  *)
(* Every call that leaves the process is one action, so the calls of two   *)
(* schedulers, of their keepalive goroutines, of an operator and of a      *)
(* submitting client interleave between any two lines of dispatchStep.     *)
(*                                                                         *)
(* pc[n] names the call scheduler n makes next:                            *)
(*   idle -> arm -> lease -> ensureRun -> assignFlow -> runFlow -> mark    *)
(*   -> exec -> commit -> release -> retry / countSteps -> readFlow        *)
(*   -> casFlow -> countFlows -> readRun -> casRun -> finish -> idle       *)
(* with unroutable, overBudget and recordFailure on the failing paths.     *)
(***************************************************************************)
EXTENDS ExecutionLedger, Sequences, FiniteSetsExt

CONSTANTS
    Schedulers,
    Free, Orphan,       \* a lease nobody holds; one that nobody renews or releases any more
    Planned,            \* the rows clients submit: step -> [flow, arm]
    Late,               \* those that are submitted while schedulers run
    BatchSize,          \* Config.BatchSize
    MaxRetries,         \* DefaultRetryPolicy.MaxRetries; 0 is no policy
    HasSelector,        \* Config.Selector # nil
    Refusals,           \* the pool may lose an instance between two calls
    LeaseLoss,          \* a lease may end under a holder that is still alive
    MirrorLoss,         \* T3 may come too late for the mirror, or fail
    OperatorMoves,      \* run states an operator asks for over HTTP
    MaxVersion,         \* the version of a run at which operators stop asking
    MaxFaults,          \* ledger calls that fail or lose their answer
    MaxCrashes          \* processes that die and restart

ASSUME SchedulerAssumption ==
    /\ Steps \subseteq Nat \ {0}
    /\ {Free, Orphan} \intersect Schedulers = {} /\ Free # Orphan
    /\ DOMAIN Planned \subseteq Steps /\ Late \subseteq DOMAIN Planned
    /\ \A s \in DOMAIN Planned : Planned[s] \in [flow : Flows, arm : Arms \union {NoArm}]
    /\ BatchSize \in Nat \ {0}
    /\ {MaxRetries, MaxVersion, MaxFaults, MaxCrashes} \subseteq Nat
    /\ {HasSelector, Refusals, LeaseLoss, MirrorLoss} \subseteq BOOLEAN
    /\ OperatorMoves \subseteq DOMAIN RunMoves
    /\ 0 \in Tokens /\ 0 \in Costs       \* completeFailed reports nothing

VARIABLES
    lease,      \* [Steps -> holder], the keys of etcd or of MemoryLease
    pc,         \* [Schedulers -> the next call]
    todo,       \* [Schedulers -> rows of the tick not dispatched yet, as they were read]
    job,        \* [Schedulers -> the row being dispatched, as it was read]
    result,     \* [Schedulers -> what the executor returned]
    view,       \* [Schedulers -> what the finalizer has read so far]
    pulse,      \* [Schedulers -> the keepalive goroutine]
    faults, crashes

local == <<todo, job, result, view, pulse>>
vars == <<runs, flows, steps, lease, pc, todo, job, result, view, pulse, faults, crashes>>

NoJob  == [step |-> NoStep, arm |-> NoArm]
NoView == [verdict |-> "none", flow |-> "none", version |-> 0]

Results == {"none", "succeeded", "failed", "permanent", "error", "fatal", "refused"}
Stages == {"idle", "arm", "unroutable", "lease", "overBudget", "ensureRun", "assignFlow",
           "runFlow", "mark", "exec", "commit", "recordFailure", "release", "retry",
           "countSteps", "readFlow", "casFlow", "countFlows", "readRun", "casRun", "finish"}

FleetTypeOK ==
    /\ lease \in [Steps -> Schedulers \union {Free, Orphan}]
    /\ pc \in [Schedulers -> Stages]
    /\ todo \in [Schedulers -> SUBSET [step : Steps, arm : Arms \union {NoArm}]]
    /\ job \in [Schedulers -> [step : Steps \union {NoStep}, arm : Arms \union {NoArm}]]
    /\ result \in [Schedulers -> Results]
    /\ view \in [Schedulers -> [verdict : TerminalFlow \union {"none"},
                                flow : DOMAIN FlowMoves \union {"none"}, version : Nat]]
    /\ pulse \in [Schedulers -> {"off", "beat", "renew"}]
    /\ faults \in 0..MaxFaults /\ crashes \in 0..MaxCrashes

TypeOK == LedgerTypeOK /\ FleetTypeOK

-----------------------------------------------------------------------------
(* Shorthands.                                                             *)

Step(n) == job[n].step
FlowOf(n) == steps[Step(n)].flow
RunIdOf(n) == steps[Step(n)].run

Goto(n, stage) == pc' = [pc EXCEPT ![n] = stage]

UnchangedLedger == UNCHANGED <<runs, flows, steps>>

(* A call of the ledger fails without effect; NoFault is every other call. *)
Fault == faults < MaxFaults /\ faults' = faults + 1 /\ UnchangedLedger
NoFault == UNCHANGED faults

(* Mutant: the key is overwritten with a null instead of deleted.          *)
UnlockedByNulling(n) == [lease EXCEPT ![Step(n)] = NoStep]

(* What a release by n leaves: the key is gone, or, if the revoke fails,   *)
(* it stays until its TTL runs out (the caller drops the error).           *)
UnlockedBy(n) ==
    [lease EXCEPT ![Step(n)] = IF @ = n THEN Free ELSE @]

AbandonedBy(n) ==
    [lease EXCEPT ![Step(n)] = IF @ = n THEN Orphan ELSE @]

Unused == {s \in Steps \ DOMAIN Planned : s \notin OpenSteps}

Pending == {s \in OpenSteps : steps[s].state = "pending"}

-----------------------------------------------------------------------------
(* The tick: ListPendingSteps reads the oldest BatchSize pending rows; the *)
(* rows are then dispatched one after the other, however stale.            *)
Tick(n) ==
    /\ pc[n] = "idle" /\ todo[n] = {}
    /\ Pending # {}
    /\ todo' = [todo EXCEPT ![n] =
          {[step |-> s, arm |-> steps[s].arm] :
              s \in {x \in Pending : Cardinality({y \in Pending : y < x}) < BatchSize}}]
    /\ UNCHANGED <<runs, flows, steps, lease, pc, job, result, view, pulse, faults, crashes>>

(* Mutant: the lease key is put without comparing its version.             *)
AcquireBlindly(n) ==
    /\ pc[n] = "idle"
    /\ \E j \in todo[n] :
        /\ \A k \in todo[n] : j.step <= k.step
        /\ todo' = [todo EXCEPT ![n] = @ \ {j}]
        /\ lease' = [lease EXCEPT ![j.step] = n]
        /\ job' = [job EXCEPT ![n] = j]
        /\ Goto(n, IF j.arm = NoArm THEN "arm" ELSE "lease")
    /\ UNCHANGED <<runs, flows, steps, result, view, pulse, faults, crashes>>

(* 1. Acquire: a compare-and-swap on the key; ErrAlreadyHeld skips the row,*)
(* and so does a failure, after which the key may be there all the same:   *)
(* the answer was lost, and the revoke that follows it failed as well.     *)
Acquire(n) ==
    /\ pc[n] = "idle"
    /\ \E j \in todo[n] :
        /\ \A k \in todo[n] : j.step <= k.step
        /\ todo' = [todo EXCEPT ![n] = @ \ {j}]
        /\ \/ /\ lease[j.step] = Free
              /\ lease' = [lease EXCEPT ![j.step] = n]
              /\ job' = [job EXCEPT ![n] = j]
              /\ Goto(n, IF j.arm = NoArm THEN "arm" ELSE "lease")
              /\ NoFault
           \/ /\ lease[j.step] # Free
              /\ UNCHANGED <<lease, job, pc>> /\ NoFault
           \/ /\ Fault /\ UNCHANGED <<job, pc>>
              /\ \/ UNCHANGED lease
                 \/ lease[j.step] = Free /\ lease' = [lease EXCEPT ![j.step] = Orphan]
    /\ UNCHANGED <<runs, flows, steps, result, view, pulse, crashes>>

(* 1a. selectArmIfNeeded: no selector, or a Pick error, ends the step; a   *)
(* winner is written to the row, which must still be pending.              *)
SelectArm(n) ==
    /\ pc[n] = "arm"
    /\ \/ Goto(n, "unroutable") /\ NoFault /\ UnchangedLedger /\ UNCHANGED job
       \/ \E arm \in Arms :
            /\ HasSelector
            /\ job' = [job EXCEPT ![n].arm = arm]
            /\ \/ UpdateStepArm(Step(n), arm) /\ Goto(n, "lease") /\ NoFault
               \/ /\ Step(n) \notin Pending
                  /\ Goto(n, "finish") /\ NoFault /\ UnchangedLedger
               \/ Fault /\ Goto(n, "finish")
    /\ UNCHANGED <<lease, todo, result, view, pulse, crashes>>

(* failUnroutable and the budget path cancel the row, ignoring the error.  *)
(* Only the first of them goes on to propagateTerminal.                    *)
Cancel(n) ==
    /\ pc[n] \in {"unroutable", "overBudget"}
    /\ \/ CancelStep(Step(n)) /\ NoFault
       \/ ~CanCancel(Step(n)) /\ NoFault /\ UnchangedLedger
       \/ Fault
    /\ Goto(n, IF pc[n] = "unroutable" THEN "release" ELSE "finish")
    /\ UNCHANGED <<lease, local, crashes>>

(* 3. T1.                                                                  *)
LeaseMirror(n) ==
    /\ pc[n] = "lease"
    /\ \E e \in Estimates :
        \/ T1LeaseMirror(Step(n), e) /\ Goto(n, "ensureRun") /\ NoFault
        \/ /\ CanLease(Step(n)) /\ ~Affords(RunIdOf(n), e)
           /\ Goto(n, "overBudget") /\ NoFault /\ UnchangedLedger
        \/ ~CanLease(Step(n)) /\ Goto(n, "finish") /\ NoFault /\ UnchangedLedger
        \/ Fault /\ Goto(n, "finish")
    /\ UNCHANGED <<lease, local, crashes>>

(* 3a. EnsureRunRunning and the two moves of EnsureFlowRunning; losing the *)
(* race for a version counts as success, and an error is only logged.      *)
EnsureRunRunning(n) ==
    /\ pc[n] = "ensureRun"
    /\ \/ /\ runs[RunIdOf(n)].state = "pending"
          /\ UpdateRunState(RunIdOf(n), "running") /\ NoFault
       \/ runs[RunIdOf(n)].state # "pending" /\ UnchangedLedger /\ NoFault
       \/ Fault
    /\ Goto(n, "assignFlow")
    /\ UNCHANGED <<lease, local, crashes>>

AssignFlow(n) ==
    /\ pc[n] = "assignFlow"
    /\ \/ /\ flows[FlowOf(n)] = "pending"
          /\ UpdateFlowState(FlowOf(n), "assigned") /\ Goto(n, "runFlow") /\ NoFault
       \/ /\ flows[FlowOf(n)] # "pending"
          /\ Goto(n, "runFlow") /\ UnchangedLedger /\ NoFault
       \/ Fault /\ Goto(n, "mark")
    /\ UNCHANGED <<lease, local, crashes>>

RunFlow(n) ==
    /\ pc[n] = "runFlow"
    /\ \/ /\ flows[FlowOf(n)] = "assigned"
          /\ UpdateFlowState(FlowOf(n), "running") /\ NoFault
       \/ flows[FlowOf(n)] # "assigned" /\ UnchangedLedger /\ NoFault
       \/ Fault
    /\ Goto(n, "mark")
    /\ UNCHANGED <<lease, local, crashes>>

(* 4. MarkStepRunning, then AssignStep: the instance takes the step and    *)
(* the keepalive goroutine starts (4a), or its FSM refuses it because the  *)
(* instance was terminated through the API meanwhile.                      *)
MarkRunning(n) ==
    /\ pc[n] = "mark"
    /\ \/ /\ MarkStepRunning(Step(n)) /\ NoFault
          /\ \/ /\ Goto(n, "exec") /\ pulse' = [pulse EXCEPT ![n] = "beat"]
                /\ UNCHANGED result
             \/ /\ Refusals
                /\ Goto(n, "recordFailure") /\ result' = [result EXCEPT ![n] = "refused"]
                /\ UNCHANGED pulse
       \/ /\ (~CanRun(Step(n)) /\ NoFault /\ UnchangedLedger) \/ Fault
          /\ Goto(n, "finish") /\ UNCHANGED <<result, pulse>>
    /\ UNCHANGED <<lease, todo, job, view, crashes>>

(* Mutant: the lease is released as soon as the executor returns.          *)
ExecuteAndRelease(n) ==
    /\ pc[n] = "exec"
    /\ lease' = UnlockedBy(n)
    /\ \E res \in {"succeeded", "failed", "permanent", "error", "fatal"} :
        /\ result' = [result EXCEPT ![n] = res]
        /\ Goto(n, IF res \in {"error", "fatal"} THEN "recordFailure" ELSE "commit")
    /\ UNCHANGED <<runs, flows, steps, todo, job, view, pulse, faults, crashes>>

(* 5. The executor returns within ExecutionTimeout: a final state, or an   *)
(* error, each with a reason the retry policy finds permanent or not.      *)
Execute(n) ==
    /\ pc[n] = "exec"
    /\ \E res \in {"succeeded", "failed", "permanent", "error", "fatal"} :
        /\ result' = [result EXCEPT ![n] = res]
        /\ Goto(n, IF res \in {"error", "fatal"} THEN "recordFailure" ELSE "commit")
    /\ UNCHANGED <<runs, flows, steps, lease, todo, job, view, pulse, faults, crashes>>

(* Mutant: T2 is sent again after an answer that was lost.                 *)
CommitResultAgain(n) ==
    LET final == IF result[n] = "succeeded" THEN "succeeded" ELSE "failed"
    IN  /\ pc[n] = "commit"
        /\ \E t \in Tokens, c \in Costs, effects \in SUBSET Seqs :
            \/ T2StepComplete(Step(n), final, t, c, effects) /\ Goto(n, "release")
            \/ T2StepComplete(Step(n), final, t, c, effects) /\ UNCHANGED pc
            \/ ~CanComplete(Step(n), final, t) /\ Goto(n, "finish") /\ UnchangedLedger
        /\ NoFault
        /\ UNCHANGED <<lease, local, crashes>>

(* 6. T2 with what the executor reported.  Any error, also one that hides  *)
(* a commit, abandons the step.                                            *)
CommitResult(n) ==
    LET final == IF result[n] = "succeeded" THEN "succeeded" ELSE "failed"
    IN  /\ pc[n] = "commit"
        /\ \E t \in Tokens, c \in Costs, effects \in SUBSET Seqs :
            \/ T2StepComplete(Step(n), final, t, c, effects)
               /\ \/ Goto(n, "release") /\ NoFault
                  \/ /\ Goto(n, "finish")
                     /\ faults < MaxFaults /\ faults' = faults + 1
            \/ /\ ~CanComplete(Step(n), final, t)
               /\ Goto(n, "finish") /\ NoFault /\ UnchangedLedger
            \/ Fault /\ Goto(n, "finish")
        /\ UNCHANGED <<lease, local, crashes>>

(* Mutant: the policy is asked whatever the outcome.                       *)
WantsRetryAlways(n) == steps[Step(n)].retries < MaxRetries

WantsRetry(n) ==
    /\ result[n] \in {"failed", "error"}
    /\ steps[Step(n)].retries < MaxRetries

(* Mutant: only a success is propagated to the flow.                       *)
AfterOutcomeOfSuccess(n) ==
    IF WantsRetry(n) THEN "retry" ELSE IF result[n] = "succeeded" THEN "countSteps" ELSE "finish"

AfterOutcome(n) == IF WantsRetry(n) THEN "retry" ELSE "countSteps"

(* Mutant: the failure is written with a plain UPDATE, outside T2.         *)
RecordFailureUnchecked(n) ==
    /\ pc[n] = "recordFailure"
    /\ steps' = [steps EXCEPT ![Step(n)].state = "failed"]
    /\ UNCHANGED <<runs, flows>> /\ NoFault
    /\ Goto(n, IF result[n] = "refused" THEN "release" ELSE AfterOutcome(n))
    /\ UNCHANGED <<lease, local, crashes>>

(* completeFailed: T2 with nothing but a reason, and its error is dropped. *)
(* An error of the executor keeps the lease until the very end; a refusal  *)
(* by the instance releases it first.                                      *)
RecordFailure(n) ==
    /\ pc[n] = "recordFailure"
    /\ \/ T2StepComplete(Step(n), "failed", 0, 0, {}) /\ NoFault
       \/ ~CanComplete(Step(n), "failed", 0) /\ NoFault /\ UnchangedLedger
       \/ Fault
    /\ Goto(n, IF result[n] = "refused" THEN "release" ELSE AfterOutcome(n))
    /\ UNCHANGED <<lease, local, crashes>>

(* Release before the end of dispatchStep.  Where it fails, the lease is   *)
(* still renewed until dispatchStep returns.                               *)
Release(n) ==
    /\ pc[n] = "release"
    /\ \/ lease' = UnlockedBy(n) /\ NoFault /\ UnchangedLedger
       \/ Fault /\ UNCHANGED lease
    /\ Goto(n, AfterOutcome(n))
    /\ UNCHANGED <<local, crashes>>

(* 6b. enqueueRetryIfApproved: a new row for the step as it was read.      *)
Retry(n) ==
    /\ pc[n] = "retry"
    /\ \/ \E s \in Unused :
            /\ \A x \in Unused : s <= x
            /\ InsertRetryStep(Step(n), job[n].arm, s)
            /\ Goto(n, "finish") /\ NoFault
       \/ Unused = {} /\ Goto(n, "countSteps") /\ UnchangedLedger /\ NoFault
       \/ Fault /\ Goto(n, "countSteps")
    /\ UNCHANGED <<lease, local, crashes>>

-----------------------------------------------------------------------------
(* 7. propagateTerminal: TryFinalizeFlow counts the leaves, then reads the *)
(* flow, then swaps its state; TryFinalizeRun does the same over flows.    *)
ReadView(n, v, stage) ==
    /\ view' = [view EXCEPT ![n] = v]
    /\ Goto(n, stage)
    /\ UnchangedLedger
    /\ UNCHANGED <<lease, todo, job, result, pulse, crashes>>

(* Mutant: a parent is finalized without waiting for all its children.     *)
CountEagerly(n, states, next) ==
    NoFault /\ ReadView(n, [view[n] EXCEPT !.verdict = Verdict(states)], next)

Count(n, states, next) ==
    \/ /\ AllTerminal(states) /\ NoFault
       /\ ReadView(n, [view[n] EXCEPT !.verdict = Verdict(states)], next)
    \/ ~AllTerminal(states) /\ NoFault /\ ReadView(n, NoView, "finish")
    \/ Fault /\ ReadView(n, NoView, "finish")

CountStepsByFlow(n) ==
    pc[n] = "countSteps" /\ Count(n, LeafStates(FlowOf(n)), "readFlow")

ReadFlow(n) ==
    LET state == flows[FlowOf(n)]
    IN  /\ pc[n] = "readFlow"
        /\ \/ /\ state \notin TerminalFlow /\ NoFault
              /\ ReadView(n, [view[n] EXCEPT !.flow = state], "casFlow")
           \/ state \in TerminalFlow /\ NoFault /\ ReadView(n, NoView, "finish")
           \/ Fault /\ ReadView(n, NoView, "finish")

CasFlow(n) ==
    LET f == FlowOf(n)
        wins == flows[f] = view[n].flow /\ ValidFlowMove(flows[f], view[n].verdict)
    IN  /\ pc[n] = "casFlow"
        /\ \/ /\ wins /\ UpdateFlowState(f, view[n].verdict)
              /\ Goto(n, "countFlows") /\ NoFault
           \/ ~wins /\ Goto(n, "finish") /\ NoFault /\ UnchangedLedger
           \/ Fault /\ Goto(n, "finish")
        /\ UNCHANGED <<lease, local, crashes>>

CountFlowsByRun(n) ==
    pc[n] = "countFlows" /\ Count(n, FlowStates(RunIdOf(n)), "readRun")

ReadRun(n) ==
    LET run == runs[RunIdOf(n)]
    IN  /\ pc[n] = "readRun"
        /\ \/ /\ run.state \notin TerminalRun /\ NoFault
              /\ ReadView(n, [view[n] EXCEPT !.version = run.version], "casRun")
           \/ run.state \in TerminalRun /\ NoFault /\ ReadView(n, NoView, "finish")
           \/ Fault /\ ReadView(n, NoView, "finish")

CasRun(n) ==
    LET r == RunIdOf(n)
        wins == /\ runs[r].version = view[n].version
                /\ ValidRunMove(runs[r].state, view[n].verdict)
    IN  /\ pc[n] = "casRun"
        /\ \/ wins /\ UpdateRunState(r, view[n].verdict) /\ NoFault
           \/ ~wins /\ NoFault /\ UnchangedLedger
           \/ Fault
        /\ Goto(n, "finish")
        /\ UNCHANGED <<lease, local, crashes>>

(* Mutant: dispatchStep returns without stopping the keepalive goroutine.  *)
FinishUnjoined(n) ==
    /\ pc[n] = "finish"
    /\ \/ lease' = UnlockedBy(n) /\ NoFault /\ UnchangedLedger
       \/ Fault /\ lease' = AbandonedBy(n)
    /\ Goto(n, "idle")
    /\ job' = [job EXCEPT ![n] = NoJob]
    /\ result' = [result EXCEPT ![n] = "none"]
    /\ view' = [view EXCEPT ![n] = NoView]
    /\ UNCHANGED <<todo, pulse, crashes>>

(* Every return of dispatchStep: the lease, if still held, is released,    *)
(* with or without success, and the keepalive goroutine is joined.         *)
Finish(n) ==
    /\ pc[n] = "finish"
    /\ \/ lease' = UnlockedBy(n) /\ NoFault /\ UnchangedLedger
       \/ Fault /\ lease' = AbandonedBy(n)
    /\ Goto(n, "idle")
    /\ job' = [job EXCEPT ![n] = NoJob]
    /\ result' = [result EXCEPT ![n] = "none"]
    /\ view' = [view EXCEPT ![n] = NoView]
    /\ pulse' = [pulse EXCEPT ![n] = "off"]
    /\ UNCHANGED <<todo, crashes>>

-----------------------------------------------------------------------------
(* The keepalive goroutine: Keepalive, then T3, until Keepalive fails.     *)
(* Losing the lease stops the goroutine and nothing else.                  *)
Keepalive(n) ==
    /\ pulse[n] = "beat"
    /\ pulse' = [pulse EXCEPT ![n] = IF lease[Step(n)] = n THEN "renew" ELSE "off"]
    /\ UNCHANGED <<runs, flows, steps, lease, pc, todo, job, result, view, faults, crashes>>

RenewMirror(n) ==
    /\ pulse[n] = "renew"
    /\ pulse' = [pulse EXCEPT ![n] = "beat"]
    /\ T3LeaseRenewal(Step(n)) \/ (MirrorLoss /\ UnchangedLedger)
    /\ UNCHANGED <<lease, pc, todo, job, result, view, faults, crashes>>

(* The T4 scanner shares the goroutine of the tick.                        *)
ExpiryScan(n) ==
    /\ pc[n] = "idle" /\ todo[n] = {}
    /\ Expired # {}
    /\ T4ExpiryBackupScanner
    /\ UNCHANGED <<lease, pc, local, faults, crashes>>

-----------------------------------------------------------------------------
(* The environment.                                                        *)

Submit(s) ==
    /\ AddStep(s, Planned[s].flow, RunOf[Planned[s].flow], Planned[s].arm)
    /\ UNCHANGED <<lease, pc, local, faults, crashes>>

TransitionRun(r, to) ==
    /\ UpdateRunState(r, to)
    /\ runs[r].version < MaxVersion
    /\ UNCHANGED <<lease, pc, local, faults, crashes>>

(* The TTL of a lease that nobody renews runs out: its holder is dead, or  *)
(* has failed to release it; that of a live one only if keepalives are     *)
(* late (LeaseLoss).                                                       *)
LeaseExpires(s) ==
    /\ lease[s] = Orphan \/ (LeaseLoss /\ lease[s] \in Schedulers)
    /\ lease' = [lease EXCEPT ![s] = Free]
    /\ UNCHANGED <<runs, flows, steps, pc, local, faults, crashes>>

(* The mirror runs out with the lease that wrote it, unless T3 is late.    *)
Backed(s) ==
    \E n \in Schedulers : /\ lease[s] = n
                          /\ pc[n] \notin {"arm", "unroutable", "lease", "overBudget"}

MirrorExpires(s) ==
    /\ MirrorLoss \/ ~Backed(s)
    /\ MirrorLapses(s)
    /\ UNCHANGED <<lease, pc, local, faults, crashes>>

Crash(n) ==
    /\ crashes < MaxCrashes
    /\ pc[n] # "idle" \/ todo[n] # {}
    /\ crashes' = crashes + 1
    /\ lease' = [s \in Steps |-> IF lease[s] = n THEN Orphan ELSE lease[s]]
    /\ pc' = [pc EXCEPT ![n] = "idle"]
    /\ todo' = [todo EXCEPT ![n] = {}]
    /\ job' = [job EXCEPT ![n] = NoJob]
    /\ result' = [result EXCEPT ![n] = "none"]
    /\ view' = [view EXCEPT ![n] = NoView]
    /\ pulse' = [pulse EXCEPT ![n] = "off"]
    /\ UNCHANGED <<runs, flows, steps, faults>>

-----------------------------------------------------------------------------
Init ==
    /\ runs = [r \in Runs |-> PendingRun]
    /\ flows = [f \in Flows |-> "pending"]
    /\ steps = [s \in Steps |->
          IF s \in DOMAIN Planned \ Late
          THEN PendingStep(Planned[s].flow, RunOf[Planned[s].flow], Planned[s].arm, NoStep, 0)
          ELSE NoRow]
    /\ lease = [s \in Steps |-> Free]
    /\ pc = [n \in Schedulers |-> "idle"]
    /\ todo = [n \in Schedulers |-> {}]
    /\ job = [n \in Schedulers |-> NoJob]
    /\ result = [n \in Schedulers |-> "none"]
    /\ view = [n \in Schedulers |-> NoView]
    /\ pulse = [n \in Schedulers |-> "off"]
    /\ faults = 0 /\ crashes = 0

Dispatch(n) ==
    \/ Tick(n) \/ Acquire(n) \/ SelectArm(n) \/ Cancel(n) \/ LeaseMirror(n)
    \/ EnsureRunRunning(n) \/ AssignFlow(n) \/ RunFlow(n) \/ MarkRunning(n)
    \/ Execute(n) \/ CommitResult(n) \/ RecordFailure(n) \/ Release(n) \/ Retry(n)
    \/ CountStepsByFlow(n) \/ ReadFlow(n) \/ CasFlow(n)
    \/ CountFlowsByRun(n) \/ ReadRun(n) \/ CasRun(n) \/ Finish(n)

Environment ==
    \/ \E s \in Late : Submit(s)
    \/ \E r \in Runs, to \in OperatorMoves : TransitionRun(r, to)
    \/ \E s \in Steps : LeaseExpires(s) \/ MirrorExpires(s)
    \/ \E n \in Schedulers : Crash(n)

Next ==
    \/ \E n \in Schedulers :
           Dispatch(n) \/ Keepalive(n) \/ RenewMirror(n) \/ ExpiryScan(n)
    \/ Environment

Spec == Init /\ [][Next]_vars

(* A scheduler that is not stuck in a call keeps calling; clocks advance.  *)
(* ExpiryScan competes with Tick in a Go select, which picks at random     *)
(* among the ready cases, so a scanner that is ready again and again runs. *)
(* Nothing is asked of clients, operators, crashes or faults.              *)
Fairness ==
    /\ \A n \in Schedulers : /\ WF_vars(Dispatch(n))
                             /\ SF_vars(ExpiryScan(n))
    /\ \A s \in Steps : /\ WF_vars(lease[s] = Orphan /\ LeaseExpires(s))
                        /\ WF_vars(~Backed(s) /\ MirrorExpires(s))

FairSpec == Spec /\ Fairness

-----------------------------------------------------------------------------
(* Properties.                                                             *)

Executing == {"exec", "commit", "recordFailure"}

(* No step stays locked by a scheduler that is done with it, although the  *)
(* errors of Release are dropped: whoever's lease is renewed is            *)
(* dispatching that very step, and no keepalive goroutine outlives the     *)
(* dispatch that started it, on any path; so a key that a crash, a failed  *)
(* revoke or a lost answer has left behind (an Orphan) can only run out.   *)
NoLeakedLease ==
    /\ \A s \in Steps : lease[s] \in Schedulers =>
           Step(lease[s]) = s /\ pc[lease[s]] # "idle"
    /\ \A n \in Schedulers : pulse[n] # "off" => pc[n] # "idle"

(* The lease is exclusive end to end: stale ticks, crashes and T4 never    *)
(* put two schedulers into the execution of one step.                      *)
OneExecutor ==
    \A m, n \in Schedulers :
        pc[m] \in Executing /\ pc[n] \in Executing /\ Step(m) = Step(n) => m = n

(* lease.go: who has lost the lease "must not commit T2".                  *)
CommitByHolder ==
    [][\A n \in Schedulers :
          pc[n] \in {"commit", "recordFailure"} /\ pc'[n] # pc[n] /\ steps' # steps
              => lease[Step(n)] = n]_vars

(* The ledger is an audit trail (ael/doc.go): once a step is terminal its  *)
(* row, with tokens, cost, effects and arm, is never written again.        *)
OutcomeFrozen ==
    [][\A s \in OpenSteps : steps[s].state \in TerminalStep => steps'[s] = steps[s]]_vars

Total(c, S) == MapThenSumSet(LAMBDA s : c[s], S)

(* A run is billed exactly what its steps cost, each of them once.         *)
BilledOnce ==
    LET cost == [s \in OpenSteps |-> steps[s].cost]
    IN  \A r \in OpenRuns :
            runs[r].cost = Total(cost, {s \in OpenSteps : steps[s].run = r})

(* InsertRetryStep: "the old row stays failed"; and it has one retry only, *)
(* so a chain of attempts is a line with a single leaf.                    *)
RetryOfFailed ==
    \A s \in OpenSteps : steps[s].retryOf # NoStep =>
        /\ steps[steps[s].retryOf].state = "failed"
        /\ \A t \in OpenSteps : steps[t].retryOf = steps[s].retryOf => t = s

(* What a verdict on a flow says of its leaves: other than failed, it is   *)
(* theirs; failed, one of the rows has failed and all that is left open    *)
(* are retries.                                                            *)
Founded(f, verdict) ==
    IF verdict # "failed"
    THEN AllTerminal(LeafStates(f)) /\ verdict = Verdict(LeafStates(f))
    ELSE /\ \E s \in OpenSteps : /\ steps[s].flow = f
                                 /\ steps[s].state \in {"failed", "expired"}
         /\ \A s \in Leaves(f) : \/ steps[s].state \in TerminalStep
                                 \/ steps[s].retryOf # NoStep

(* The T2 of a failure and the insert of its retry are two transactions    *)
(* (loop.go), with the finalizers of the siblings in between, which count, *)
(* read and swap in three calls: a flow that has succeeded or was          *)
(* cancelled keeps a verdict that all its leaves bear out, whatever is     *)
(* retried later; only a flow that has failed may find retries below it    *)
(* that came too late, and it has the failure on record.                   *)
FlowVerdictStands ==
    \A f \in OpenFlows : flows[f] \in TerminalFlow => Founded(f, flows[f])

(* The terminal state of a run is the verdict of its flows, all of them    *)
(* terminal, for good (while no operator moves the run).                   *)
RunVerdictStands ==
    \A r \in OpenRuns : runs[r].state \in TerminalRun =>
        AllTerminal(FlowStates(r)) /\ runs[r].state = Verdict(FlowStates(r))

(* No submitted step is lost: whatever crashes, it reaches an outcome.     *)
StepsSettle ==
    \A s \in Steps : s \in OpenSteps ~> steps[s].state \in TerminalStep

(* service.go: TryFinalizeFlow finalizes a flow "when every Step under it  *)
(* is terminal": a flow with a step ends in the end.                       *)
FlowsSettle ==
    \A f \in Flows :
        (\E s \in OpenSteps : steps[s].flow = f) ~> flows[f] \in TerminalFlow

(* A run whose flows all have steps ends: of the schedulers that end the   *)
(* last steps of a flow, and the last flows of the run, at the same time,  *)
(* one sees all the others' outcomes and finalizes the parent.             *)
RunsSettle ==
    \A r \in Runs : (\A f \in Flows : RunOf[f] = r => \E s \in OpenSteps : steps[s].flow = f)
                        ~> runs[r].state \in TerminalRun

(* loop.go: T2 uses the reported tokens "to reconcile the Run's            *)
(* tokens_used debit": once nothing of a run is open, what it has used is  *)
(* what its steps report, and no estimate of T1 is left on it.             *)
TokensReconciled ==
    \A r \in OpenRuns :
        LET rows == {s \in OpenSteps : steps[s].run = r}
        IN  (\A s \in rows : steps[s].state \in TerminalStep)
                => runs[r].used = MapThenSumSet(LAMBDA s : steps[s].tokens, rows)

-----------------------------------------------------------------------------
(* Refinement: the rows of a task, in the order of their retry_count, are  *)
(* its attempts; a row is open until it is terminal.                       *)

Root[s \in OpenSteps] ==
    IF steps[s].retryOf = NoStep THEN s ELSE Root[steps[s].retryOf]

Attempts(t) == {s \in OpenSteps : Root[s] = t}

AttemptStates(t) ==
    [k \in 1..Cardinality(Attempts(t)) |->
        LET row == CHOOSE s \in Attempts(t) : steps[s].retries = k - 1
        IN  IF steps[row].state \in TerminalStep THEN steps[row].state ELSE "open"]

Chain == INSTANCE AttemptChain
    WITH Tasks <- DOMAIN Planned, Prices <- Costs,
         attempts <- [t \in DOMAIN Planned |-> AttemptStates(t)],
         bill <- Total([r \in OpenRuns |-> runs[r].cost], OpenRuns)

(* The fleet, with its leases kept, implements one attempt at a time, each *)
(* settled and billed once (AttemptChain).                                 *)
ImplementsAttemptChain == Chain!ChainSpec
=============================================================================
