-------------------------- MODULE ExecutionLedger --------------------------
(***************************************************************************)
(* The Authoritative Execution Ledger (backend/go/internal/ael): the       *)
(* PostgreSQL tables runs, flows and steps (with the side_effects of each  *)
(* step) and the transactions that change them.  One action is one         *)
(* database transaction, or one compare-and-swap UPDATE, of                *)
(* Repository / Service.  LedgerSpec lets any caller issue any transaction *)
(* at any time: what holds here holds whatever the scheduler and the HTTP  *)
(* handlers do.                                                            *)
(***************************************************************************)
EXTENDS Naturals, FiniteSets

CONSTANTS
    Runs, Flows, Steps,     \* row identifiers; a row is "absent" until inserted
    RunOf,                  \* flows.run_id, fixed when the flow is added
    Arms, NoArm,            \* (agent_type, provider) pairs; NoArm is provider = ''
    NoStep,                 \* retry_of IS NULL
    Seqs,                   \* side_effects.seq
    TokenBudget,            \* runs.token_budget; 0 is the unbounded sentinel
    Estimates,              \* token estimates a scheduler debits in T1
    Tokens, Costs           \* tokens and cost an executor reports in T2

ASSUME RowsAssumption ==
    /\ RunOf \in [Flows -> Runs]
    /\ NoArm \notin Arms
    /\ NoStep \notin Steps
ASSUME AmountAssumption ==
    /\ TokenBudget \in [Runs -> Nat]
    /\ Estimates \subseteq Nat
    /\ Tokens \subseteq Nat
    /\ Costs \subseteq Nat

VARIABLES
    runs,       \* [Runs  -> row of runs]
    flows,      \* [Flows -> flows.state]; its version column is a function of the state
    steps       \* [Steps -> row of steps and the seq of its side_effects]

ledgerVars == <<runs, flows, steps>>

-----------------------------------------------------------------------------
(* The three state machines of fsm.go.                                     *)

RunMoves == [pending   |-> {"running", "cancelled"},
             running   |-> {"succeeded", "failed", "cancelled"},
             succeeded |-> {}, failed |-> {}, cancelled |-> {}]

FlowMoves == [pending   |-> {"assigned", "cancelled"},
              assigned  |-> {"running", "pending", "cancelled"},
              running   |-> {"succeeded", "failed", "cancelled"},
              succeeded |-> {}, failed |-> {}, cancelled |-> {}]

StepMoves == [pending   |-> {"leased", "cancelled"},
              leased    |-> {"running", "pending", "expired"},
              running   |-> {"succeeded", "failed", "pending", "cancelled", "expired"},
              succeeded |-> {}, failed |-> {}, cancelled |-> {}, expired |-> {}]

(* Validate*Transition: a move to the same state is always allowed.        *)
ValidRunMove(from, to)  == from = to \/ to \in RunMoves[from]
ValidFlowMove(from, to) == from = to \/ to \in FlowMoves[from]
ValidStepMove(from, to) == from = to \/ to \in StepMoves[from]

TerminalRun  == {"succeeded", "failed", "cancelled"}
TerminalFlow == {"succeeded", "failed", "cancelled"}
TerminalStep == {"succeeded", "failed", "cancelled", "expired"}

RunRow == [state : DOMAIN RunMoves, version : Nat, used : Nat, cost : Nat]

(* mirror stands for lease_expires_at: NULL, ahead of the clock or passed. *)
StepRow == [state : DOMAIN StepMoves,
            flow : Flows, run : Runs, arm : Arms \union {NoArm},
            retryOf : Steps \union {NoStep}, retries : Nat,
            mirror : {"none", "live", "lapsed"},
            tokens : Nat, cost : Nat, effects : SUBSET Seqs]

NoRow == [state |-> "absent"]

PendingRun == [state |-> "pending", version |-> 0, used |-> 0, cost |-> 0]

PendingStep(f, r, arm, parent, retries) ==
    [state |-> "pending", flow |-> f, run |-> r, arm |-> arm,
     retryOf |-> parent, retries |-> retries, mirror |-> "none",
     tokens |-> 0, cost |-> 0, effects |-> {}]

LedgerTypeOK ==
    /\ runs  \in [Runs -> RunRow \union {NoRow}]
    /\ flows \in [Flows -> DOMAIN FlowMoves \union {"absent"}]
    /\ steps \in [Steps -> StepRow \union {NoRow}]

OpenRuns  == {r \in Runs  : runs[r].state # "absent"}
OpenFlows == {f \in Flows : flows[f] # "absent"}
OpenSteps == {s \in Steps : steps[s].state # "absent"}

-----------------------------------------------------------------------------
(* Inserting rows.                                                         *)

OpenRun(r) ==
    /\ r \notin OpenRuns
    /\ runs' = [runs EXCEPT ![r] = PendingRun]
    /\ UNCHANGED <<flows, steps>>

AddFlow(f) ==
    /\ f \notin OpenFlows
    /\ RunOf[f] \in OpenRuns
    /\ flows' = [flows EXCEPT ![f] = "pending"]
    /\ UNCHANGED <<runs, steps>>

(* steps.run_id comes from the request and is not checked against the flow *)
(* (nor is the state of either parent); run ids of no row are left out.    *)
AddStep(s, f, r, arm) ==
    /\ s \notin OpenSteps
    /\ f \in OpenFlows
    /\ r \in OpenRuns
    /\ steps' = [steps EXCEPT ![s] = PendingStep(f, r, arm, NoStep, 0)]
    /\ UNCHANGED <<runs, flows>>

(* Mutant: the retry inherits retry_count instead of incrementing it.      *)
InsertRetryUncounted(parent, arm, s) ==
    /\ parent \in OpenSteps
    /\ s \notin OpenSteps
    /\ steps' = [steps EXCEPT ![s] =
                    PendingStep(steps[parent].flow, steps[parent].run, arm,
                                parent, steps[parent].retries)]
    /\ UNCHANGED <<runs, flows>>

(* parent is the caller's in-memory copy: nothing reads its current state. *)
InsertRetryStep(parent, arm, s) ==
    /\ parent \in OpenSteps
    /\ s \notin OpenSteps
    /\ steps' = [steps EXCEPT ![s] =
                    PendingStep(steps[parent].flow, steps[parent].run, arm,
                                parent, steps[parent].retries + 1)]
    /\ UNCHANGED <<runs, flows>>

-----------------------------------------------------------------------------
(* Runs and flows move by compare-and-swap on their version.               *)

UpdateRunState(r, to) ==
    /\ r \in OpenRuns
    /\ ValidRunMove(runs[r].state, to)
    /\ runs' = [runs EXCEPT ![r].state = to, ![r].version = @ + 1]
    /\ UNCHANGED <<flows, steps>>

UpdateFlowState(f, to) ==
    /\ f \in OpenFlows
    /\ ValidFlowMove(flows[f], to)
    /\ flows' = [flows EXCEPT ![f] = to]
    /\ UNCHANGED <<runs, steps>>

-----------------------------------------------------------------------------
(* Steps.                                                                  *)

UpdateStepArm(s, arm) ==
    /\ steps[s].state = "pending"
    /\ steps' = [steps EXCEPT ![s].arm = arm]
    /\ UNCHANGED <<runs, flows>>

(* T1: the lease mirror and the debit of the estimate, one transaction.    *)
CanLease(s) == s \in OpenSteps /\ ValidStepMove(steps[s].state, "leased")

Affords(r, estimate) ==
    \/ estimate = 0
    \/ TokenBudget[r] = 0
    \/ runs[r].used + estimate <= TokenBudget[r]

(* Mutant: T1 leaves lease_expires_at NULL.                                *)
T1WithoutMirror(s, estimate) ==
    LET r == steps[s].run
    IN  /\ CanLease(s)
        /\ Affords(r, estimate)
        /\ runs' = [runs EXCEPT ![r].used = @ + estimate]
        /\ steps' = [steps EXCEPT ![s].state = "leased"]
        /\ UNCHANGED flows

T1LeaseMirror(s, estimate) ==
    LET r == steps[s].run
    IN  /\ CanLease(s)
        /\ Affords(r, estimate)
        /\ runs' = [runs EXCEPT ![r].used = @ + estimate]
        /\ steps' = [steps EXCEPT ![s].state = "leased", ![s].mirror = "live"]
        /\ UNCHANGED flows

CanRun(s) == s \in OpenSteps /\ ValidStepMove(steps[s].state, "running")

MarkStepRunning(s) ==
    /\ CanRun(s)
    /\ steps' = [steps EXCEPT ![s].state = "running"]
    /\ UNCHANGED <<runs, flows>>

(* T2 subtracts steps.tokens_used from the run before adding the reported  *)
(* tokens, but reads the column after having written it in the same        *)
(* transaction: the subtrahend is the reported number itself.              *)
Reconciled(used, reported) ==
    (IF used > reported THEN used - reported ELSE 0) + reported

(* Mutant: the table without chk_runs_budget.                              *)
WithinBudgetUnchecked(r, used) == TRUE

(* chk_runs_budget aborts a T2 that would leave the run over its budget.   *)
WithinBudget(r, used) == TokenBudget[r] = 0 \/ used <= TokenBudget[r]

CanComplete(s, final, tokens) ==
    /\ s \in OpenSteps
    /\ ValidStepMove(steps[s].state, final)
    /\ WithinBudget(steps[s].run, Reconciled(runs[steps[s].run].used, tokens))

T2StepComplete(s, final, tokens, cost, effects) ==
    LET r == steps[s].run
    IN  /\ CanComplete(s, final, tokens)
        /\ steps' = [steps EXCEPT ![s].state = final, ![s].tokens = tokens,
                                  ![s].cost = cost,
                                  ![s].effects = @ \union effects]
        /\ runs' = [runs EXCEPT ![r].cost = @ + cost,
                                ![r].used = Reconciled(@, tokens)]
        /\ UNCHANGED flows

(* T3 writes the new expiry of a leased or running row; no row is an OK.   *)
T3LeaseRenewal(s) ==
    /\ steps' = IF steps[s].state \in {"leased", "running"}
                THEN [steps EXCEPT ![s].mirror = "live"] ELSE steps
    /\ UNCHANGED <<runs, flows>>

(* The clock passes lease_expires_at (of a row T4 would look at).          *)
MirrorLapses(s) ==
    /\ steps[s].state \in {"leased", "running"}
    /\ steps[s].mirror = "live"
    /\ steps' = [steps EXCEPT ![s].mirror = "lapsed"]
    /\ UNCHANGED <<runs, flows>>

(* Mutant: the scanner's UPDATE without its condition on the state.        *)
ExpiredByClockAlone == {s \in OpenSteps : steps[s].mirror = "lapsed"}

(* Mutant: the scanner forgets the steps that were being executed.         *)
ExpiredLeasedOnly == {s \in OpenSteps : steps[s].state = "leased" /\ steps[s].mirror = "lapsed"}

Expired == {s \in Steps : /\ steps[s].state \in {"leased", "running"}
                          /\ steps[s].mirror = "lapsed"}

(* T4 returns every expired row to the pool in one UPDATE.                 *)
BackToPool(row) == [row EXCEPT !.state = "pending", !.mirror = "none"]

T4ExpiryBackupScanner ==
    /\ steps' = [s \in Steps |-> IF s \in Expired THEN BackToPool(steps[s]) ELSE steps[s]]
    /\ UNCHANGED <<runs, flows>>

(* Mutant: CancelStep without its transition check.                        *)
CanCancelAnything(s) == s \in OpenSteps

(* CancelStep re-reads the row, so it may find it running: that is legal.  *)
CanCancel(s) == s \in OpenSteps /\ ValidStepMove(steps[s].state, "cancelled")

CancelStep(s) ==
    /\ CanCancel(s)
    /\ steps' = [steps EXCEPT ![s].state = "cancelled"]
    /\ UNCHANGED <<runs, flows>>

-----------------------------------------------------------------------------
(* What the finalizers read.  Only the leaves of the retry chains count.   *)

Superseded(s) == \E c \in OpenSteps : steps[c].retryOf = s

Leaves(f) == {s \in OpenSteps : steps[s].flow = f /\ ~Superseded(s)}

LeafStates(f) == {steps[s].state : s \in Leaves(f)}

FlowStates(r) == {flows[f] : f \in {x \in OpenFlows : RunOf[x] = r}}

AllTerminal(states) == states # {} /\ states \subseteq TerminalStep

(* The verdict of a parent: failed over cancelled over succeeded.          *)
Verdict(states) ==
    IF states \intersect {"failed", "expired"} # {} THEN "failed"
    ELSE IF "cancelled" \in states THEN "cancelled" ELSE "succeeded"

-----------------------------------------------------------------------------
FreshSteps == {PendingStep(f, r, arm, NoStep, 0) :
                  f \in OpenFlows, r \in OpenRuns, arm \in Arms \union {NoArm}}

(* The tables start with any rows a client may already have inserted.      *)
LedgerInit ==
    /\ runs \in [Runs -> {NoRow, PendingRun}]
    /\ flows \in [Flows -> {"absent", "pending"}]
    /\ \A f \in OpenFlows : RunOf[f] \in OpenRuns
    /\ steps \in [Steps -> FreshSteps \union {NoRow}]

Client ==
    \/ \E r \in Runs : OpenRun(r)
    \/ \E f \in Flows : AddFlow(f)
    \/ \E s \in Steps, f \in Flows, r \in Runs, arm \in Arms \union {NoArm} :
           AddStep(s, f, r, arm)
    \/ \E r \in Runs, to \in DOMAIN RunMoves : UpdateRunState(r, to)

Scheduler ==
    \/ \E f \in Flows, to \in DOMAIN FlowMoves : UpdateFlowState(f, to)
    \/ \E s \in Steps, arm \in Arms : UpdateStepArm(s, arm)
    \/ \E s \in Steps, e \in Estimates : T1LeaseMirror(s, e)
    \/ \E s \in Steps : MarkStepRunning(s)
    \/ \E s \in Steps, final \in {"succeeded", "failed"},
          t \in Tokens, c \in Costs, effects \in SUBSET Seqs :
           T2StepComplete(s, final, t, c, effects)
    \/ \E s \in Steps : T3LeaseRenewal(s)
    \/ T4ExpiryBackupScanner
    \/ \E s \in Steps : CancelStep(s)
    \/ \E p, s \in Steps, arm \in Arms \union {NoArm} : InsertRetryStep(p, arm, s)

Clock == \E s \in Steps : MirrorLapses(s)

LedgerNext == Client \/ Scheduler \/ Clock

LedgerSpec == LedgerInit /\ [][LedgerNext]_ledgerVars

-----------------------------------------------------------------------------
(* Properties, whatever the callers do.                                    *)

TerminalKept ==
    /\ \A r \in Runs : runs[r].state \in TerminalRun => runs'[r].state = runs[r].state
    /\ \A f \in Flows : flows[f] \in TerminalFlow => flows'[f] = flows[f]
    /\ \A s \in Steps : steps[s].state \in TerminalStep => steps'[s].state = steps[s].state

(* Lemma 5.1 of fsm.go over a whole history: a run, a flow or a step that  *)
(* has reached a terminal state keeps that state, through every            *)
(* transaction of every caller, the bulk UPDATE of T4 included.            *)
TerminalAbsorbing == [][TerminalKept]_ledgerVars

(* T2's promise (tx.go): an effect, a token count or a cost is on record   *)
(* only for a step whose outcome is on record too, so no step that can be  *)
(* executed again has committed effects.                                   *)
EffectsNeedOutcome ==
    \A s \in OpenSteps : (steps[s].effects # {} \/ steps[s].cost > 0 \/ steps[s].tokens > 0)
                         => steps[s].state \in {"succeeded", "failed"}

(* The debits of T1 and the reconciliation of T2 together never take a run *)
(* past a non-zero budget.                                                 *)
BudgetRespected ==
    \A r \in OpenRuns : TokenBudget[r] # 0 => runs[r].used <= TokenBudget[r]

(* A step that holds the pool's attention (leased or running) carries an   *)
(* expiry, so the T4 scanner can always take it back: no order of          *)
(* transactions strands a step where no scheduler would find it.           *)
RecoverableByT4 ==
    \A s \in OpenSteps : steps[s].state \in {"leased", "running"} => steps[s].mirror # "none"

(* A retry chain stays in its flow and run and counts its links: following *)
(* retry_of ends at a step that is nobody's retry, so every chain has a    *)
(* leaf for CountStepsByFlow to count.                                     *)
ChainsWellFounded ==
    \A s \in OpenSteps : steps[s].retryOf # NoStep =>
        LET p == steps[steps[s].retryOf]
        IN  /\ steps[s].retryOf \in OpenSteps
            /\ p.retries + 1 = steps[s].retries
            /\ p.flow = steps[s].flow /\ p.run = steps[s].run
=============================================================================
