----------------------- MODULE ExecutionLedger_proof -----------------------
(***************************************************************************)
(* The ledger's guarantees for any number of runs, flows, steps, arms and  *)
(* amounts, whatever transactions its callers issue in whatever order.     *)
(***************************************************************************)
EXTENDS ExecutionLedger, TLAPS

USE RowsAssumption, AmountAssumption

(* The foreign keys of the tables: the parents of a step and of a flow are *)
(* rows.                                                                   *)
Linked ==
    /\ \A s \in OpenSteps : steps[s].run \in OpenRuns /\ steps[s].flow \in OpenFlows
    /\ \A f \in OpenFlows : RunOf[f] \in OpenRuns

Sound == LedgerTypeOK /\ Linked

(* What the state machines of fsm.go allow, spelt out once.                *)
LEMMA StateNames ==
    /\ DOMAIN RunMoves = {"pending", "running", "succeeded", "failed", "cancelled"}
    /\ DOMAIN FlowMoves = {"pending", "assigned", "running", "succeeded", "failed", "cancelled"}
    /\ DOMAIN StepMoves = {"pending", "leased", "running", "succeeded", "failed",
                           "cancelled", "expired"}
BY DEF RunMoves, FlowMoves, StepMoves

LEMMA OpenRows ==
    ASSUME LedgerTypeOK
    PROVE  /\ \A r \in OpenRuns : r \in Runs /\ runs[r] \in RunRow
           /\ \A s \in OpenSteps : s \in Steps /\ steps[s] \in StepRow
           /\ \A f \in OpenFlows : f \in Flows /\ flows[f] \in DOMAIN FlowMoves
BY StateNames DEF LedgerTypeOK, OpenRuns, OpenSteps, OpenFlows, RunRow, StepRow, NoRow

(* Parents stay rows when no row is removed and no step changes parents.   *)
LEMMA KeepsLinked ==
    ASSUME Linked, UNCHANGED flows,
           \A r \in OpenRuns : r \in OpenRuns',
           \A q \in OpenSteps' : /\ q \in OpenSteps /\ steps'[q].run = steps[q].run
                                 /\ steps'[q].flow = steps[q].flow
    PROVE  Linked'
BY DEF Linked, OpenFlows

(* Rows of the two tables stay rows when their columns are written.        *)
LEMMA RunColumns ==
    ASSUME NEW row \in RunRow, NEW to \in DOMAIN RunMoves,
           NEW v \in Nat, NEW u \in Nat, NEW c \in Nat
    PROVE  /\ [row EXCEPT !.state = to, !.version = v] \in RunRow
           /\ [row EXCEPT !.used = u] \in RunRow
           /\ [row EXCEPT !.cost = c, !.used = u] \in RunRow
BY DEF RunRow

LEMMA StepArm ==
    ASSUME NEW row \in StepRow, NEW arm \in Arms
    PROVE  [row EXCEPT !.arm = arm] \in StepRow
BY DEF StepRow

LEMMA StepState ==
    ASSUME NEW row \in StepRow, NEW to \in DOMAIN StepMoves
    PROVE  [row EXCEPT !.state = to] \in StepRow
BY DEF StepRow

LEMMA StepMirror ==
    ASSUME NEW row \in StepRow, NEW to \in DOMAIN StepMoves,
           NEW mirror \in {"none", "live", "lapsed"}
    PROVE  /\ [row EXCEPT !.mirror = mirror] \in StepRow
           /\ [row EXCEPT !.state = to, !.mirror = mirror] \in StepRow
BY DEF StepRow

LEMMA StepOutcome ==
    ASSUME NEW row \in StepRow, NEW to \in DOMAIN StepMoves,
           NEW t \in Nat, NEW c \in Nat, NEW e \in SUBSET Seqs
    PROVE  [row EXCEPT !.state = to, !.tokens = t, !.cost = c, !.effects = e] \in StepRow
BY DEF StepRow

LEMMA StepBackToPool ==
    ASSUME NEW row \in StepRow
    PROVE  /\ BackToPool(row) \in StepRow
           /\ BackToPool(row).state = "pending"
           /\ BackToPool(row).mirror = "none"
           /\ BackToPool(row).flow = row.flow /\ BackToPool(row).run = row.run
           /\ BackToPool(row).retryOf = row.retryOf /\ BackToPool(row).retries = row.retries
           /\ BackToPool(row).tokens = row.tokens /\ BackToPool(row).cost = row.cost
           /\ BackToPool(row).effects = row.effects
BY StateNames DEF BackToPool, StepRow

LEMMA InitSound == LedgerInit => Sound
<1> SUFFICES ASSUME LedgerInit PROVE Sound
    OBVIOUS
<1>1. PendingRun \in RunRow
    BY StateNames DEF PendingRun, RunRow
<1>2. FreshSteps \subseteq StepRow
    BY StateNames DEF FreshSteps, PendingStep, StepRow, OpenFlows, OpenRuns
<1>3. LedgerTypeOK
    BY <1>1, <1>2, StateNames DEF LedgerInit, LedgerTypeOK
<1>4. Linked
    BY <1>2 DEF LedgerInit, Linked, OpenSteps, FreshSteps, PendingStep, NoRow
<1> QED BY <1>3, <1>4 DEF Sound

LEMMA NextSound == Sound /\ [LedgerNext]_ledgerVars => Sound'
<1> SUFFICES ASSUME Sound, [LedgerNext]_ledgerVars PROVE Sound'
    OBVIOUS
<1> USE StateNames DEF Sound
<1>a. LedgerTypeOK /\ Linked
    OBVIOUS
<1>1. ASSUME NEW r \in Runs, OpenRun(r) PROVE Sound'
  <2>1. LedgerTypeOK'
    BY <1>1 DEF OpenRun, LedgerTypeOK, PendingRun, RunRow
  <2>2. Linked'
    BY <1>1 DEF OpenRun, Linked, LedgerTypeOK, OpenRuns, OpenFlows, OpenSteps, PendingRun
  <2> QED BY <2>1, <2>2
<1>2. ASSUME NEW f \in Flows, AddFlow(f) PROVE Sound'
    BY <1>2 DEF AddFlow, LedgerTypeOK, Linked, OpenRuns, OpenFlows, OpenSteps
<1>3. ASSUME NEW s \in Steps, NEW f \in Flows, NEW r \in Runs, NEW arm \in Arms \union {NoArm},
             AddStep(s, f, r, arm) PROVE Sound'
  <2>1. PendingStep(f, r, arm, NoStep, 0) \in StepRow
    BY DEF PendingStep, StepRow
  <2>2. LedgerTypeOK'
    BY <1>3, <2>1 DEF AddStep, LedgerTypeOK
  <2>3. Linked'
    BY <1>3 DEF AddStep, Linked, LedgerTypeOK, OpenRuns, OpenFlows, OpenSteps, PendingStep
  <2> QED BY <2>2, <2>3
<1>4. ASSUME NEW r \in Runs, NEW to \in DOMAIN RunMoves, UpdateRunState(r, to) PROVE Sound'
  <2>1. runs[r] \in RunRow
    BY <1>4, OpenRows DEF UpdateRunState
  <2>2. runs[r].version + 1 \in Nat
    BY <2>1 DEF RunRow
  <2>3. [runs[r] EXCEPT !.state = to, !.version = runs[r].version + 1] \in RunRow
    BY <2>1, <2>2, RunColumns DEF RunRow
  <2>4. LedgerTypeOK'
    BY <1>4, <2>3 DEF UpdateRunState, LedgerTypeOK
  <2>5. Linked'
    BY <1>4, <2>1 DEF UpdateRunState, Linked, LedgerTypeOK, OpenRuns, OpenFlows, OpenSteps, RunRow
  <2> QED BY <2>4, <2>5
<1>5. ASSUME NEW f \in Flows, NEW to \in DOMAIN FlowMoves, UpdateFlowState(f, to) PROVE Sound'
    BY <1>5 DEF UpdateFlowState, LedgerTypeOK, Linked, OpenRuns, OpenFlows, OpenSteps
<1>6. ASSUME NEW s \in Steps, NEW arm \in Arms, UpdateStepArm(s, arm) PROVE Sound'
  <2>1. steps[s] \in StepRow
    BY <1>6, OpenRows DEF UpdateStepArm, OpenSteps
  <2>2. LedgerTypeOK'
    BY <1>6, <2>1, StepArm DEF UpdateStepArm, LedgerTypeOK
  <2>3. Linked'
    BY <1>6, <2>1 DEF UpdateStepArm, Linked, LedgerTypeOK, OpenRuns, OpenFlows, OpenSteps, StepRow
  <2> QED BY <2>2, <2>3
<1>7. ASSUME NEW s \in Steps, NEW e \in Estimates, T1LeaseMirror(s, e) PROVE Sound'
  <2> DEFINE r == steps[s].run
  <2>1. s \in OpenSteps /\ steps[s] \in StepRow
    BY <1>7, OpenRows DEF T1LeaseMirror, CanLease
  <2>2. r \in OpenRuns /\ runs[r] \in RunRow
    BY <2>1, OpenRows DEF Linked
  <2>3. runs[r].used + e \in Nat
    BY <2>2 DEF RunRow
  <2>4. runs' = [runs EXCEPT ![r] = [runs[r] EXCEPT !.used = runs[r].used + e]]
    BY <1>7 DEF T1LeaseMirror
  <2>5. /\ [runs[r] EXCEPT !.used = runs[r].used + e] \in RunRow
        /\ [steps[s] EXCEPT !.state = "leased", !.mirror = "live"] \in StepRow
    BY <2>1, <2>2, <2>3, StepMirror DEF RunRow
  <2>6. LedgerTypeOK'
    <3>1. runs' \in [Runs -> RunRow \union {NoRow}]
        BY <2>2, <2>4, <2>5 DEF LedgerTypeOK, OpenRuns
    <3>2. steps' \in [Steps -> StepRow \union {NoRow}]
        BY <1>7, <2>5 DEF T1LeaseMirror, LedgerTypeOK
    <3> QED BY <1>7, <3>1, <3>2 DEF T1LeaseMirror, LedgerTypeOK
  <2>7. Linked'
    <3>1. \A q \in OpenRuns : q \in OpenRuns'
        BY <1>7, <2>2 DEF T1LeaseMirror, LedgerTypeOK, OpenRuns, RunRow
    <3>2. \A q \in OpenSteps' : /\ q \in OpenSteps /\ steps'[q].run = steps[q].run
                                /\ steps'[q].flow = steps[q].flow
        BY <1>7, <2>1 DEF T1LeaseMirror, LedgerTypeOK, OpenSteps, StepRow
    <3> QED BY <1>7, <3>1, <3>2, KeepsLinked DEF T1LeaseMirror
  <2> QED BY <2>6, <2>7
<1>8. ASSUME NEW s \in Steps, MarkStepRunning(s) \/ CancelStep(s) PROVE Sound'
  <2>1. s \in OpenSteps /\ steps[s] \in StepRow
    BY <1>8, OpenRows DEF MarkStepRunning, CanRun, CancelStep, CanCancel
  <2>2. /\ [steps[s] EXCEPT !.state = "running"] \in StepRow
        /\ [steps[s] EXCEPT !.state = "cancelled"] \in StepRow
    BY <2>1, StepState
  <2>3. LedgerTypeOK'
    BY <1>8, <2>2 DEF MarkStepRunning, CancelStep, LedgerTypeOK
  <2>4. Linked'
    BY <1>8, <2>1 DEF MarkStepRunning, CancelStep, Linked, LedgerTypeOK, OpenRuns, OpenFlows,
                      OpenSteps, StepRow
  <2> QED BY <2>3, <2>4
<1>9. ASSUME NEW s \in Steps, NEW final \in {"succeeded", "failed"},
             NEW t \in Tokens, NEW c \in Costs, NEW effects \in SUBSET Seqs,
             T2StepComplete(s, final, t, c, effects) PROVE Sound'
  <2> DEFINE r == steps[s].run
             used == Reconciled(runs[r].used, t)
  <2>1. s \in OpenSteps /\ steps[s] \in StepRow
    BY <1>9, OpenRows DEF T2StepComplete, CanComplete
  <2>2. r \in OpenRuns /\ runs[r] \in RunRow
    BY <2>1, OpenRows DEF Linked
  <2>3. used \in Nat /\ runs[r].cost + c \in Nat
    BY <2>2 DEF RunRow, Reconciled
  <2>4. steps[s].effects \union effects \in SUBSET Seqs
    BY <2>1 DEF StepRow
  <2>5. [runs[r] EXCEPT !.cost = runs[r].cost + c, !.used = used] \in RunRow
    BY <2>2, <2>3, RunColumns DEF RunRow
  <2>6. [steps[s] EXCEPT !.state = final, !.tokens = t, !.cost = c,
                         !.effects = steps[s].effects \union effects] \in StepRow
    BY <2>1, <2>4, StepOutcome
  <2>7. LedgerTypeOK'
    BY <1>9, <2>5, <2>6 DEF T2StepComplete, LedgerTypeOK
  <2>8. Linked'
    <3>1. \A q \in OpenRuns : q \in OpenRuns'
        BY <1>9, <2>2 DEF T2StepComplete, LedgerTypeOK, OpenRuns, RunRow
    <3>2. \A q \in OpenSteps' : /\ q \in OpenSteps /\ steps'[q].run = steps[q].run
                                /\ steps'[q].flow = steps[q].flow
        BY <1>9, <2>1 DEF T2StepComplete, LedgerTypeOK, OpenSteps, StepRow
    <3> QED BY <1>9, <3>1, <3>2, KeepsLinked DEF T2StepComplete
  <2> QED BY <2>7, <2>8
<1>10. ASSUME NEW s \in Steps, T3LeaseRenewal(s) \/ MirrorLapses(s) PROVE Sound'
  <2>1. steps[s].state \in {"leased", "running"} => steps[s] \in StepRow
    BY OpenRows DEF OpenSteps
  <2>2. LedgerTypeOK'
    BY <1>10, <2>1, StepMirror DEF T3LeaseRenewal, MirrorLapses, LedgerTypeOK
  <2>3. Linked'
    BY <1>10, <2>1
       DEF T3LeaseRenewal, MirrorLapses, Linked, LedgerTypeOK, OpenRuns, OpenFlows, OpenSteps,
           StepRow
  <2> QED BY <2>2, <2>3
<1>11. ASSUME T4ExpiryBackupScanner PROVE Sound'
  <2>1. \A s \in Expired : steps[s] \in StepRow
    BY OpenRows DEF Expired, OpenSteps
  <2>2. \A s \in Steps : steps'[s] \in StepRow \union {NoRow}
    BY <1>11, <2>1, StepBackToPool DEF T4ExpiryBackupScanner, LedgerTypeOK
  <2>3. LedgerTypeOK'
    BY <1>11, <2>2 DEF T4ExpiryBackupScanner, LedgerTypeOK
  <2>4. \A s \in Steps : /\ steps'[s].state # "absent" => s \in OpenSteps
                         /\ s \in OpenSteps => /\ steps'[s].run = steps[s].run
                                               /\ steps'[s].flow = steps[s].flow
    BY <1>11, <2>1, StepBackToPool DEF T4ExpiryBackupScanner, Expired, OpenSteps
  <2>5. Linked'
    BY <1>11, <2>4 DEF T4ExpiryBackupScanner, Linked, OpenRuns, OpenFlows, OpenSteps
  <2> QED BY <2>3, <2>5
<1>12. ASSUME NEW p \in Steps, NEW s \in Steps, NEW arm \in Arms \union {NoArm},
              InsertRetryStep(p, arm, s) PROVE Sound'
  <2>1. p \in OpenSteps /\ steps[p] \in StepRow
    BY <1>12, OpenRows DEF InsertRetryStep
  <2>2. PendingStep(steps[p].flow, steps[p].run, arm, p, steps[p].retries + 1) \in StepRow
    BY <2>1 DEF PendingStep, StepRow
  <2>3. LedgerTypeOK'
    BY <1>12, <2>2 DEF InsertRetryStep, LedgerTypeOK
  <2>4. Linked'
    BY <1>12, <2>1
       DEF InsertRetryStep, Linked, LedgerTypeOK, OpenRuns, OpenFlows, OpenSteps, PendingStep
  <2> QED BY <2>3, <2>4
<1>13. CASE UNCHANGED ledgerVars
    BY <1>13 DEF ledgerVars, LedgerTypeOK, Linked, OpenRuns, OpenFlows, OpenSteps
<1> QED
    BY <1>1, <1>2, <1>3, <1>4, <1>5, <1>6, <1>7, <1>8, <1>9, <1>10, <1>11, <1>12, <1>13
       DEF LedgerNext, Client, Scheduler, Clock

LEMMA AlwaysSound == LedgerSpec => []Sound
BY InitSound, NextSound, PTL DEF LedgerSpec

(* Every table entry keeps its type and every foreign key its target.      *)
THEOREM TypeCorrect == LedgerSpec => []LedgerTypeOK
BY AlwaysSound, PTL DEF Sound

-----------------------------------------------------------------------------
(* What a transaction may do to one row of steps: the cases the invariants *)
(* about steps are proved by.                                              *)

Untouched(s) == steps'[s] = steps[s]

SameChain(s) ==
    /\ steps'[s].retryOf = steps[s].retryOf /\ steps'[s].retries = steps[s].retries
    /\ steps'[s].flow = steps[s].flow /\ steps'[s].run = steps[s].run

Chained(s) ==
    LET p == steps'[s].retryOf
    IN  /\ p \in OpenSteps
        /\ steps'[s].retries = steps[p].retries + 1
        /\ steps'[s].flow = steps[p].flow /\ steps'[s].run = steps[p].run

Inserted(s) ==
    /\ s \notin OpenSteps
    /\ steps'[s].state = "pending" /\ steps'[s].mirror = "none"
    /\ steps'[s].tokens = 0 /\ steps'[s].cost = 0 /\ steps'[s].effects = {}
    /\ steps'[s].retryOf = NoStep \/ Chained(s)

(* The row moves along the state machine and nothing is put on its record. *)
Moved(s) ==
    /\ s \in OpenSteps
    /\ ValidStepMove(steps[s].state, steps'[s].state)
    /\ steps'[s].state \in {"leased", "running", "cancelled", "pending"}
    /\ steps'[s].state = "leased" => steps'[s].mirror # "none"
    /\ steps'[s].state = "running" => steps'[s].mirror = steps[s].mirror
    /\ steps'[s].tokens = steps[s].tokens /\ steps'[s].cost = steps[s].cost
    /\ steps'[s].effects = steps[s].effects
    /\ SameChain(s)

Renewed(s) ==
    /\ steps[s].state \in {"leased", "running"}
    /\ steps'[s].state = steps[s].state /\ steps'[s].mirror # "none"
    /\ steps'[s].tokens = steps[s].tokens /\ steps'[s].cost = steps[s].cost
    /\ steps'[s].effects = steps[s].effects
    /\ SameChain(s)

Settled(s) ==
    /\ s \in OpenSteps
    /\ ValidStepMove(steps[s].state, steps'[s].state)
    /\ steps'[s].state \in {"succeeded", "failed"}
    /\ SameChain(s)

Written(s) == Untouched(s) \/ Inserted(s) \/ Moved(s) \/ Renewed(s) \/ Settled(s)

LEMMA EveryWrite ==
    Sound /\ [LedgerNext]_ledgerVars => \A s \in Steps : Written(s)
<1> SUFFICES ASSUME Sound, [LedgerNext]_ledgerVars, NEW q \in Steps PROVE Written(q)
    OBVIOUS
<1> USE DEF Sound
<1>q. q \in OpenSteps => steps[q] \in StepRow
    BY OpenRows
<1>1. CASE UNCHANGED steps
    BY <1>1 DEF Written, Untouched
<1>2. ASSUME NEW s \in Steps, NEW f \in Flows, NEW r \in Runs, NEW arm \in Arms \union {NoArm},
             AddStep(s, f, r, arm) PROVE Written(q)
    BY <1>2 DEF AddStep, PendingStep, LedgerTypeOK, Written, Untouched, Inserted, Chained
<1>3. ASSUME NEW p \in Steps, NEW s \in Steps, NEW arm \in Arms \union {NoArm},
             InsertRetryStep(p, arm, s) PROVE Written(q)
    BY <1>3 DEF InsertRetryStep, PendingStep, LedgerTypeOK, Written, Untouched, Inserted, Chained
<1>4. ASSUME NEW s \in Steps, NEW arm \in Arms, UpdateStepArm(s, arm) PROVE Written(q)
    BY <1>4, <1>q DEF UpdateStepArm, LedgerTypeOK, StepRow, Written, Untouched, Moved, SameChain, OpenSteps,
                      ValidStepMove
<1>5. ASSUME NEW s \in Steps, NEW e \in Estimates, T1LeaseMirror(s, e) PROVE Written(q)
    BY <1>5, <1>q DEF T1LeaseMirror, CanLease, LedgerTypeOK, StepRow, Written, Untouched, Moved, SameChain
<1>6. ASSUME NEW s \in Steps, MarkStepRunning(s) PROVE Written(q)
    BY <1>6, <1>q DEF MarkStepRunning, CanRun, LedgerTypeOK, StepRow, Written, Untouched, Moved, SameChain
<1>7. ASSUME NEW s \in Steps, CancelStep(s) PROVE Written(q)
    BY <1>7, <1>q DEF CancelStep, CanCancel, LedgerTypeOK, StepRow, Written, Untouched, Moved, SameChain
<1>8. ASSUME NEW s \in Steps, NEW final \in {"succeeded", "failed"},
             NEW t \in Tokens, NEW c \in Costs, NEW effects \in SUBSET Seqs,
             T2StepComplete(s, final, t, c, effects) PROVE Written(q)
  <2>1. q # s => Untouched(q)
    BY <1>8 DEF T2StepComplete, LedgerTypeOK, Untouched
  <2>2. s \in OpenSteps /\ steps[s] \in StepRow
    BY <1>8, OpenRows DEF T2StepComplete, CanComplete
  <2>3. steps'[s].state = final
    BY <1>8, <2>2 DEF T2StepComplete, LedgerTypeOK, StepRow
  <2>4. Settled(s)
    BY <1>8, <2>2, <2>3 DEF T2StepComplete, CanComplete, LedgerTypeOK, StepRow, Settled, SameChain
  <2> QED BY <2>1, <2>4 DEF Written
<1>9. ASSUME NEW s \in Steps, T3LeaseRenewal(s) \/ MirrorLapses(s) PROVE Written(q)
    BY <1>9, <1>q DEF T3LeaseRenewal, MirrorLapses, LedgerTypeOK, StepRow, OpenSteps,
                      Written, Untouched, Renewed, SameChain
<1>10. ASSUME T4ExpiryBackupScanner PROVE Written(q)
  <2>1. CASE q \in Expired
    <3>1. q \in OpenSteps /\ steps[q].state \in {"leased", "running"}
        BY <2>1 DEF Expired, OpenSteps
    <3>2. steps'[q] = BackToPool(steps[q])
        BY <1>10, <2>1 DEF T4ExpiryBackupScanner
    <3>3. Moved(q)
        BY <3>1, <3>2, <1>q, StepBackToPool DEF Moved, SameChain, ValidStepMove, StepMoves
    <3> QED BY <3>3 DEF Written
  <2>2. CASE q \notin Expired
    BY <1>10, <2>2 DEF T4ExpiryBackupScanner, Written, Untouched
  <2> QED BY <2>1, <2>2
<1> QED
    BY <1>1, <1>2, <1>3, <1>4, <1>5, <1>6, <1>7, <1>8, <1>9, <1>10
       DEF LedgerNext, Client, Scheduler, Clock, ledgerVars,
           OpenRun, AddFlow, UpdateRunState, UpdateFlowState

(* No row is deleted or moved to another parent.                           *)
LEMMA RowsStay ==
    Sound /\ [LedgerNext]_ledgerVars => \A q \in OpenSteps : q \in OpenSteps' /\ SameChain(q)
<1> SUFFICES ASSUME Sound, [LedgerNext]_ledgerVars, NEW q \in OpenSteps
             PROVE  q \in OpenSteps' /\ SameChain(q)
    OBVIOUS
<1>1. q \in Steps /\ Written(q)
    BY EveryWrite DEF OpenSteps
<1> QED BY <1>1 DEF OpenSteps, Written, Untouched, Inserted, Moved, Renewed, Settled, SameChain

LEMMA FlowsStay == Sound /\ [LedgerNext]_ledgerVars => OpenFlows \subseteq OpenFlows'
<1> SUFFICES ASSUME Sound, [LedgerNext]_ledgerVars, NEW f \in OpenFlows PROVE f \in OpenFlows'
    OBVIOUS
<1>1. CASE UNCHANGED flows
    BY <1>1 DEF OpenFlows
<1>2. ASSUME NEW g \in Flows, AddFlow(g) PROVE f \in OpenFlows'
    BY <1>2 DEF AddFlow, OpenFlows, LedgerTypeOK, Sound
<1>3. ASSUME NEW g \in Flows, NEW to \in DOMAIN FlowMoves, UpdateFlowState(g, to)
      PROVE f \in OpenFlows'
    BY <1>3, StateNames DEF UpdateFlowState, OpenFlows, LedgerTypeOK, Sound
<1>4. ASSUME NEW s \in Steps, NEW e \in Estimates, T1LeaseMirror(s, e) PROVE UNCHANGED flows
    BY <1>4 DEF T1LeaseMirror
<1>5. ASSUME NEW s \in Steps, NEW final \in {"succeeded", "failed"},
             NEW t \in Tokens, NEW c \in Costs, NEW effects \in SUBSET Seqs,
             T2StepComplete(s, final, t, c, effects)
      PROVE  UNCHANGED flows
    BY <1>5 DEF T2StepComplete
<1> QED
    BY <1>1, <1>2, <1>3, <1>4, <1>5
       DEF LedgerNext, Client, Scheduler, Clock, ledgerVars, OpenRun, AddStep, UpdateRunState,
           UpdateStepArm, MarkStepRunning, T3LeaseRenewal, T4ExpiryBackupScanner, CancelStep,
           InsertRetryStep, MirrorLapses

-----------------------------------------------------------------------------
(* A leased or running step always carries an expiry for the T4 scanner to *)
(* find: a row becomes leased together with its mirror, only a leased or   *)
(* running row becomes running, and the mirror is cleared only by leaving  *)
(* both states.                                                            *)
THEOREM AlwaysRecoverable == LedgerSpec => []RecoverableByT4
<1>1. LedgerInit => RecoverableByT4
    BY DEF LedgerInit, RecoverableByT4, OpenSteps, FreshSteps, PendingStep, NoRow
<1>2. Sound /\ RecoverableByT4 /\ [LedgerNext]_ledgerVars => RecoverableByT4'
  <2> SUFFICES ASSUME Sound, RecoverableByT4, [LedgerNext]_ledgerVars, NEW s \in Steps,
                      s \in OpenSteps', steps'[s].state \in {"leased", "running"}
               PROVE  steps'[s].mirror # "none"
    BY DEF RecoverableByT4, OpenSteps
  <2>1. Written(s)
    BY EveryWrite
  <2>2. CASE Moved(s)
    <3>1. steps'[s].state = "running" => steps[s].state \in {"leased", "running"}
        BY <2>2, OpenRows, StateNames DEF Moved, ValidStepMove, StepMoves, Sound, StepRow
    <3> QED BY <2>2, <3>1 DEF Moved, RecoverableByT4
  <2>3. CASE Untouched(s)
    BY <2>3 DEF Untouched, RecoverableByT4, OpenSteps
  <2> QED BY <2>1, <2>2, <2>3 DEF Written, Inserted, Renewed, Settled
<1> QED BY <1>1, <1>2, AlwaysSound, PTL DEF LedgerSpec

(* No step that can still be executed has effects, tokens or a cost on     *)
(* record: they are written by T2 alone, which also ends the step, and no  *)
(* transaction leads out of a terminal state, T4 included.                 *)
THEOREM EffectsOnlyWithOutcome == LedgerSpec => []EffectsNeedOutcome
<1>1. LedgerInit => EffectsNeedOutcome
    BY DEF LedgerInit, EffectsNeedOutcome, OpenSteps, FreshSteps, PendingStep, NoRow
<1>2. Sound /\ EffectsNeedOutcome /\ [LedgerNext]_ledgerVars => EffectsNeedOutcome'
  <2> SUFFICES ASSUME Sound, EffectsNeedOutcome, [LedgerNext]_ledgerVars, NEW s \in Steps,
                      s \in OpenSteps',
                      steps'[s].effects # {} \/ steps'[s].cost > 0 \/ steps'[s].tokens > 0
               PROVE  steps'[s].state \in {"succeeded", "failed"}
    BY DEF EffectsNeedOutcome, OpenSteps
  <2>1. Written(s)
    BY EveryWrite
  <2>2. CASE Moved(s)
    <3>1. steps[s].state \in {"succeeded", "failed"}
        BY <2>2 DEF Moved, EffectsNeedOutcome
    <3> QED BY <2>2, <3>1 DEF Moved, ValidStepMove, StepMoves
  <2>3. CASE Untouched(s) \/ Renewed(s)
    BY <2>3 DEF Untouched, Renewed, EffectsNeedOutcome, OpenSteps
  <2> QED BY <2>1, <2>2, <2>3 DEF Written, Inserted, Settled
<1> QED BY <1>1, <1>2, AlwaysSound, PTL DEF LedgerSpec

(* A run with a budget never exceeds it: T1 checks its debit, and a T2     *)
(* whose report would exceed it is aborted by the table's constraint.      *)
THEOREM NeverOverBudget == LedgerSpec => []BudgetRespected
<1>1. LedgerInit => BudgetRespected
    BY DEF LedgerInit, BudgetRespected, OpenRuns, PendingRun, NoRow
<1>2. Sound /\ BudgetRespected /\ [LedgerNext]_ledgerVars => BudgetRespected'
  <2> SUFFICES ASSUME Sound, BudgetRespected, [LedgerNext]_ledgerVars,
                      NEW q \in Runs, q \in OpenRuns', TokenBudget[q] # 0
               PROVE  runs'[q].used <= TokenBudget[q]
    BY DEF BudgetRespected, OpenRuns
  <2> USE DEF Sound
  <2>1. CASE UNCHANGED runs
    BY <2>1 DEF BudgetRespected, OpenRuns
  <2>2. ASSUME NEW r \in Runs, OpenRun(r) PROVE runs'[q].used <= TokenBudget[q]
    BY <2>2 DEF OpenRun, PendingRun, LedgerTypeOK, BudgetRespected, OpenRuns
  <2>3. ASSUME NEW r \in Runs, NEW to \in DOMAIN RunMoves, UpdateRunState(r, to)
        PROVE runs'[q].used <= TokenBudget[q]
    <3>1. q \in OpenRuns /\ runs'[q].used = runs[q].used
        BY <2>3, OpenRows DEF UpdateRunState, LedgerTypeOK, OpenRuns, RunRow
    <3> QED BY <3>1 DEF BudgetRespected
  <2>4. ASSUME NEW s \in Steps, NEW e \in Estimates, T1LeaseMirror(s, e)
        PROVE runs'[q].used <= TokenBudget[q]
    <3> DEFINE r == steps[s].run
    <3>1. r \in OpenRuns /\ runs[r] \in RunRow
        BY <2>4, OpenRows DEF T1LeaseMirror, CanLease, Linked
    <3>2. CASE q = r
        <4>1. runs'[q].used = runs[q].used + e
            BY <2>4, <3>1, <3>2 DEF T1LeaseMirror, LedgerTypeOK, RunRow
        <4>2. runs[q].used <= TokenBudget[q]
            BY <3>1, <3>2 DEF BudgetRespected
        <4> QED BY <2>4, <3>1, <3>2, <4>1, <4>2 DEF T1LeaseMirror, Affords, RunRow
    <3>3. CASE q # r
        BY <2>4, <3>3 DEF T1LeaseMirror, LedgerTypeOK, BudgetRespected, OpenRuns
    <3> QED BY <3>2, <3>3
  <2>5. ASSUME NEW s \in Steps, NEW final \in {"succeeded", "failed"},
               NEW t \in Tokens, NEW c \in Costs, NEW effects \in SUBSET Seqs,
               T2StepComplete(s, final, t, c, effects)
        PROVE runs'[q].used <= TokenBudget[q]
    <3> DEFINE r == steps[s].run
    <3>1. r \in OpenRuns /\ runs[r] \in RunRow
        BY <2>5, OpenRows DEF T2StepComplete, CanComplete, Linked
    <3>2. CASE q = r
        <4>1. runs'[q].used = Reconciled(runs[q].used, t)
            BY <2>5, <3>1, <3>2 DEF T2StepComplete, LedgerTypeOK, RunRow
        <4> QED BY <2>5, <3>2, <4>1 DEF T2StepComplete, CanComplete, WithinBudget
    <3>3. CASE q # r
        BY <2>5, <3>3 DEF T2StepComplete, LedgerTypeOK, BudgetRespected, OpenRuns
    <3> QED BY <3>2, <3>3
  <2> QED
    BY <2>1, <2>2, <2>3, <2>4, <2>5
       DEF LedgerNext, Client, Scheduler, Clock, ledgerVars, AddFlow, AddStep, UpdateFlowState,
           UpdateStepArm, MarkStepRunning, T3LeaseRenewal, T4ExpiryBackupScanner, CancelStep,
           InsertRetryStep, MirrorLapses
<1> QED BY <1>1, <1>2, AlwaysSound, PTL DEF LedgerSpec

LEMMA KeepsTerminal == Sound /\ [LedgerNext]_ledgerVars => TerminalKept
<1>1. ASSUME Sound, [LedgerNext]_ledgerVars, NEW s \in Steps, steps[s].state \in TerminalStep
      PROVE  steps'[s].state = steps[s].state
  <2>1. Written(s) /\ s \in OpenSteps
    BY <1>1, EveryWrite DEF TerminalStep, OpenSteps
  <2> QED BY <1>1, <2>1 DEF Written, Untouched, Inserted, Moved, Renewed, Settled,
                            ValidStepMove, StepMoves, TerminalStep
<1>2. ASSUME Sound, [LedgerNext]_ledgerVars, NEW f \in Flows, flows[f] \in TerminalFlow
      PROVE  flows'[f] = flows[f]
  <2>1. CASE UNCHANGED flows
    BY <2>1
  <2>2. ASSUME NEW g \in Flows, AddFlow(g) PROVE flows'[f] = flows[f]
    BY <1>2, <2>2 DEF AddFlow, OpenFlows, TerminalFlow, LedgerTypeOK, Sound
  <2>3. ASSUME NEW g \in Flows, NEW to \in DOMAIN FlowMoves, UpdateFlowState(g, to)
        PROVE flows'[f] = flows[f]
    BY <1>2, <2>3 DEF UpdateFlowState, ValidFlowMove, FlowMoves, TerminalFlow, LedgerTypeOK, Sound
  <2>4. ASSUME NEW s \in Steps, NEW e \in Estimates, T1LeaseMirror(s, e)
        PROVE flows'[f] = flows[f]
    BY <2>4 DEF T1LeaseMirror
  <2>5. ASSUME NEW s \in Steps, NEW final \in {"succeeded", "failed"},
               NEW t \in Tokens, NEW c \in Costs, NEW effects \in SUBSET Seqs,
               T2StepComplete(s, final, t, c, effects)
        PROVE flows'[f] = flows[f]
    BY <2>5 DEF T2StepComplete
  <2> QED
    BY <1>2, <2>1, <2>2, <2>3, <2>4, <2>5
       DEF LedgerNext, Client, Scheduler, Clock, ledgerVars, OpenRun, AddStep, UpdateRunState,
           UpdateStepArm, MarkStepRunning, T3LeaseRenewal, T4ExpiryBackupScanner, CancelStep,
           InsertRetryStep, MirrorLapses
<1>3. ASSUME Sound, [LedgerNext]_ledgerVars, NEW r \in Runs, runs[r].state \in TerminalRun
      PROVE  runs'[r].state = runs[r].state
  <2> USE <1>3 DEF Sound
  <2>0. r \in OpenRuns /\ runs[r] \in RunRow
    BY OpenRows DEF OpenRuns, TerminalRun
  <2>1. CASE UNCHANGED runs
    BY <2>1
  <2>2. ASSUME NEW x \in Runs, OpenRun(x) PROVE runs'[r].state = runs[r].state
    BY <2>0, <2>2 DEF OpenRun, LedgerTypeOK
  <2>3. ASSUME NEW x \in Runs, NEW to \in DOMAIN RunMoves, UpdateRunState(x, to)
        PROVE runs'[r].state = runs[r].state
    BY <2>0, <2>3 DEF UpdateRunState, ValidRunMove, RunMoves, TerminalRun, LedgerTypeOK, RunRow
  <2>4. ASSUME NEW s \in Steps, NEW e \in Estimates, T1LeaseMirror(s, e)
        PROVE runs'[r].state = runs[r].state
    BY <2>0, <2>4 DEF T1LeaseMirror, LedgerTypeOK, RunRow
  <2>5. ASSUME NEW s \in Steps, NEW final \in {"succeeded", "failed"},
               NEW t \in Tokens, NEW c \in Costs, NEW effects \in SUBSET Seqs,
               T2StepComplete(s, final, t, c, effects)
        PROVE runs'[r].state = runs[r].state
    BY <2>0, <2>5 DEF T2StepComplete, LedgerTypeOK, RunRow
  <2> QED
    BY <2>1, <2>2, <2>3, <2>4, <2>5
       DEF LedgerNext, Client, Scheduler, Clock, ledgerVars, AddFlow, AddStep, UpdateFlowState,
           UpdateStepArm, MarkStepRunning, T3LeaseRenewal, T4ExpiryBackupScanner, CancelStep,
           InsertRetryStep, MirrorLapses
<1> QED BY <1>1, <1>2, <1>3 DEF TerminalKept

(* Lemma 5.1 of fsm.go: no transaction of any caller leaves a terminal     *)
(* state of a run, a flow or a step.                                       *)
THEOREM TerminalStatesAbsorb == LedgerSpec => TerminalAbsorbing
<1>1. Sound /\ [LedgerNext]_ledgerVars => [TerminalKept]_ledgerVars
    BY KeepsTerminal
<1> QED BY <1>1, AlwaysSound, PTL DEF LedgerSpec, TerminalAbsorbing

(* Retry chains are well founded: a retry points at an existing row of the *)
(* same flow and run whose retry_count is one less, so following retry_of  *)
(* always ends at an original step and every chain has a leaf.             *)
THEOREM RetryChainsWellFounded == LedgerSpec => []ChainsWellFounded
<1>1. LedgerInit => ChainsWellFounded
    BY DEF LedgerInit, ChainsWellFounded, OpenSteps, FreshSteps, PendingStep, NoRow
<1>2. Sound /\ ChainsWellFounded /\ [LedgerNext]_ledgerVars => ChainsWellFounded'
  <2> SUFFICES ASSUME Sound, ChainsWellFounded, [LedgerNext]_ledgerVars
               PROVE  ChainsWellFounded'
    OBVIOUS
  <2>1. \A q \in OpenSteps : q \in OpenSteps' /\ SameChain(q)
    BY RowsStay
  <2>2. \A q \in Steps \ OpenSteps :
            q \in OpenSteps' => steps'[q].retryOf = NoStep \/ Chained(q)
    <3> SUFFICES ASSUME NEW q \in Steps \ OpenSteps, q \in OpenSteps'
                 PROVE  steps'[q].retryOf = NoStep \/ Chained(q)
        OBVIOUS
    <3>1. Written(q)
        BY EveryWrite
    <3> QED BY <3>1 DEF OpenSteps, Written, Untouched, Inserted, Moved, Renewed, Settled
  <2> QED
    BY <2>1, <2>2 DEF ChainsWellFounded, OpenSteps, SameChain, Chained
<1> QED BY <1>1, <1>2, AlwaysSound, PTL DEF LedgerSpec
=============================================================================
