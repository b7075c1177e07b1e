------------------------ MODULE FlowScheduler_proof ------------------------
(***************************************************************************)
(* A fleet of any size, over any rows, batch size and retry policy, with   *)
(* any number of faults and crashes.                                       *)
(***************************************************************************)
EXTENDS FlowScheduler, ExecutionLedger_proof, WellFoundedInduction, FiniteSetTheorems,
        SequenceTheorems

-----------------------------------------------------------------------------
(* Sums over finite sets: a summand may be taken out, equal summands have  *)
(* equal sums, and zeros add up to zero.  MapThenSumSet is a recursive     *)
(* function over the subsets of the set.  The library's theorems about     *)
(* induction have an operator as parameter, which the provers cannot       *)
(* instantiate; the members of a set serve as well.                        *)

LEMMA SetInduction ==
    ASSUME NEW S, 0 \in S, \A n \in Nat : n \in S => n + 1 \in S
    PROVE  \A n \in Nat : n \in S
<1> DEFINE R == {ss \in Nat \X Nat : ss[1] < ss[2]}
           T == Nat \ S
<1>1. SUFFICES ASSUME T # {} PROVE FALSE
    OBVIOUS
<1>2. PICK x \in T : \A y \in T : <<y, x>> \notin R
  <2>1. T \subseteq Nat /\ IsWellFoundedOn(R, Nat)
    BY NatLessThanWellFounded DEF OpToRel
  <2> HIDE DEF T, R
  <2> QED BY <1>1, <2>1, WFMin
<1>3. x \in Nat /\ x # 0
    OBVIOUS
<1>4. x - 1 \in Nat /\ x - 1 < x
    BY <1>3
<1>5. x - 1 \notin T
    BY <1>2, <1>3, <1>4
<1> QED BY <1>3, <1>4, <1>5

(* it has the sums of c over the subsets of S, as the fold computes them.  *)
Pick(s) == CHOOSE x \in s : TRUE
Rest(s) == s \ {Pick(s)}
Adds(it, c, S) == it = [s \in SUBSET S |-> IF s = {} THEN 0 ELSE c[Pick(s)] + it[Rest(s)]]

LEMMA Removed ==
    ASSUME NEW s, IsFiniteSet(s), s # {}, NEW n \in Nat, Cardinality(s) <= n + 1
    PROVE  /\ Pick(s) \in s
           /\ \A x \in s : IsFiniteSet(s \ {x}) /\ Cardinality(s \ {x}) <= n
           /\ IsFiniteSet(Rest(s)) /\ Cardinality(Rest(s)) <= n
<1>1. Pick(s) \in s
    BY DEF Pick
<1>2. ASSUME NEW x \in s PROVE IsFiniteSet(s \ {x}) /\ Cardinality(s \ {x}) <= n
  <2>1. IsFiniteSet(s \ {x}) /\ Cardinality(s \ {x}) = Cardinality(s) - 1
    BY FS_RemoveElement
  <2>2. Cardinality(s) \in Nat
    BY FS_CardinalityType
  <2> QED BY <2>1, <2>2
<1> QED BY <1>1, <1>2 DEF Rest

LEMMA SumsExist ==
    ASSUME NEW c, NEW S, IsFiniteSet(S)
    PROVE  \E it : Adds(it, c, S)
<1> DEFINE Small(n) == {s \in SUBSET S : Cardinality(s) <= n}
           Val(s, g) == IF s = {} THEN 0 ELSE c[Pick(s)] + g[Rest(s)]
           Done == {n \in Nat : \E g : g = [s \in Small(n) |-> Val(s, g)]}
<1>f. \A s \in SUBSET S : IsFiniteSet(s) /\ Cardinality(s) \in Nat /\ Rest(s) \in SUBSET S
    BY FS_Subset, FS_CardinalityType DEF Rest
<1>0. 0 \in Done
  <2> DEFINE g == [s \in Small(0) |-> 0]
  <2>1. \A s \in Small(0) : s = {}
    BY <1>f, FS_EmptySet
  <2>2. g = [s \in Small(0) |-> Val(s, g)]
    BY <2>1
  <2> QED BY <2>2
<1>1. ASSUME NEW n \in Nat, n \in Done PROVE n + 1 \in Done
  <2>1. PICK g : g = [s \in Small(n) |-> Val(s, g)]
    BY <1>1
  <2> DEFINE h == [s \in Small(n + 1) |-> IF s \in Small(n) THEN g[s] ELSE Val(s, g)]
  <2>2. Small(n) \subseteq Small(n + 1)
    BY <1>f
  <2>3. \A s \in Small(n + 1) : s # {} => Rest(s) \in Small(n)
    BY <1>f, Removed
  <2>4. \A s \in Small(n) : h[s] = g[s] /\ g[s] = Val(s, g)
    BY <2>1, <2>2
  <2>5. ASSUME NEW s \in Small(n + 1) PROVE h[s] = Val(s, h)
    <3>1. h[s] = Val(s, g)
        BY <2>4
    <3>2. Val(s, g) = Val(s, h)
        BY <2>3, <2>4
    <3> QED BY <3>1, <3>2
  <2>6. h = [s \in Small(n + 1) |-> Val(s, h)]
    BY <2>5
  <2> HIDE DEF h, Val, Small
  <2> QED BY <2>6
<1>2. Cardinality(S) \in Done
  <2> HIDE DEF Done
  <2> QED BY <1>0, <1>1, <1>f, SetInduction
<1>3. PICK g : g = [s \in Small(Cardinality(S)) |-> Val(s, g)]
    BY <1>2
<1>4. Small(Cardinality(S)) = SUBSET S
    BY FS_Subset
<1> QED BY <1>3, <1>4 DEF Adds

(* The total is one of these sums.                                         *)
LEMMA TotalAdds ==
    ASSUME NEW c, NEW S, IsFiniteSet(S)
    PROVE  \E it : Adds(it, c, S) /\ Total(c, S) = it[S]
<1> DEFINE it == CHOOSE f : Adds(f, c, S)
<1>1. Adds(it, c, S)
    BY SumsExist
<1>2. Total(c, S) = it[S]
    BY DEF Total, MapThenSumSet, MapThenFoldSet, Adds, Pick, Rest
<1> QED BY <1>1, <1>2

(* A sum depends on nothing but what is added up.                          *)
LEMMA SumsAgree ==
    ASSUME NEW c, NEW d, NEW S, NEW T, NEW f, NEW g, Adds(f, c, S), Adds(g, d, T),
           NEW U, U \subseteq S, U \subseteq T, IsFiniteSet(U), \A x \in U : c[x] = d[x]
    PROVE  f[U] = g[U]
<1> DEFINE Done == {n \in Nat : \A V \in SUBSET U : Cardinality(V) <= n => f[V] = g[V]}
<1>f. \A V \in SUBSET U : IsFiniteSet(V) /\ Cardinality(V) \in Nat /\ Rest(V) \in SUBSET U
    BY FS_Subset, FS_CardinalityType DEF Rest
<1>v. ASSUME NEW V \in SUBSET U
      PROVE  /\ f[V] = IF V = {} THEN 0 ELSE c[Pick(V)] + f[Rest(V)]
             /\ g[V] = IF V = {} THEN 0 ELSE d[Pick(V)] + g[Rest(V)]
  <2>1. V \in SUBSET S /\ V \in SUBSET T
    OBVIOUS
  <2> QED BY <2>1 DEF Adds
<1>0. 0 \in Done
  <2>1. \A V \in SUBSET U : Cardinality(V) <= 0 => V = {}
    BY <1>f, FS_EmptySet
  <2> QED BY <1>v, <2>1
<1>1. ASSUME NEW n \in Nat, n \in Done PROVE n + 1 \in Done
  <2> SUFFICES ASSUME NEW V \in SUBSET U, Cardinality(V) <= n + 1, V # {} PROVE f[V] = g[V]
    BY <1>v
  <2>1. Pick(V) \in V /\ Cardinality(Rest(V)) <= n
    BY <1>f, Removed
  <2>2. f[Rest(V)] = g[Rest(V)]
    BY <1>1, <1>f, <2>1
  <2> QED BY <1>v, <2>1, <2>2
<1>2. Cardinality(U) \in Done
  <2> HIDE DEF Done
  <2> QED BY <1>0, <1>1, <1>f, SetInduction
<1> QED BY <1>2, <1>f

(* The order in which the elements are added does not matter.              *)
LEMMA SumsSplit ==
    ASSUME NEW c, NEW S, IsFiniteSet(S), NEW f, Adds(f, c, S), \A x \in S : c[x] \in Nat
    PROVE  \A V \in SUBSET S : f[V] \in Nat /\ \A x \in V : f[V] = c[x] + f[V \ {x}]
<1> DEFINE Split(V) == f[V] \in Nat /\ \A x \in V : f[V] = c[x] + f[V \ {x}]
           Done == {n \in Nat : \A V \in SUBSET S : Cardinality(V) <= n => Split(V)}
<1>f. \A V \in SUBSET S : IsFiniteSet(V) /\ Cardinality(V) \in Nat /\ Rest(V) \in SUBSET S
    BY FS_Subset, FS_CardinalityType DEF Rest
<1>v. \A V \in SUBSET S : f[V] = IF V = {} THEN 0 ELSE c[Pick(V)] + f[Rest(V)]
    BY DEF Adds
<1>0. 0 \in Done
  <2>1. \A V \in SUBSET S : Cardinality(V) <= 0 => V = {}
    BY <1>f, FS_EmptySet
  <2> QED BY <1>v, <2>1
<1>1. ASSUME NEW n \in Nat, n \in Done PROVE n + 1 \in Done
  <2> SUFFICES ASSUME NEW V \in SUBSET S, Cardinality(V) <= n + 1, V # {} PROVE Split(V)
    BY <1>v
  <2> DEFINE y == Pick(V)
  <2>1. y \in V /\ Cardinality(V \ {y}) <= n /\ f[V] = c[y] + f[V \ {y}]
    BY <1>f, <1>v, Removed DEF Rest
  <2>2. Split(V \ {y}) /\ f[V] \in Nat
    <3>1. V \ {y} \in SUBSET S /\ c[y] \in Nat
        BY <2>1
    <3>2. Split(V \ {y})
        BY <1>1, <2>1, <3>1
    <3>3. f[V \ {y}] \in Nat
        BY <3>2
    <3>4. c[y] + f[V \ {y}] \in Nat
      <4> HIDE DEF y
      <4> QED BY <3>1, <3>3
    <3> QED BY <2>1, <3>2, <3>4
  <2>3. ASSUME NEW x \in V, x # y PROVE f[V] = c[x] + f[V \ {x}]
    <3>1. Cardinality(V \ {x}) <= n
        BY <1>f, Removed
    <3>2. Split(V \ {x})
        BY <1>1, <3>1
    <3>3. f[V \ {y}] = c[x] + f[(V \ {y}) \ {x}] /\ f[V \ {x}] = c[y] + f[(V \ {x}) \ {y}]
        BY <2>1, <2>2, <2>3, <3>2
    <3>4. (V \ {y}) \ {x} = (V \ {x}) \ {y} /\ Cardinality((V \ {x}) \ {y}) <= n
      <4>1. IsFiniteSet(V \ {x}) /\ y \in V \ {x} /\ Cardinality(V \ {x}) \in Nat
        BY <1>f, <2>1, <2>3
      <4>2. Cardinality((V \ {x}) \ {y}) = Cardinality(V \ {x}) - 1
        BY <4>1, FS_RemoveElement
      <4> QED BY <3>1, <4>1, <4>2
    <3>5. f[(V \ {x}) \ {y}] \in Nat
        BY <1>1, <3>4
    <3> HIDE DEF y
    <3> QED BY <2>1, <2>3, <3>3, <3>4, <3>5
  <2> QED BY <2>1, <2>2, <2>3
<1>2. Cardinality(S) \in Done
  <2> HIDE DEF Done
  <2> QED BY <1>0, <1>1, <1>f, SetInduction
<1>3. \A V \in SUBSET S : Cardinality(V) <= Cardinality(S)
    BY FS_Subset
<1> QED BY <1>2, <1>3

LEMMA TotalSplit ==
    ASSUME NEW c, NEW S, IsFiniteSet(S), \A x \in S : c[x] \in Nat, NEW x \in S
    PROVE  Total(c, S \ {x}) \in Nat /\ Total(c, S) = c[x] + Total(c, S \ {x})
<1> DEFINE T == S \ {x}
<1>1. IsFiniteSet(T) /\ T \in SUBSET S
    BY FS_Subset
<1>2. PICK f : Adds(f, c, S) /\ Total(c, S) = f[S]
    BY TotalAdds
<1>3. PICK g : Adds(g, c, T) /\ Total(c, T) = g[T]
    BY <1>1, TotalAdds
<1>4. f[T] = g[T]
    BY <1>1, <1>2, <1>3, SumsAgree
<1>5. S \in SUBSET S /\ f[S] = c[x] + f[T] /\ f[T] \in Nat
    BY <1>1, <1>2, SumsSplit
<1> QED BY <1>2, <1>3, <1>4, <1>5

LEMMA TotalSame ==
    ASSUME NEW c, NEW d, NEW S, IsFiniteSet(S), \A x \in S : c[x] = d[x]
    PROVE  Total(c, S) = Total(d, S)
<1>1. PICK f : Adds(f, c, S) /\ Total(c, S) = f[S]
    BY TotalAdds
<1>2. PICK g : Adds(g, d, S) /\ Total(d, S) = g[S]
    BY TotalAdds
<1> QED BY <1>1, <1>2, SumsAgree

LEMMA TotalZero ==
    ASSUME NEW c, NEW S, IsFiniteSet(S), \A x \in S : c[x] = 0
    PROVE  Total(c, S) = 0
<1> DEFINE z == [s \in SUBSET S |-> 0]
<1>1. PICK f : Adds(f, c, S) /\ Total(c, S) = f[S]
    BY TotalAdds
<1>2. Adds(z, c, S)
  <2>1. \A s \in SUBSET S : s # {} => Pick(s) \in s /\ Rest(s) \in SUBSET S
    BY DEF Pick, Rest
  <2>2. \A s \in SUBSET S : z[s] = IF s = {} THEN 0 ELSE c[Pick(s)] + z[Rest(s)]
    BY <2>1
  <2> QED BY <2>2 DEF Adds
<1>3. f[S] = z[S]
    BY <1>1, <1>2, SumsAgree
<1> QED BY <1>1, <1>3

-----------------------------------------------------------------------------
USE RowsAssumption, AmountAssumption, SchedulerAssumption

-----------------------------------------------------------------------------
(* The inductive invariant behind everything below: the rows a scheduler   *)
(* has read, and the one it is dispatching, are rows of the ledger; and a  *)
(* keepalive goroutine lives no longer than the dispatch that started it.  *)
Attached ==
    /\ \A n \in Schedulers : \A j \in todo[n] : j.step \in OpenSteps
    /\ \A n \in Schedulers : pc[n] # "idle" => Step(n) \in OpenSteps
    /\ \A n \in Schedulers : pulse[n] # "off" => pc[n] # "idle"

FleetSound == Sound /\ FleetTypeOK /\ Attached

LEMMA FleetInit == Init => LedgerInit
<1> SUFFICES ASSUME Init PROVE LedgerInit
    OBVIOUS
<1>1. OpenFlows = Flows /\ OpenRuns = Runs
    BY DEF Init, OpenFlows, OpenRuns, PendingRun
<1>2. \A s \in DOMAIN Planned :
          PendingStep(Planned[s].flow, RunOf[Planned[s].flow], Planned[s].arm, NoStep, 0) \in FreshSteps
    BY <1>1 DEF FreshSteps
<1> QED BY <1>1, <1>2 DEF Init, LedgerInit

(* Every step of the fleet is a transaction of the ledger, or none.        *)
LEMMA LedgerStep == FleetSound /\ [Next]_vars => [LedgerNext]_ledgerVars
<1> SUFFICES ASSUME FleetSound, [Next]_vars, ~UNCHANGED ledgerVars PROVE LedgerNext
    OBVIOUS
<1> USE DEF FleetSound, Sound, ledgerVars, UnchangedLedger, Fault
<1>1. ASSUME NEW n \in Schedulers, SelectArm(n) PROVE LedgerNext
  <2>1. PICK arm \in Arms : UpdateStepArm(Step(n), arm)
    BY <1>1 DEF SelectArm
  <2>2. Step(n) \in Steps
    BY <1>1 DEF SelectArm, Attached, OpenSteps
  <2> QED BY <2>1, <2>2 DEF LedgerNext, Scheduler
<1>2. ASSUME NEW n \in Schedulers, Cancel(n) PROVE LedgerNext
    BY <1>2 DEF Cancel, CancelStep, CanCancel, OpenSteps, LedgerNext, Scheduler
<1>3. ASSUME NEW n \in Schedulers, LeaseMirror(n) PROVE LedgerNext
    BY <1>3 DEF LeaseMirror, T1LeaseMirror, CanLease, OpenSteps, LedgerNext, Scheduler
<1>r. ASSUME NEW r, NEW to, UpdateRunState(r, to) PROVE LedgerNext
  <2>1. r \in Runs /\ runs[r] \in RunRow
    BY <1>r, OpenRows DEF UpdateRunState
  <2>2. to \in DOMAIN RunMoves
    BY <1>r, <2>1, StateNames DEF UpdateRunState, ValidRunMove, RunMoves, RunRow
  <2> QED BY <1>r, <2>1, <2>2 DEF LedgerNext, Client
<1>f. ASSUME NEW f, NEW to, UpdateFlowState(f, to) PROVE LedgerNext
  <2>1. f \in Flows /\ flows[f] \in DOMAIN FlowMoves
    BY <1>f, OpenRows DEF UpdateFlowState
  <2>2. to \in DOMAIN FlowMoves
    BY <1>f, <2>1, StateNames DEF UpdateFlowState, ValidFlowMove, FlowMoves
  <2> QED BY <1>f, <2>1, <2>2 DEF LedgerNext, Scheduler
<1>4. ASSUME NEW n \in Schedulers, EnsureRunRunning(n) \/ CasRun(n) PROVE LedgerNext
    BY <1>4, <1>r DEF EnsureRunRunning, CasRun
<1>5. ASSUME NEW n \in Schedulers, AssignFlow(n) \/ RunFlow(n) \/ CasFlow(n) PROVE LedgerNext
    BY <1>5, <1>f DEF AssignFlow, RunFlow, CasFlow
<1>6. ASSUME NEW n \in Schedulers, MarkRunning(n) PROVE LedgerNext
    BY <1>6 DEF MarkRunning, MarkStepRunning, CanRun, OpenSteps, LedgerNext, Scheduler
<1>t. ASSUME NEW s, NEW final \in {"succeeded", "failed"}, NEW t \in Tokens, NEW c \in Costs,
             NEW effects \in SUBSET Seqs, T2StepComplete(s, final, t, c, effects)
      PROVE  LedgerNext
  <2>1. s \in Steps
    BY <1>t DEF T2StepComplete, CanComplete, OpenSteps
  <2> QED BY <1>t, <2>1 DEF LedgerNext, Scheduler
<1>7. ASSUME NEW n \in Schedulers, CommitResult(n) PROVE LedgerNext
    BY <1>7, <1>t DEF CommitResult
<1>8. ASSUME NEW n \in Schedulers, RecordFailure(n) PROVE LedgerNext
    BY <1>8, <1>t DEF RecordFailure
<1>9. ASSUME NEW n \in Schedulers, Retry(n) PROVE LedgerNext
  <2>1. PICK s \in Steps : InsertRetryStep(Step(n), job[n].arm, s)
    BY <1>9 DEF Retry, Unused
  <2>2. Step(n) \in Steps /\ job[n].arm \in Arms \union {NoArm}
    BY <2>1 DEF InsertRetryStep, OpenSteps, FleetTypeOK
  <2> QED BY <2>1, <2>2 DEF LedgerNext, Scheduler
<1>10. ASSUME NEW n \in Schedulers, RenewMirror(n) PROVE LedgerNext
  <2>1. Step(n) \in Steps
    BY <1>10 DEF RenewMirror, Attached, OpenSteps
  <2> QED BY <1>10, <2>1 DEF RenewMirror, LedgerNext, Scheduler
<1>11. ASSUME NEW n \in Schedulers, ExpiryScan(n) PROVE LedgerNext
    BY <1>11 DEF ExpiryScan, LedgerNext, Scheduler
<1>12. ASSUME NEW s \in Late, Submit(s) PROVE LedgerNext
  <2>1. s \in Steps /\ Planned[s].flow \in Flows /\ Planned[s].arm \in Arms \union {NoArm}
    OBVIOUS
  <2> QED BY <1>12, <2>1 DEF Submit, LedgerNext, Client
<1>13. ASSUME NEW r \in Runs, NEW to, TransitionRun(r, to) PROVE LedgerNext
    BY <1>13, <1>r DEF TransitionRun
<1>14. ASSUME NEW s \in Steps, MirrorExpires(s) PROVE LedgerNext
    BY <1>14 DEF MirrorExpires, LedgerNext, Clock
<1> QED
    BY <1>1, <1>2, <1>3, <1>4, <1>5, <1>6, <1>7, <1>8, <1>9, <1>10, <1>11, <1>12, <1>13, <1>14
       DEF Next, Dispatch, Environment, vars, Tick, Acquire, Execute, Release, CountStepsByFlow,
           CountFlowsByRun, Count, ReadView, ReadFlow, ReadRun, Finish, Keepalive, LeaseExpires,
           Crash

-----------------------------------------------------------------------------
(* Between Acquire and the end of dispatchStep a call of scheduler n only  *)
(* moves n to its next stage: it keeps every lease and every row read.     *)

(* The stages that precede the release of the lease.                       *)
Holding == {"arm", "unroutable", "lease", "overBudget", "ensureRun", "assignFlow", "runFlow",
            "mark", "exec", "commit", "recordFailure", "release"}

Hop(n) ==
    /\ pc[n] # "idle"
    /\ \E stage \in Stages \ {"idle"} : /\ pc' = [pc EXCEPT ![n] = stage]
                                        /\ stage \in Holding => pc[n] \in Holding
    /\ job' \in [Schedulers -> [step : Steps \union {NoStep}, arm : Arms \union {NoArm}]]
    /\ \A m \in Schedulers : job'[m].step = job[m].step
    /\ result' \in [Schedulers -> Results]
    /\ view' \in [Schedulers -> [verdict : TerminalFlow \union {"none"},
                                 flow : DOMAIN FlowMoves \union {"none"}, version : Nat]]
    /\ \A m \in Schedulers \ {n} : view'[m] = view[m]
    /\ pulse' \in {pulse, [pulse EXCEPT ![n] = "beat"]}
    /\ faults' \in 0..MaxFaults
    /\ UNCHANGED <<lease, todo, crashes>>

LEMMA Faults == FleetTypeOK /\ (Fault \/ NoFault) => faults' \in 0..MaxFaults
BY DEF FleetTypeOK, Fault, NoFault

LEMMA Verdicts == \A states : Verdict(states) \in TerminalFlow
BY DEF Verdict, TerminalFlow

(* A stage that writes nothing but the ledger and its own program counter. *)
LEMMA PlainHop ==
    ASSUME FleetTypeOK, NEW n \in Schedulers, NEW stage \in Stages \ {"idle"},
           pc[n] # "idle", Goto(n, stage), stage \in Holding => pc[n] \in Holding,
           faults' \in 0..MaxFaults, UNCHANGED <<lease, local, crashes>>
    PROVE  Hop(n)
BY DEF FleetTypeOK, Hop, Goto, local

LEMMA ViewHop ==
    ASSUME FleetTypeOK, NEW n \in Schedulers, NEW stage \in Stages \ (Holding \union {"idle"}),
           NEW v \in [verdict : TerminalFlow \union {"none"},
                      flow : DOMAIN FlowMoves \union {"none"}, version : Nat],
           pc[n] # "idle", ReadView(n, v, stage), Fault \/ NoFault
    PROVE  Hop(n)
BY Faults DEF FleetTypeOK, Hop, Goto, ReadView

LEMMA EveryDispatch ==
    ASSUME FleetSound, NEW n \in Schedulers, Dispatch(n)
    PROVE  Tick(n) \/ Acquire(n) \/ Hop(n) \/ Release(n) \/ Finish(n)
<1> USE DEF FleetSound, Sound
<1>s. /\ Stages \ {"idle"} = {"arm", "unroutable", "lease", "overBudget", "ensureRun", "assignFlow",
             "runFlow", "mark", "exec", "commit", "recordFailure", "release", "retry",
             "countSteps", "readFlow", "casFlow", "countFlows", "readRun", "casRun", "finish"}
      /\ AfterOutcome(n) \in {"retry", "countSteps"}
    BY DEF Stages, AfterOutcome
<1>v. /\ NoView \in [verdict : TerminalFlow \union {"none"},
                     flow : DOMAIN FlowMoves \union {"none"}, version : Nat]
      /\ view[n] \in [verdict : TerminalFlow \union {"none"},
                      flow : DOMAIN FlowMoves \union {"none"}, version : Nat]
    BY DEF NoView, FleetTypeOK
<1>1. CASE SelectArm(n)
  <2>1. CASE UNCHANGED job
    BY <1>1, <2>1, <1>s, Faults, PlainHop DEF SelectArm, Holding, local
  <2>2. ASSUME NEW arm \in Arms, job' = [job EXCEPT ![n].arm = arm] PROVE Hop(n)
    <3>1. /\ job' \in [Schedulers -> [step : Steps \union {NoStep}, arm : Arms \union {NoArm}]]
          /\ \A m \in Schedulers : job'[m].step = job[m].step
        BY <2>2 DEF FleetTypeOK
    <3>2. PICK stage \in {"unroutable", "lease", "finish"} : Goto(n, stage)
        BY <1>1 DEF SelectArm
    <3>3. Fault \/ NoFault
        BY <1>1 DEF SelectArm
    <3> QED BY <1>1, <1>s, <3>1, <3>2, <3>3, Faults DEF SelectArm, Hop, Goto, Holding, FleetTypeOK
  <2> QED BY <1>1, <2>1, <2>2 DEF SelectArm
<1>2. CASE Cancel(n)
    BY <1>2, <1>s, Faults, PlainHop DEF Cancel, Holding
<1>3. CASE LeaseMirror(n)
    BY <1>3, <1>s, Faults, PlainHop DEF LeaseMirror, Holding
<1>4. CASE EnsureRunRunning(n)
    BY <1>4, <1>s, Faults, PlainHop DEF EnsureRunRunning, Holding
<1>5. CASE AssignFlow(n)
    BY <1>5, <1>s, Faults, PlainHop DEF AssignFlow, Holding
<1>6. CASE RunFlow(n)
    BY <1>6, <1>s, Faults, PlainHop DEF RunFlow, Holding
<1>7. CASE MarkRunning(n)
  <2>1. PICK stage \in {"exec", "recordFailure", "finish"} : Goto(n, stage)
    BY <1>7 DEF MarkRunning
  <2>2. (Fault \/ NoFault) /\ pulse' \in {pulse, [pulse EXCEPT ![n] = "beat"]}
    BY <1>7 DEF MarkRunning
  <2>3. result' \in [Schedulers -> Results]
    BY <1>7 DEF MarkRunning, FleetTypeOK, Results
  <2> QED BY <1>7, <1>s, <2>1, <2>2, <2>3, Faults DEF MarkRunning, Hop, Goto, Holding, FleetTypeOK
<1>8. CASE Execute(n)
  <2>1. PICK stage \in {"commit", "recordFailure"} : Goto(n, stage)
    BY <1>8 DEF Execute
  <2>2. result' \in [Schedulers -> Results]
    BY <1>8 DEF Execute, FleetTypeOK, Results
  <2> QED BY <1>8, <1>s, <2>1, <2>2 DEF Execute, Hop, Goto, Holding, FleetTypeOK
<1>9. CASE CommitResult(n)
  <2>1. faults' \in 0..MaxFaults
    BY <1>9, Faults DEF CommitResult, FleetTypeOK
  <2>2. PICK stage \in {"release", "finish"} : Goto(n, stage)
    BY <1>9 DEF CommitResult
  <2> QED BY <1>9, <1>s, <2>1, <2>2, PlainHop DEF CommitResult, Holding
<1>10. CASE RecordFailure(n)
    BY <1>10, <1>s, Faults, PlainHop DEF RecordFailure, Holding
<1>11. CASE Retry(n)
    BY <1>11, <1>s, Faults, PlainHop DEF Retry, Holding
<1>c. ASSUME NEW states, NEW next \in {"readFlow", "readRun"}, pc[n] # "idle",
             Count(n, states, next) PROVE Hop(n)
  <2>1. [view[n] EXCEPT !.verdict = Verdict(states)]
            \in [verdict : TerminalFlow \union {"none"},
                 flow : DOMAIN FlowMoves \union {"none"}, version : Nat]
    BY <1>v, Verdicts
  <2> QED BY <1>c, <1>s, <1>v, <2>1, ViewHop DEF Count, Holding
<1>12. CASE CountStepsByFlow(n)
    BY <1>12, <1>c DEF CountStepsByFlow
<1>13. CASE CountFlowsByRun(n)
    BY <1>13, <1>c DEF CountFlowsByRun
<1>14. CASE ReadFlow(n)
  <2>1. flows[FlowOf(n)] \in DOMAIN FlowMoves
    BY <1>14, OpenRows DEF ReadFlow, Attached, FlowOf, Linked
  <2>2. [view[n] EXCEPT !.flow = flows[FlowOf(n)]]
            \in [verdict : TerminalFlow \union {"none"},
                 flow : DOMAIN FlowMoves \union {"none"}, version : Nat]
    BY <1>v, <2>1
  <2> QED BY <1>14, <1>s, <1>v, <2>2, ViewHop DEF ReadFlow, Holding
<1>15. CASE ReadRun(n)
  <2>1. runs[RunIdOf(n)].version \in Nat
    BY <1>15, OpenRows DEF ReadRun, Attached, RunIdOf, Linked, RunRow
  <2>2. [view[n] EXCEPT !.version = runs[RunIdOf(n)].version]
            \in [verdict : TerminalFlow \union {"none"},
                 flow : DOMAIN FlowMoves \union {"none"}, version : Nat]
    BY <1>v, <2>1
  <2> QED BY <1>15, <1>s, <1>v, <2>2, ViewHop DEF ReadRun, Holding
<1>16. CASE CasFlow(n)
    BY <1>16, <1>s, Faults, PlainHop DEF CasFlow, Holding
<1>17. CASE CasRun(n)
    BY <1>17, <1>s, Faults, PlainHop DEF CasRun, Holding
<1> QED
    BY <1>1, <1>2, <1>3, <1>4, <1>5, <1>6, <1>7, <1>8, <1>9, <1>10, <1>11, <1>12, <1>13, <1>14,
       <1>15, <1>16, <1>17 DEF Dispatch

(* The other steps leave the program counters and the rows read alone,     *)
(* except for a crash.                                                     *)
Still ==
    /\ UNCHANGED <<lease, pc, todo, job, result, view, faults, crashes>>
    /\ pulse' \in [Schedulers -> {"off", "beat", "renew"}]
    /\ \A n \in Schedulers : pulse'[n] # "off" => pulse[n] # "off"

LEMMA EveryStep ==
    ASSUME FleetTypeOK, [Next]_vars
    PROVE  \/ \E n \in Schedulers : Dispatch(n) \/ Crash(n)
           \/ \E s \in Steps : LeaseExpires(s)
           \/ Still
<1>1. ASSUME NEW n \in Schedulers, Keepalive(n) \/ RenewMirror(n) \/ ExpiryScan(n) PROVE Still
    BY <1>1 DEF Keepalive, RenewMirror, ExpiryScan, Still, FleetTypeOK, local
<1>2. ASSUME NEW s \in Steps, Submit(s) \/ MirrorExpires(s) PROVE Still
    BY <1>2 DEF Submit, MirrorExpires, Still, FleetTypeOK, local
<1>3. ASSUME NEW r, NEW to, TransitionRun(r, to) PROVE Still
    BY <1>3 DEF TransitionRun, Still, FleetTypeOK, local
<1>4. CASE UNCHANGED vars
    BY <1>4 DEF vars, Still, FleetTypeOK
<1> QED BY <1>1, <1>2, <1>3, <1>4 DEF Next, Environment

-----------------------------------------------------------------------------
LEMMA FleetSoundInit == Init => FleetSound
<1> SUFFICES ASSUME Init PROVE FleetSound
    OBVIOUS
<1>1. Sound
    BY FleetInit, InitSound
<1>2. FleetTypeOK
    BY DEF Init, FleetTypeOK, NoJob, NoView, Stages, Results
<1>3. Attached
    BY DEF Init, Attached
<1> QED BY <1>1, <1>2, <1>3 DEF FleetSound

LEMMA FleetSoundNext == FleetSound /\ [Next]_vars => FleetSound'
<1> SUFFICES ASSUME FleetSound, [Next]_vars PROVE FleetTypeOK' /\ Attached'
    BY LedgerStep, NextSound DEF FleetSound
<1> USE DEF FleetSound
<1>o. OpenSteps \subseteq OpenSteps' /\ OpenSteps \subseteq Steps
    BY LedgerStep, RowsStay DEF OpenSteps
<1>1. ASSUME NEW n \in Schedulers, Tick(n) PROVE FleetTypeOK' /\ Attached'
  <2>1. \A s \in Pending : s \in OpenSteps /\ steps[s].arm \in Arms \union {NoArm}
    BY OpenRows DEF Pending, Sound, StepRow
  <2> DEFINE oldest == {x \in Pending : Cardinality({y \in Pending : y < x}) < BatchSize}
             rows == {[step |-> s, arm |-> steps[s].arm] : s \in oldest}
  <2>r. todo' = [todo EXCEPT ![n] = rows]
    BY <1>1 DEF Tick
  <2>2. rows \in SUBSET [step : OpenSteps, arm : Arms \union {NoArm}]
    <3>1. oldest \subseteq Pending
        OBVIOUS
    <3>2. \A s \in oldest : [step |-> s, arm |-> steps[s].arm]
                                \in [step : OpenSteps, arm : Arms \union {NoArm}]
        BY <2>1, <3>1
    <3> HIDE DEF oldest
    <3> QED BY <3>2
  <2> HIDE DEF rows
  <2>t. todo' \in [Schedulers -> SUBSET [step : Steps, arm : Arms \union {NoArm}]]
    BY <1>o, <2>r, <2>2 DEF FleetTypeOK
  <2>3. FleetTypeOK'
    BY <1>1, <2>t DEF Tick, FleetTypeOK
  <2>4. \A m \in Schedulers : \A j \in todo'[m] : j.step \in OpenSteps
    BY <2>r, <2>2 DEF Attached, FleetTypeOK
  <2>5. Attached'
    BY <1>1, <1>o, <2>4 DEF Tick, Attached, Step
  <2> QED BY <2>3, <2>5
<1>2. ASSUME NEW n \in Schedulers, Acquire(n) PROVE FleetTypeOK' /\ Attached'
  <2>1. PICK j \in todo[n] :
            /\ todo' = [todo EXCEPT ![n] = @ \ {j}]
            /\ \/ /\ lease' = [lease EXCEPT ![j.step] = n]
                  /\ job' = [job EXCEPT ![n] = j]
                  /\ Goto(n, IF j.arm = NoArm THEN "arm" ELSE "lease")
               \/ /\ lease' = lease \/ lease' = [lease EXCEPT ![j.step] = Orphan]
                  /\ UNCHANGED <<job, pc>>
    BY <1>2 DEF Acquire
  <2>f. faults' \in 0..MaxFaults
    BY <1>2, Faults DEF Acquire
  <2>2. /\ j \in [step : Steps, arm : Arms \union {NoArm}]
        /\ j.step \in OpenSteps
    BY DEF FleetTypeOK, Attached
  <2>t. todo' \in [Schedulers -> SUBSET [step : Steps, arm : Arms \union {NoArm}]]
    BY <2>1 DEF FleetTypeOK
  <2>l. lease' \in [Steps -> Schedulers \union {Free, Orphan}]
    BY <2>1 DEF FleetTypeOK
  <2>j. job' \in [Schedulers -> [step : Steps \union {NoStep}, arm : Arms \union {NoArm}]]
    BY <2>1, <2>2 DEF FleetTypeOK
  <2>p. pc' \in [Schedulers -> Stages]
    BY <2>1 DEF FleetTypeOK, Goto, Stages
  <2>3. FleetTypeOK'
    BY <1>2, <2>t, <2>l, <2>j, <2>p, <2>f DEF Acquire, FleetTypeOK
  <2>4. \A m \in Schedulers : todo'[m] \subseteq todo[m]
    BY <2>1 DEF FleetTypeOK
  <2>5. \A m \in Schedulers : pc'[m] # "idle" => job'[m].step \in OpenSteps
    BY <2>1, <2>2 DEF Attached, FleetTypeOK, Goto, Step
  <2>6. \A m \in Schedulers : pulse'[m] # "off" => pc'[m] # "idle"
    BY <1>2, <2>1 DEF Acquire, Attached, FleetTypeOK, Goto
  <2>7. Attached'
    BY <1>o, <2>4, <2>5, <2>6 DEF Attached, Step
  <2> QED BY <2>3, <2>7
<1>3. ASSUME NEW n \in Schedulers, Hop(n) PROVE FleetTypeOK' /\ Attached'
  <2>p. PICK stage \in Stages \ {"idle"} : pc' = [pc EXCEPT ![n] = stage]
    BY <1>3 DEF Hop
  <2>b. pulse' \in [Schedulers -> {"off", "beat", "renew"}]
    BY <1>3 DEF Hop, FleetTypeOK
  <2>1. FleetTypeOK'
    BY <1>3, <2>p, <2>b DEF Hop, FleetTypeOK
  <2>2. \A m \in Schedulers : pc'[m] # "idle" => job'[m].step \in OpenSteps
    BY <1>3 DEF Hop, Attached, FleetTypeOK, Step
  <2>3. \A m \in Schedulers : pulse'[m] # "off" => pc'[m] # "idle"
    BY <1>3 DEF Hop, Attached, FleetTypeOK
  <2>4. Attached'
    BY <1>3, <1>o, <2>2, <2>3 DEF Hop, Attached, Step
  <2> QED BY <2>1, <2>4
<1>4. ASSUME NEW n \in Schedulers, Release(n) PROVE FleetTypeOK' /\ Attached'
  <2>1. AfterOutcome(n) \in {"retry", "countSteps"}
    BY DEF AfterOutcome
  <2>l. lease' \in [Steps -> Schedulers \union {Free, Orphan}]
    BY <1>4 DEF Release, FleetTypeOK, UnlockedBy
  <2>p. pc' \in [Schedulers -> Stages]
    BY <1>4, <2>1 DEF Release, FleetTypeOK, Goto, Stages
  <2>u. UNCHANGED <<todo, job, result, view, pulse, crashes>> /\ faults' \in 0..MaxFaults
    BY <1>4, Faults DEF Release, local
  <2>2. FleetTypeOK'
    BY <2>l, <2>p, <2>u DEF FleetTypeOK
  <2>3. Attached'
    BY <1>4, <1>o, <2>1 DEF Release, Attached, FleetTypeOK, Goto, Step, local
  <2> QED BY <2>2, <2>3
<1>5. ASSUME NEW n \in Schedulers, Finish(n) \/ Crash(n) PROVE FleetTypeOK' /\ Attached'
  <2>u. /\ UnlockedBy(n) \in [Steps -> Schedulers \union {Free, Orphan}]
        /\ AbandonedBy(n) \in [Steps -> Schedulers \union {Free, Orphan}]
    BY DEF FleetTypeOK, UnlockedBy, AbandonedBy
  <2>f. Finish(n) => lease' \in [Steps -> Schedulers \union {Free, Orphan}]
    BY <2>u DEF Finish
  <2>k. Crash(n) => lease' \in [Steps -> Schedulers \union {Free, Orphan}]
    BY DEF Crash, FleetTypeOK
  <2>l. lease' \in [Steps -> Schedulers \union {Free, Orphan}]
    BY <1>5, <2>f, <2>k
  <2>t. todo' \in [Schedulers -> SUBSET [step : Steps, arm : Arms \union {NoArm}]]
    BY <1>5 DEF Finish, Crash, FleetTypeOK
  <2>j. job' \in [Schedulers -> [step : Steps \union {NoStep}, arm : Arms \union {NoArm}]]
    BY <1>5 DEF Finish, Crash, FleetTypeOK, NoJob
  <2>n. NoView \in [verdict : TerminalFlow \union {"none"},
                    flow : DOMAIN FlowMoves \union {"none"}, version : Nat]
    BY DEF NoView
  <2>v. view' \in [Schedulers -> [verdict : TerminalFlow \union {"none"},
                                  flow : DOMAIN FlowMoves \union {"none"}, version : Nat]]
    BY <1>5, <2>n DEF Finish, Crash, FleetTypeOK
  <2>p. /\ pc' \in [Schedulers -> Stages]
        /\ result' \in [Schedulers -> Results]
        /\ pulse' \in [Schedulers -> {"off", "beat", "renew"}]
    BY <1>5 DEF Finish, Crash, FleetTypeOK, Goto, Stages, Results
  <2>c. faults' \in 0..MaxFaults /\ crashes' \in 0..MaxCrashes
    BY <1>5, Faults DEF Finish, Crash, FleetTypeOK
  <2>1. FleetTypeOK'
    BY <2>l, <2>t, <2>j, <2>v, <2>p, <2>c DEF FleetTypeOK
  <2>2. Attached'
    BY <1>5, <1>o DEF Finish, Crash, Attached, FleetTypeOK, Goto, Step
  <2> QED BY <2>1, <2>2
<1>6. ASSUME NEW s \in Steps, LeaseExpires(s) PROVE FleetTypeOK' /\ Attached'
    BY <1>6, <1>o DEF LeaseExpires, FleetTypeOK, Attached, Step, local
<1>7. CASE Still
    BY <1>7, <1>o DEF Still, FleetTypeOK, Attached, Step
<1> QED BY <1>1, <1>2, <1>3, <1>4, <1>5, <1>6, <1>7, EveryStep, EveryDispatch

LEMMA AlwaysFleetSound == Spec => []FleetSound
BY FleetSoundInit, FleetSoundNext, PTL DEF Spec

(* The fleet is a client of the ledger: whatever schedulers, clients and   *)
(* operators do, and wherever they crash, every change of a table is one   *)
(* of its transactions, so every theorem about the ledger holds of it.     *)
THEOREM ImplementsLedger == Spec => LedgerSpec
BY FleetInit, LedgerStep, AlwaysFleetSound, PTL DEF Spec, LedgerSpec

(* Every row and every local variable of every scheduler keeps its type.   *)
THEOREM FleetTypeCorrect == Spec => []TypeOK
BY AlwaysFleetSound, PTL DEF FleetSound, Sound, TypeOK

-----------------------------------------------------------------------------
(* A lease that is renewed is that of the step its holder is dispatching.  *)
Tended == \A s \in Steps : lease[s] \in Schedulers => Step(lease[s]) = s /\ pc[lease[s]] # "idle"

(* On no path does dispatchStep return with its lease renewed or its       *)
(* keepalive running, also where Release fails: what it leaves in that     *)
(* case is a key that runs out.                                            *)
THEOREM LeasesNotLeaked == Spec => []NoLeakedLease
<1>1. Init => Tended
    BY DEF Init, Tended
<1>2. FleetSound /\ Tended /\ [Next]_vars => Tended'
  <2> SUFFICES ASSUME FleetSound, Tended, [Next]_vars PROVE Tended'
    OBVIOUS
  <2> USE DEF FleetSound, Tended
  <2>1. ASSUME NEW n \in Schedulers, Tick(n) PROVE Tended'
    BY <2>1 DEF Tick, Step
  <2>2. ASSUME NEW n \in Schedulers, Acquire(n) PROVE Tended'
    <3>1. PICK j \in todo[n] :
              \/ /\ lease[j.step] = Free
                 /\ lease' = [lease EXCEPT ![j.step] = n]
                 /\ job' = [job EXCEPT ![n] = j]
                 /\ pc[n] = "idle" /\ \E stage \in Stages \ {"idle"} : Goto(n, stage)
              \/ /\ lease' = lease \/ lease' = [lease EXCEPT ![j.step] = Orphan]
                 /\ UNCHANGED <<job, pc>>
        BY <2>2 DEF Acquire, Stages
    <3>2. j.step \in Steps
        BY DEF FleetTypeOK
    <3>3. CASE /\ lease[j.step] = Free
               /\ lease' = [lease EXCEPT ![j.step] = n]
               /\ job' = [job EXCEPT ![n] = j]
               /\ pc[n] = "idle" /\ \E stage \in Stages \ {"idle"} : Goto(n, stage)
      <4>1. job' = [job EXCEPT ![n] = j] /\ pc'[n] # "idle"
            /\ \A m \in Schedulers \ {n} : pc'[m] = pc[m]
        BY <3>3 DEF FleetTypeOK, Goto
      <4>2. lease'[j.step] = n /\ \A s \in Steps \ {j.step} : lease'[s] = lease[s]
        BY <3>2, <3>3 DEF FleetTypeOK
      <4>3. job'[n].step = j.step /\ \A m \in Schedulers \ {n} : job'[m] = job[m]
        BY <4>1 DEF FleetTypeOK
      <4>4. \A s \in Steps : lease[s] # n
        BY <3>3 DEF Step
      <4> QED BY <4>1, <4>2, <4>3, <4>4 DEF Step
    <3>4. CASE /\ lease' = lease \/ lease' = [lease EXCEPT ![j.step] = Orphan]
               /\ UNCHANGED <<job, pc>>
      <4>1. \A s \in Steps : lease'[s] = lease[s] \/ lease'[s] = Orphan
        BY <3>2, <3>4 DEF FleetTypeOK
      <4> QED BY <3>4, <4>1, SchedulerAssumption DEF Step
    <3> QED BY <3>1, <3>3, <3>4
  <2>3. ASSUME NEW n \in Schedulers, Hop(n) PROVE Tended'
    BY <2>3 DEF Hop, FleetTypeOK, Step
  <2>4. ASSUME NEW n \in Schedulers, Release(n) PROVE Tended'
    BY <2>4 DEF Release, AfterOutcome, UnlockedBy, FleetTypeOK, Goto, Step, local
  <2>5. ASSUME NEW n \in Schedulers, Finish(n) PROVE Tended'
    <3>1. \A s \in Steps : lease'[s] \in Schedulers => lease[s] = lease'[s] /\ (lease[s] = n => Step(n) # s)
        BY <2>5 DEF Finish, UnlockedBy, AbandonedBy, FleetTypeOK
    <3> QED BY <2>5, <3>1 DEF Finish, FleetTypeOK, Goto, Step
  <2>6. ASSUME NEW n \in Schedulers, Crash(n) PROVE Tended'
    BY <2>6 DEF Crash, FleetTypeOK, Step
  <2>7. ASSUME NEW s \in Steps, LeaseExpires(s) PROVE Tended'
    BY <2>7 DEF LeaseExpires, FleetTypeOK, Step, local
  <2>8. CASE Still
    BY <2>8 DEF Still, Step
  <2> QED BY <2>1, <2>2, <2>3, <2>4, <2>5, <2>6, <2>7, <2>8, EveryStep, EveryDispatch
<1>3. FleetSound /\ Tended => NoLeakedLease
    BY DEF FleetSound, Attached, Tended, NoLeakedLease
<1> QED BY <1>1, <1>2, <1>3, AlwaysFleetSound, PTL DEF Spec

-----------------------------------------------------------------------------
(* From here on leases are kept: only a crash or its holder ends a lease.  *)

(* From Acquire to the release, the lease of the step is the scheduler's.  *)
Held == \A n \in Schedulers : pc[n] \in Holding => lease[Step(n)] = n

LEMMA AlwaysHeld == ASSUME LeaseLoss = FALSE PROVE Spec => []Held
<1>1. Init => Held
    BY DEF Init, Held, Holding
<1>2. FleetSound /\ Held /\ [Next]_vars => Held'
  <2> SUFFICES ASSUME FleetSound, Held, [Next]_vars PROVE Held'
    OBVIOUS
  <2> USE DEF FleetSound, Held
  <2>1. ASSUME NEW n \in Schedulers, Tick(n) PROVE Held'
    BY <2>1 DEF Tick, Step
  <2>2. ASSUME NEW n \in Schedulers, Acquire(n) PROVE Held'
    <3>1. PICK j \in todo[n] :
              \/ /\ lease[j.step] = Free
                 /\ lease' = [lease EXCEPT ![j.step] = n]
                 /\ job' = [job EXCEPT ![n] = j]
                 /\ \E stage \in Stages : Goto(n, stage)
              \/ UNCHANGED <<lease, job, pc>>
              \/ /\ lease[j.step] = Free /\ lease' = [lease EXCEPT ![j.step] = Orphan]
                 /\ UNCHANGED <<job, pc>>
        BY <2>2 DEF Acquire, Stages
    <3>2. j.step \in Steps
        BY DEF FleetTypeOK
    <3>3. CASE UNCHANGED <<lease, job, pc>>
        BY <3>3 DEF Step
    <3>4. CASE lease[j.step] = Free /\ lease' = [lease EXCEPT ![j.step] = n]
                /\ job' = [job EXCEPT ![n] = j] /\ \E stage \in Stages : Goto(n, stage)
        BY <3>2, <3>4 DEF FleetTypeOK, Goto, Step
    <3>5. CASE lease[j.step] = Free /\ lease' = [lease EXCEPT ![j.step] = Orphan]
                /\ UNCHANGED <<job, pc>>
        BY <3>2, <3>5 DEF FleetTypeOK, Step
    <3> QED BY <3>1, <3>3, <3>4, <3>5
  <2>3. ASSUME NEW n \in Schedulers, Hop(n) PROVE Held'
    BY <2>3 DEF Hop, FleetTypeOK, Step
  <2>4. ASSUME NEW n \in Schedulers, Release(n) PROVE Held'
    <3>1. AfterOutcome(n) \notin Holding
        BY DEF AfterOutcome, Holding
    <3>2. Step(n) \in Steps
        BY <2>4 DEF Release, Attached, OpenSteps
    <3>3. \A s \in Steps : lease'[s] = lease[s] \/ lease[s] = n
        BY <2>4 DEF Release, UnlockedBy, FleetTypeOK
    <3>4. \A m \in Schedulers : pc'[m] \in Holding => m # n /\ pc'[m] = pc[m] /\ Step(m) \in Steps
        BY <2>4, <3>1 DEF Release, FleetTypeOK, Goto, Attached, Holding, OpenSteps
    <3> QED BY <2>4, <3>3, <3>4 DEF Release, Step, local
  <2>5. ASSUME NEW n \in Schedulers, Finish(n) PROVE Held'
    <3>1. Step(n) \in Steps
        BY <2>5 DEF Finish, Attached, OpenSteps
    <3>3. \A s \in Steps : lease'[s] = lease[s] \/ lease[s] = n
        BY <2>5 DEF Finish, UnlockedBy, AbandonedBy, FleetTypeOK
    <3>4. \A m \in Schedulers : pc'[m] \in Holding =>
              m # n /\ pc'[m] = pc[m] /\ job'[m] = job[m] /\ Step(m) \in Steps
        BY <2>5 DEF Finish, FleetTypeOK, Goto, Attached, Holding, OpenSteps
    <3>5. ASSUME NEW m \in Schedulers, pc'[m] \in Holding PROVE lease'[Step(m)'] = m
      <4>1. /\ m # n /\ pc[m] \in Holding /\ job'[m] = job[m] /\ Step(m) \in Steps
        BY <3>4, <3>5
      <4>2. Step(m)' = Step(m)
        BY <4>1 DEF Step
      <4>3. lease[Step(m)] = m
        BY <4>1
      <4> QED BY <3>3, <4>1, <4>2, <4>3
    <3> QED BY <3>5
  <2>6. ASSUME NEW n \in Schedulers, Crash(n) PROVE Held'
    <3>1. \A m \in Schedulers : pc[m] \in Holding => Step(m) \in Steps
        BY DEF Attached, OpenSteps, Holding
    <3> QED BY <2>6, <3>1 DEF Crash, FleetTypeOK, Step, Holding
  <2>7. ASSUME NEW s \in Steps, LeaseExpires(s) PROVE Held'
    <3>1. lease[s] = Orphan /\ lease' = [lease EXCEPT ![s] = Free]
        BY <2>7, LeaseLoss = FALSE DEF LeaseExpires
    <3> QED BY <2>7, <3>1 DEF LeaseExpires, FleetTypeOK, Step, local
  <2>8. CASE Still
    BY <2>8 DEF Still, Step
  <2> QED BY <2>1, <2>2, <2>3, <2>4, <2>5, <2>6, <2>7, <2>8, EveryStep, EveryDispatch
<1> QED BY <1>1, <1>2, AlwaysFleetSound, PTL DEF Spec

(* While leases are kept no two schedulers execute, or record an outcome   *)
(* of, the same step, however stale the rows they have read and wherever   *)
(* they crash.                                                             *)
THEOREM OneExecutorPerStep ==
    ASSUME LeaseLoss = FALSE
    PROVE  Spec => []OneExecutor
<1>1. Held => OneExecutor
    BY DEF Held, OneExecutor, Executing, Holding
<1> QED BY <1>1, AlwaysHeld, PTL

(* lease.go's rule, which the code keeps as long as the lease is kept: an  *)
(* outcome is written only by the holder of the step's lease.              *)
THEOREM HolderCommits ==
    ASSUME LeaseLoss = FALSE
    PROVE  Spec => CommitByHolder
<1>1. Held => [\A n \in Schedulers :
                  pc[n] \in {"commit", "recordFailure"} /\ pc'[n] # pc[n] /\ steps' # steps
                      => lease[Step(n)] = n]_vars
    BY DEF Held, Holding
<1> QED BY <1>1, AlwaysHeld, PTL DEF CommitByHolder

-----------------------------------------------------------------------------
(* The stages from T1 to T2: the step has been leased and has no outcome.  *)
Dispatched == {"ensureRun", "assignFlow", "runFlow", "mark", "exec", "commit", "recordFailure"}

Unsettled == \A n \in Schedulers : pc[n] \in Dispatched => steps[Step(n)].state \notin TerminalStep

(* The row of a terminal step is left alone, and only the holder of the    *)
(* lease, on its way out of those stages, makes a step terminal.           *)
LEMMA OneOutcome ==
    ASSUME FleetSound, Unsettled, [Next]_vars, NEW q \in OpenSteps
    PROVE  /\ steps[q].state \in TerminalStep => steps'[q] = steps[q]
           /\ steps'[q].state \in TerminalStep =>
                 \/ steps[q].state \in TerminalStep
                 \/ \E n \in Schedulers : /\ Step(n) = q /\ pc[n] \in Holding
                                          /\ pc'[n] \notin Dispatched
<1> DEFINE Kept == steps[q].state \in TerminalStep => steps'[q] = steps[q]
           Ended == \E n \in Schedulers : /\ Step(n) = q /\ pc[n] \in Holding
                                          /\ pc'[n] \notin Dispatched
           Goal == Kept /\ (steps'[q].state \in TerminalStep =>
                                steps[q].state \in TerminalStep \/ Ended)
<1> SUFFICES Goal
    OBVIOUS
<1> USE DEF FleetSound, Sound
<1>q. q \in Steps /\ steps[q] \in StepRow
    BY OpenRows
<1>0. CASE UNCHANGED steps
    BY <1>0
<1>1. ASSUME NEW n \in Schedulers, SelectArm(n), ~UNCHANGED steps PROVE Goal
    BY <1>1, <1>q DEF SelectArm, UpdateStepArm, UnchangedLedger, Fault, LedgerTypeOK, StepRow,
                      TerminalStep
<1>2. ASSUME NEW n \in Schedulers, Cancel(n), ~UNCHANGED steps PROVE Goal
  <2>1. CancelStep(Step(n)) /\ pc[n] \in Holding /\ pc'[n] \notin Dispatched
    BY <1>2 DEF Cancel, UnchangedLedger, Fault, Goto, FleetTypeOK, Holding, Dispatched
  <2>2. CASE Step(n) = q
    <3>1. steps' = [steps EXCEPT ![q].state = "cancelled"]
        BY <2>1, <2>2 DEF CancelStep
    <3>2. steps[q].state \in TerminalStep => steps[q].state = "cancelled"
        BY <2>1, <2>2 DEF CancelStep, CanCancel, ValidStepMove, StepMoves, TerminalStep
    <3>3. Kept
        BY <1>q, <3>1, <3>2 DEF LedgerTypeOK, StepRow
    <3> QED BY <2>1, <2>2, <3>3
  <2>3. CASE Step(n) # q
    BY <1>q, <2>1, <2>3 DEF CancelStep, LedgerTypeOK
  <2> QED BY <2>2, <2>3
<1>3. ASSUME NEW n \in Schedulers, LeaseMirror(n) \/ MarkRunning(n), ~UNCHANGED steps PROVE Goal
  <2>1. \/ \E e \in Estimates : T1LeaseMirror(Step(n), e)
        \/ MarkStepRunning(Step(n))
    BY <1>3 DEF LeaseMirror, MarkRunning, UnchangedLedger, Fault
  <2>2. steps[Step(n)].state \notin TerminalStep
    <3>1. \A s, to : to \in {"leased", "running"} /\ steps[s].state \in TerminalStep
                        => ~ValidStepMove(steps[s].state, to)
        BY DEF ValidStepMove, StepMoves, TerminalStep
    <3> QED BY <2>1, <3>1 DEF T1LeaseMirror, CanLease, MarkStepRunning, CanRun
  <2>3. CASE Step(n) = q
    BY <1>q, <2>1, <2>2, <2>3 DEF T1LeaseMirror, MarkStepRunning, LedgerTypeOK, StepRow,
                                  TerminalStep
  <2>4. CASE Step(n) # q
    BY <1>q, <2>1, <2>4 DEF T1LeaseMirror, MarkStepRunning, LedgerTypeOK
  <2> QED BY <2>3, <2>4
<1>4. ASSUME NEW n \in Schedulers, CommitResult(n) \/ RecordFailure(n), ~UNCHANGED steps PROVE Goal
  <2>1. PICK final, t, c, effects : T2StepComplete(Step(n), final, t, c, effects)
    BY <1>4 DEF CommitResult, RecordFailure, UnchangedLedger, Fault
  <2>2. pc[n] \in {"commit", "recordFailure"} /\ pc'[n] \notin Dispatched
    BY <1>4 DEF CommitResult, RecordFailure, AfterOutcome, Goto, FleetTypeOK, Dispatched
  <2>3. CASE Step(n) = q
    BY <2>2, <2>3 DEF Unsettled, Dispatched, Holding
  <2>4. CASE Step(n) # q
    BY <1>q, <2>1, <2>4 DEF T2StepComplete, LedgerTypeOK
  <2> QED BY <2>3, <2>4
<1>5. ASSUME NEW n \in Schedulers, Retry(n), ~UNCHANGED steps PROVE Goal
  <2>1. PICK s \in Unused : InsertRetryStep(Step(n), job[n].arm, s)
    BY <1>5 DEF Retry, UnchangedLedger, Fault
  <2> QED BY <1>q, <2>1 DEF InsertRetryStep, LedgerTypeOK
<1>6. ASSUME NEW s, T3LeaseRenewal(s) \/ MirrorLapses(s) PROVE Goal
    BY <1>6, <1>q DEF T3LeaseRenewal, MirrorLapses, LedgerTypeOK, StepRow, TerminalStep
<1>7. ASSUME T4ExpiryBackupScanner PROVE Goal
  <2>1. CASE q \in Expired
    <3>1. steps'[q].state = "pending" /\ steps[q].state \in {"leased", "running"}
        BY <1>7, <1>q, <2>1, StepBackToPool DEF T4ExpiryBackupScanner, Expired
    <3> QED BY <3>1 DEF TerminalStep
  <2>2. CASE q \notin Expired
    BY <1>7, <1>q, <2>2 DEF T4ExpiryBackupScanner
  <2> QED BY <2>1, <2>2
<1>8. ASSUME NEW s \in Late, Submit(s) PROVE Goal
    BY <1>8, <1>q DEF Submit, AddStep, LedgerTypeOK
<1>9. ASSUME NEW n \in Schedulers, Dispatch(n) PROVE Goal
  <2>1. \/ Tick(n) \/ Acquire(n) \/ EnsureRunRunning(n) \/ AssignFlow(n) \/ RunFlow(n) \/ Execute(n)
        \/ Release(n) \/ CountStepsByFlow(n) \/ CountFlowsByRun(n) \/ ReadFlow(n) \/ ReadRun(n)
        \/ CasFlow(n) \/ CasRun(n) \/ Finish(n)
        => UNCHANGED steps
    BY DEF Tick, Acquire, EnsureRunRunning, AssignFlow, RunFlow, UpdateRunState, UpdateFlowState,
           UnchangedLedger, Fault, Execute, Release, CountStepsByFlow, CountFlowsByRun, Count,
           ReadView, ReadFlow, ReadRun, CasFlow, CasRun, Finish
  <2> QED BY <1>0, <1>1, <1>2, <1>3, <1>4, <1>5, <1>9, <2>1 DEF Dispatch
<1>10. ASSUME NEW n \in Schedulers, Keepalive(n) \/ RenewMirror(n) \/ ExpiryScan(n) PROVE Goal
    BY <1>0, <1>6, <1>7, <1>10 DEF Keepalive, RenewMirror, ExpiryScan, UnchangedLedger, Fault
<1>11. CASE Environment
  <2>1. ASSUME NEW r \in Runs, NEW to, TransitionRun(r, to) PROVE UNCHANGED steps
    BY <2>1 DEF TransitionRun, UpdateRunState
  <2>2. ASSUME NEW s, LeaseExpires(s) PROVE UNCHANGED steps
    BY <2>2 DEF LeaseExpires
  <2>3. ASSUME NEW s, MirrorExpires(s) PROVE MirrorLapses(s)
    BY <2>3 DEF MirrorExpires
  <2>4. ASSUME NEW n, Crash(n) PROVE UNCHANGED steps
    BY <2>4 DEF Crash
  <2> QED BY <1>0, <1>6, <1>8, <1>11, <2>1, <2>2, <2>3, <2>4 DEF Environment
<1> QED BY <1>0, <1>9, <1>10, <1>11 DEF Next, vars

LEMMA EntersByT1 ==
    ASSUME FleetSound, [Next]_vars, NEW n \in Schedulers, pc'[n] \in Dispatched
    PROVE  /\ Step(n)' = Step(n)
           /\ pc[n] \in Dispatched \/ LeaseMirror(n)
<1> USE DEF FleetSound
<1>1. pc'[n] \in Stages \ {"idle"} /\ pc'[n] \notin {"arm", "lease", "retry", "countSteps"}
    BY DEF Dispatched, Stages
<1>2. ASSUME NEW m \in Schedulers, Dispatch(m), m # n
      PROVE  Step(n)' = Step(n) /\ pc'[n] = pc[n]
  <2>1. Tick(m) \/ Acquire(m) \/ Hop(m) \/ Release(m) \/ Finish(m)
    BY <1>2, EveryDispatch
  <2> QED BY <1>2, <2>1 DEF Tick, Acquire, Hop, Release, Finish, Goto, Step, FleetTypeOK, local
<1>3. CASE Dispatch(n)
  <2>1. Step(n)' = Step(n)
    BY <1>1, <1>3, EveryDispatch
       DEF Tick, Acquire, Hop, Release, Finish, Goto, Step, FleetTypeOK, local, AfterOutcome, Dispatched
  <2>2. pc[n] \in Dispatched \/ LeaseMirror(n)
    BY <1>1, <1>3
       DEF Dispatch, Tick, Acquire, SelectArm, Cancel, EnsureRunRunning, AssignFlow, RunFlow,
           MarkRunning, Execute, CommitResult, RecordFailure, Release, Retry, CountStepsByFlow,
           CountFlowsByRun, Count, ReadView, ReadFlow, ReadRun, CasFlow, CasRun, Finish, Goto,
           AfterOutcome, FleetTypeOK, Dispatched
  <2> QED BY <2>1, <2>2
<1>4. ASSUME NEW m \in Schedulers, Crash(m) PROVE Step(n)' = Step(n) /\ pc'[n] = pc[n]
    BY <1>1, <1>4 DEF Crash, Step, FleetTypeOK
<1>5. ASSUME NEW s \in Steps, LeaseExpires(s) PROVE Step(n)' = Step(n) /\ pc'[n] = pc[n]
    BY <1>5 DEF LeaseExpires, Step, local
<1>6. CASE Still
    BY <1>6 DEF Still, Step
<1> QED BY <1>2, <1>3, <1>4, <1>5, <1>6, EveryStep

LEMMA AlwaysUnsettled == ASSUME LeaseLoss = FALSE PROVE Spec => []Unsettled
<1>1. Init => Unsettled
    BY DEF Init, Unsettled, Dispatched
<1>2. FleetSound /\ Held /\ Unsettled /\ [Next]_vars => Unsettled'
  <2> SUFFICES ASSUME FleetSound, Held, Unsettled, [Next]_vars,
                      NEW n \in Schedulers, pc'[n] \in Dispatched
               PROVE  steps'[Step(n)].state \notin TerminalStep
    BY EntersByT1 DEF Unsettled
  <2> DEFINE q == Step(n)
  <2>1. CASE LeaseMirror(n)
    <3>1. PICK e \in Estimates : T1LeaseMirror(q, e)
        BY <2>1 DEF LeaseMirror, Goto, FleetSound, FleetTypeOK, Dispatched
    <3>2. q \in Steps /\ steps[q] \in StepRow
        BY <3>1, OpenRows DEF T1LeaseMirror, CanLease, OpenSteps, FleetSound, Sound
    <3> QED BY <3>1, <3>2 DEF T1LeaseMirror, FleetSound, Sound, LedgerTypeOK, StepRow, TerminalStep
  <2>2. CASE pc[n] \in Dispatched
    <3>1. q \in OpenSteps /\ steps[q].state \notin TerminalStep /\ lease[q] = n
        BY <2>2 DEF FleetSound, Attached, Unsettled, Held, Dispatched, Holding
    <3>2. \A m \in Schedulers : Step(m) = q /\ pc[m] \in Holding => m = n
        BY <3>1 DEF Held
    <3> QED BY <3>1, <3>2, OneOutcome
  <2> QED BY <2>1, <2>2, EntersByT1
<1> QED BY <1>1, <1>2, AlwaysFleetSound, AlwaysHeld, PTL DEF Spec

(* An outcome is recorded once: while leases are kept nothing writes to    *)
(* the row of a step that has ended, no second T2, retry, stale dispatch,  *)
(* late renewal or expiry scan.                                            *)
THEOREM OutcomesFrozen ==
    ASSUME LeaseLoss = FALSE
    PROVE  Spec => OutcomeFrozen
<1>1. FleetSound /\ Unsettled /\ [Next]_vars
          => [\A s \in OpenSteps : steps[s].state \in TerminalStep => steps'[s] = steps[s]]_vars
    BY OneOutcome
<1> QED BY <1>1, AlwaysFleetSound, AlwaysUnsettled, PTL DEF Spec, OutcomeFrozen

-----------------------------------------------------------------------------
(* The verdicts.  The finalizer of a parent counts its children, then      *)
(* reads the parent, then swaps its state, in three calls.  Between them   *)
(* the count stays true, because what it counted is terminal.              *)

AllFlowsOpen == OpenFlows = Flows

LEMMA AlwaysAllFlowsOpen == Spec => []AllFlowsOpen
<1>1. Init => AllFlowsOpen
    BY DEF Init, AllFlowsOpen, OpenFlows
<1>2. FleetSound /\ AllFlowsOpen /\ [Next]_vars => AllFlowsOpen'
    BY LedgerStep, FlowsStay DEF FleetSound, AllFlowsOpen, OpenFlows
<1> QED BY <1>1, <1>2, AlwaysFleetSound, PTL DEF Spec

LEMMA FlowStatesStay ==
    ASSUME FleetSound, AllFlowsOpen, [Next]_vars, NEW r, AllTerminal(FlowStates(r))
    PROVE  FlowStates(r)' = FlowStates(r)
<1>1. OpenFlows = Flows /\ OpenFlows' = Flows
    BY LedgerStep, FlowsStay DEF FleetSound, AllFlowsOpen, OpenFlows
<1>2. \A f \in Flows : RunOf[f] = r => flows'[f] = flows[f]
  <2> SUFFICES ASSUME NEW f \in Flows, RunOf[f] = r PROVE flows'[f] = flows[f]
    OBVIOUS
  <2>1. flows[f] \in TerminalStep /\ flows[f] \in DOMAIN FlowMoves
    BY <1>1, OpenRows DEF AllTerminal, FlowStates, FleetSound, Sound
  <2>2. flows[f] \in TerminalFlow
    BY <2>1, StateNames DEF TerminalStep, TerminalFlow
  <2> QED BY <2>2, LedgerStep, KeepsTerminal DEF FleetSound, TerminalKept
<1> QED BY <1>1, <1>2 DEF FlowStates

(* Between the count and the swap a scheduler moves on with what it read.  *)
LEMMA Finalizing ==
    ASSUME FleetSound, [Next]_vars, NEW n \in Schedulers,
           pc'[n] \in {"readFlow", "casFlow", "readRun", "casRun"}
    PROVE  /\ Step(n)' = Step(n) /\ Step(n) \in OpenSteps
           /\ \/ pc'[n] = pc[n] /\ view'[n] = view[n]
              \/ /\ pc[n] = "countSteps" /\ pc'[n] = "readFlow"
                 /\ AllTerminal(LeafStates(FlowOf(n)))
                 /\ view'[n].verdict = Verdict(LeafStates(FlowOf(n)))
                 /\ UNCHANGED ledgerVars
              \/ /\ pc[n] = "countFlows" /\ pc'[n] = "readRun"
                 /\ AllTerminal(FlowStates(RunIdOf(n)))
                 /\ view'[n].verdict = Verdict(FlowStates(RunIdOf(n)))
                 /\ UNCHANGED ledgerVars
              \/ /\ pc[n] = "readFlow" /\ pc'[n] = "casFlow"
                 /\ view'[n].verdict = view[n].verdict
              \/ /\ pc[n] = "readRun" /\ pc'[n] = "casRun"
                 /\ view'[n].verdict = view[n].verdict
<1> DEFINE Goal == \/ pc'[n] = pc[n] /\ view'[n] = view[n]
                   \/ /\ pc[n] = "countSteps" /\ pc'[n] = "readFlow"
                      /\ AllTerminal(LeafStates(FlowOf(n)))
                      /\ view'[n].verdict = Verdict(LeafStates(FlowOf(n)))
                      /\ UNCHANGED ledgerVars
                   \/ /\ pc[n] = "countFlows" /\ pc'[n] = "readRun"
                      /\ AllTerminal(FlowStates(RunIdOf(n)))
                      /\ view'[n].verdict = Verdict(FlowStates(RunIdOf(n)))
                      /\ UNCHANGED ledgerVars
                   \/ /\ pc[n] = "readFlow" /\ pc'[n] = "casFlow"
                      /\ view'[n].verdict = view[n].verdict
                   \/ /\ pc[n] = "readRun" /\ pc'[n] = "casRun"
                      /\ view'[n].verdict = view[n].verdict
           Same == Step(n)' = Step(n) /\ pc'[n] = pc[n] /\ view'[n] = view[n]
<1> USE DEF FleetSound
<1>1. ASSUME NEW m \in Schedulers, Dispatch(m), m # n PROVE Same
  <2>1. Tick(m) \/ Acquire(m) \/ Hop(m) \/ Release(m) \/ Finish(m)
    BY <1>1, EveryDispatch
  <2> QED BY <1>1, <2>1 DEF Tick, Acquire, Hop, Release, Finish, Goto, Step, FleetTypeOK, local
<1>2. ASSUME Dispatch(n) PROVE Step(n)' = Step(n) /\ Goal
  <2>1. CASE Tick(n)
    BY <2>1 DEF Tick, Step
  <2>2. CASE Acquire(n)
    BY <2>2 DEF Acquire, Goto, Step, FleetTypeOK
  <2>3. CASE Hop(n)
    <3>1. Step(n)' = Step(n)
        BY <2>3 DEF Hop, Step
    <3>2. ~Tick(n) /\ ~Acquire(n) /\ ~Finish(n)
        BY <2>3 DEF Hop, Tick, Acquire, Finish, Goto, FleetTypeOK
    <3>a. CASE SelectArm(n) \/ Cancel(n) \/ LeaseMirror(n) \/ EnsureRunRunning(n) \/ AssignFlow(n)
               \/ RunFlow(n) \/ MarkRunning(n) \/ Execute(n)
        BY <3>a DEF SelectArm, Cancel, LeaseMirror, EnsureRunRunning, AssignFlow, RunFlow,
                    MarkRunning, Execute, Goto, FleetTypeOK
    <3>b. CASE CommitResult(n) \/ RecordFailure(n) \/ Release(n) \/ Retry(n)
        BY <3>b DEF CommitResult, RecordFailure, Release, Retry, AfterOutcome, Goto, FleetTypeOK
    <3>c. CASE CountStepsByFlow(n)
        BY <3>1, <3>c DEF CountStepsByFlow, Count, ReadView, Goto, FleetTypeOK, UnchangedLedger,
                          ledgerVars
    <3>d. CASE CountFlowsByRun(n)
        BY <3>1, <3>d DEF CountFlowsByRun, Count, ReadView, Goto, FleetTypeOK, UnchangedLedger,
                          ledgerVars
    <3>e. CASE ReadFlow(n)
        BY <3>1, <3>e DEF ReadFlow, ReadView, Goto, FleetTypeOK
    <3>f. CASE ReadRun(n)
        BY <3>1, <3>f DEF ReadRun, ReadView, Goto, FleetTypeOK
    <3>g. CASE CasFlow(n) \/ CasRun(n)
        BY <3>g DEF CasFlow, CasRun, Goto, FleetTypeOK
    <3> QED BY <1>2, <3>1, <3>2, <3>a, <3>b, <3>c, <3>d, <3>e, <3>f, <3>g DEF Dispatch
  <2>4. CASE Release(n) \/ Finish(n)
    BY <2>4 DEF Release, Finish, AfterOutcome, Goto, FleetTypeOK
  <2> QED BY <1>2, <2>1, <2>2, <2>3, <2>4, EveryDispatch
<1>3. ASSUME NEW m \in Schedulers, Crash(m) PROVE Same
    BY <1>3 DEF Crash, Step, FleetTypeOK
<1>4. ASSUME NEW s \in Steps, LeaseExpires(s) PROVE Same
    BY <1>4 DEF LeaseExpires, Step, local
<1>5. ASSUME Still PROVE Same
    BY <1>5 DEF Still, Step
<1>6. Step(n)' = Step(n) /\ Goal
    BY <1>1, <1>2, <1>3, <1>4, <1>5, EveryStep
<1>7. Step(n) \in OpenSteps
    BY <1>6 DEF Attached
<1> QED BY <1>6, <1>7

(* Only the swaps of the finalizers end a flow or, operators aside, a run. *)
LEMMA EndsFlow ==
    ASSUME FleetSound, [Next]_vars, NEW f \in Flows,
           flows[f] \notin TerminalFlow, flows'[f] \in TerminalFlow
    PROVE  \E n \in Schedulers : /\ pc[n] = "casFlow" /\ FlowOf(n) = f
                                 /\ flows'[f] = view[n].verdict /\ UNCHANGED <<steps, runs>>
<1> USE DEF FleetSound, Sound
<1>0. ~UNCHANGED flows
    OBVIOUS
<1>1. ASSUME NEW n \in Schedulers, AssignFlow(n) \/ RunFlow(n) PROVE FALSE
    BY <1>1 DEF AssignFlow, RunFlow, UpdateFlowState, UnchangedLedger, Fault, TerminalFlow,
                LedgerTypeOK
<1>2. ASSUME NEW n \in Schedulers, CasFlow(n)
      PROVE  /\ pc[n] = "casFlow" /\ FlowOf(n) = f
             /\ flows'[f] = view[n].verdict /\ UNCHANGED <<steps, runs>>
    BY <1>0, <1>2 DEF CasFlow, UpdateFlowState, UnchangedLedger, Fault, LedgerTypeOK
<1>3. ASSUME NEW n \in Schedulers, LeaseMirror(n) \/ CommitResult(n) \/ RecordFailure(n)
      PROVE  UNCHANGED flows
    BY <1>3 DEF LeaseMirror, CommitResult, RecordFailure, T1LeaseMirror, T2StepComplete,
                UnchangedLedger, Fault
<1>4. ASSUME NEW n \in Schedulers,
             SelectArm(n) \/ Cancel(n) \/ EnsureRunRunning(n) \/ MarkRunning(n) \/ Retry(n)
                 \/ CasRun(n) \/ RenewMirror(n) \/ ExpiryScan(n)
      PROVE  UNCHANGED flows
    BY <1>4 DEF SelectArm, Cancel, EnsureRunRunning, MarkRunning, Retry, CasRun, RenewMirror,
                ExpiryScan, UnchangedLedger, Fault, UpdateRunState, UpdateStepArm, CancelStep,
                MarkStepRunning, T3LeaseRenewal, T4ExpiryBackupScanner, InsertRetryStep
<1>5. ASSUME Environment PROVE UNCHANGED flows
    BY <1>5 DEF Environment, Submit, AddStep, TransitionRun, UpdateRunState, LeaseExpires,
                MirrorExpires, MirrorLapses, Crash
<1>6. ASSUME NEW n \in Schedulers,
             Tick(n) \/ Acquire(n) \/ Execute(n) \/ Release(n) \/ CountStepsByFlow(n)
                 \/ CountFlowsByRun(n) \/ ReadFlow(n) \/ ReadRun(n) \/ Finish(n) \/ Keepalive(n)
      PROVE  UNCHANGED flows
    BY <1>6 DEF Tick, Acquire, Execute, Release, CountStepsByFlow, CountFlowsByRun, Count,
                ReadView, ReadFlow, ReadRun, Finish, Keepalive, UnchangedLedger, Fault
<1> QED
    BY <1>0, <1>1, <1>2, <1>3, <1>4, <1>5, <1>6 DEF Next, Dispatch, vars

LEMMA EndsRun ==
    ASSUME OperatorMoves = {}, FleetSound, [Next]_vars, NEW r \in Runs,
           runs[r].state \notin TerminalRun, runs'[r].state \in TerminalRun
    PROVE  \E n \in Schedulers : /\ pc[n] = "casRun" /\ RunIdOf(n) = r
                                 /\ runs'[r].state = view[n].verdict /\ UNCHANGED <<steps, flows>>
<1> USE DEF FleetSound, Sound
<1>0. ~UNCHANGED runs
    OBVIOUS
<1>s. ASSUME NEW s \in OpenSteps PROVE steps[s].run \in OpenRuns /\ runs[steps[s].run] \in RunRow
    BY OpenRows DEF Linked
<1>1. ASSUME NEW n \in Schedulers, EnsureRunRunning(n) PROVE FALSE
  <2>1. RunIdOf(n) \in OpenRuns /\ runs[RunIdOf(n)] \in RunRow
    BY <1>1, <1>s DEF EnsureRunRunning, Attached, RunIdOf
  <2> QED BY <1>0, <1>1, <2>1 DEF EnsureRunRunning, UpdateRunState, UnchangedLedger, Fault,
                                  TerminalRun, LedgerTypeOK, RunRow
<1>2. ASSUME NEW n \in Schedulers, CasRun(n)
      PROVE  /\ pc[n] = "casRun" /\ RunIdOf(n) = r
             /\ runs'[r].state = view[n].verdict /\ UNCHANGED <<steps, flows>>
  <2>1. pc[n] = "casRun" /\ UpdateRunState(RunIdOf(n), view[n].verdict)
    BY <1>0, <1>2 DEF CasRun, UnchangedLedger, Fault
  <2>2. RunIdOf(n) \in OpenRuns /\ runs[RunIdOf(n)] \in RunRow
    BY <2>1, <1>s DEF Attached, RunIdOf
  <2> QED BY <2>1, <2>2 DEF UpdateRunState, LedgerTypeOK, RunRow
<1>3. ASSUME NEW n \in Schedulers, LeaseMirror(n) \/ CommitResult(n) \/ RecordFailure(n)
      PROVE  runs'[r].state = runs[r].state
  <2>1. CASE \E s, e : T1LeaseMirror(s, e)
    <3>1. PICK s, e : T1LeaseMirror(s, e)
        BY <2>1
    <3> QED BY <1>s, <3>1 DEF T1LeaseMirror, CanLease, LedgerTypeOK, RunRow
  <2>2. CASE \E s, final, t, c, effects : T2StepComplete(s, final, t, c, effects)
    <3>1. PICK s, final, t, c, effects : T2StepComplete(s, final, t, c, effects)
        BY <2>2
    <3> QED BY <1>s, <3>1 DEF T2StepComplete, CanComplete, LedgerTypeOK, RunRow
  <2> QED BY <1>0, <1>3, <2>1, <2>2 DEF LeaseMirror, CommitResult, RecordFailure, UnchangedLedger, Fault
<1>4. ASSUME NEW n \in Schedulers,
             SelectArm(n) \/ Cancel(n) \/ AssignFlow(n) \/ RunFlow(n) \/ MarkRunning(n)
                 \/ Retry(n) \/ CasFlow(n) \/ RenewMirror(n) \/ ExpiryScan(n)
      PROVE  UNCHANGED runs
    BY <1>4 DEF SelectArm, Cancel, AssignFlow, RunFlow, MarkRunning, Retry, CasFlow, RenewMirror,
                ExpiryScan, UnchangedLedger, Fault, UpdateFlowState, UpdateStepArm, CancelStep,
                MarkStepRunning, T3LeaseRenewal, T4ExpiryBackupScanner, InsertRetryStep
<1>5. ASSUME Environment PROVE UNCHANGED runs
    BY <1>5, OperatorMoves = {}
       DEF Environment, Submit, AddStep, LeaseExpires, MirrorExpires, MirrorLapses, Crash
<1>6. ASSUME NEW n \in Schedulers,
             Tick(n) \/ Acquire(n) \/ Execute(n) \/ Release(n) \/ CountStepsByFlow(n)
                 \/ CountFlowsByRun(n) \/ ReadFlow(n) \/ ReadRun(n) \/ Finish(n) \/ Keepalive(n)
      PROVE  UNCHANGED runs
    BY <1>6 DEF Tick, Acquire, Execute, Release, CountStepsByFlow, CountFlowsByRun, Count,
                ReadView, ReadFlow, ReadRun, Finish, Keepalive, UnchangedLedger, Fault
<1> QED
    BY <1>0, <1>1, <1>2, <1>3, <1>4, <1>5, <1>6 DEF Next, Dispatch, vars

RunCountStands ==
    \A n \in Schedulers : pc[n] \in {"readRun", "casRun"} =>
        /\ AllTerminal(FlowStates(RunIdOf(n)))
        /\ view[n].verdict = Verdict(FlowStates(RunIdOf(n)))

(* The verdict of a run, which any number of schedulers may try to write   *)
(* after counting at different times, is that of its flows, for good:      *)
(* whatever leases are lost, retries enqueued and schedulers crashed.      *)
THEOREM RunVerdictsStand ==
    ASSUME OperatorMoves = {}
    PROVE  Spec => []RunVerdictStands
<1>1. Init => RunCountStands /\ RunVerdictStands
    BY DEF Init, RunCountStands, RunVerdictStands, PendingRun, TerminalRun, OpenRuns
<1>2. FleetSound /\ AllFlowsOpen /\ RunCountStands /\ [Next]_vars => RunCountStands'
  <2> SUFFICES ASSUME FleetSound, AllFlowsOpen, RunCountStands, [Next]_vars,
                      NEW n \in Schedulers, pc'[n] \in {"readRun", "casRun"}
               PROVE  /\ AllTerminal(FlowStates(RunIdOf(n)))'
                      /\ view'[n].verdict = Verdict(FlowStates(RunIdOf(n)))'
    BY DEF RunCountStands
  <2> DEFINE r == RunIdOf(n)
  <2>1. r' = r
    BY Finalizing, LedgerStep, RowsStay DEF RunIdOf, SameChain, FleetSound, Step
  <2>2. AllTerminal(FlowStates(r)) /\ view'[n].verdict = Verdict(FlowStates(r))
    BY Finalizing DEF RunCountStands
  <2>3. PICK k : k = r
    OBVIOUS
  <2>4. FlowStates(k)' = FlowStates(k)
    BY <2>2, <2>3, FlowStatesStay
  <2>5. FlowStates(r)' = FlowStates(r)
    BY <2>1, <2>3, <2>4 DEF FlowStates
  <2> QED BY <2>2, <2>5 DEF AllTerminal, Verdict
<1>3. FleetSound /\ AllFlowsOpen /\ RunCountStands /\ RunVerdictStands /\ [Next]_vars
          => RunVerdictStands'
  <2> SUFFICES ASSUME FleetSound, AllFlowsOpen, RunCountStands, RunVerdictStands, [Next]_vars,
                      NEW r \in Runs, runs'[r].state \in TerminalRun
               PROVE  AllTerminal(FlowStates(r)') /\ runs'[r].state = Verdict(FlowStates(r)')
    BY DEF RunVerdictStands, OpenRuns, AllTerminal, Verdict
  <2>1. AllTerminal(FlowStates(r)) /\ runs'[r].state = Verdict(FlowStates(r))
    <3>1. CASE runs[r].state \in TerminalRun
        BY <3>1, LedgerStep, KeepsTerminal
           DEF FleetSound, TerminalKept, RunVerdictStands, OpenRuns, TerminalRun
    <3>2. CASE runs[r].state \notin TerminalRun
        BY <3>2, EndsRun, OperatorMoves = {} DEF RunCountStands
    <3> QED BY <3>1, <3>2
  <2> QED BY <2>1, FlowStatesStay
<1> QED BY <1>1, <1>2, <1>3, AlwaysFleetSound, AlwaysAllFlowsOpen, PTL DEF Spec

-----------------------------------------------------------------------------
(* Retries.  From here on T3 is in time and no call of the ledger fails:   *)
(* completeFailed drops its error, and the retry that follows it would     *)
(* otherwise be one of a step that has not failed.                         *)

(* From T1 to T2 nobody but its holder moves the row.                      *)
InHand ==
    \A n \in Schedulers : pc[n] \in Dispatched =>
        /\ steps[Step(n)].mirror = "live"
        /\ steps[Step(n)].state = IF pc[n] \in Executing THEN "running" ELSE "leased"

(* A scheduler knows no result before the executor, or the refusal, is in. *)
Unresolved == Stages \ {"commit", "recordFailure", "release", "retry", "countSteps", "readFlow",
                        "casFlow", "countFlows", "readRun", "casRun", "finish"}
Unanswered == \A n \in Schedulers : pc[n] \in Unresolved => result[n] = "none"

(* On the way from a failure to its retry, also after the lease is gone.   *)
Retrying(n) == pc[n] = "retry" \/ (pc[n] = "release" /\ result[n] \in {"failed", "error"})

(* The step has failed, nobody has retried it, and nobody else will.       *)
RetryDue ==
    /\ \A n \in Schedulers :
          Retrying(n) => steps[Step(n)].state = "failed" /\ ~Superseded(Step(n))
    /\ \A m, n \in Schedulers : Retrying(m) /\ Retrying(n) /\ Step(m) = Step(n) => m = n

(* What the calls of a scheduler leave of the local state of another.      *)
LEMMA OthersStand ==
    ASSUME FleetSound, NEW m \in Schedulers, NEW n \in Schedulers, m # n, Dispatch(m)
    PROVE  pc'[n] = pc[n] /\ result'[n] = result[n] /\ Step(n)' = Step(n)
<1> USE DEF FleetSound
<1>1. Tick(m) \/ Acquire(m) \/ Hop(m) \/ Release(m) \/ Finish(m)
    BY EveryDispatch
<1>2. pc'[n] = pc[n] /\ Step(n)' = Step(n)
    BY <1>1 DEF Tick, Acquire, Hop, Release, Finish, Goto, Step, FleetTypeOK, local
<1>3. \/ UNCHANGED result
      \/ result' = [result EXCEPT ![m] = "refused"]
      \/ \E res : result' = [result EXCEPT ![m] = res]
    BY DEF Dispatch, Tick, Acquire, SelectArm, Cancel, LeaseMirror, EnsureRunRunning, AssignFlow,
           RunFlow, MarkRunning, Execute, CommitResult, RecordFailure, Release, Retry,
           CountStepsByFlow, CountFlowsByRun, Count, ReadView, ReadFlow, ReadRun, CasFlow, CasRun,
           Finish, local
<1>4. result'[n] = result[n]
    BY <1>3 DEF FleetTypeOK
<1> QED BY <1>2, <1>4

(* Whoever is where it was has not been dispatching.                       *)
LEMMA Bystander ==
    ASSUME FleetSound, [Next]_vars, NEW n \in Schedulers, ~Dispatch(n), pc'[n] # "idle"
    PROVE  pc'[n] = pc[n] /\ result'[n] = result[n] /\ Step(n)' = Step(n)
<1>1. ASSUME NEW m \in Schedulers, Crash(m)
      PROVE  pc'[n] = pc[n] /\ result'[n] = result[n] /\ Step(n)' = Step(n)
    BY <1>1 DEF Crash, Step, FleetSound, FleetTypeOK
<1>2. ASSUME NEW s \in Steps, LeaseExpires(s)
      PROVE  pc'[n] = pc[n] /\ result'[n] = result[n] /\ Step(n)' = Step(n)
    BY <1>2 DEF LeaseExpires, Step, local
<1>3. CASE Still
    BY <1>3 DEF Still, Step
<1> QED BY <1>1, <1>2, <1>3, OthersStand, EveryStep DEF FleetSound

LEMMA AlwaysUnanswered == Spec => []Unanswered
<1>1. Init => Unanswered
    BY DEF Init, Unanswered
<1>2. FleetSound /\ Unanswered /\ [Next]_vars => Unanswered'
  <2> SUFFICES ASSUME FleetSound, Unanswered, [Next]_vars,
                      NEW n \in Schedulers, pc'[n] \in Unresolved
               PROVE  result'[n] = "none"
    BY DEF Unanswered
  <2>t. pc \in [Schedulers -> Stages] /\ result \in [Schedulers -> Results]
    BY DEF FleetSound, FleetTypeOK
  <2>1. CASE Dispatch(n)
    <3>a. CASE Tick(n) \/ Acquire(n) \/ SelectArm(n) \/ Cancel(n) \/ LeaseMirror(n)
                 \/ EnsureRunRunning(n) \/ AssignFlow(n) \/ RunFlow(n)
        BY <3>a, <2>t DEF Tick, Acquire, SelectArm, Cancel, LeaseMirror, EnsureRunRunning,
             AssignFlow, RunFlow, Goto, Unanswered, Unresolved, Stages, local
    <3>b. CASE MarkRunning(n)
        BY <3>b, <2>t DEF MarkRunning, Goto, Unanswered, Unresolved, Stages
    <3>c. CASE Execute(n) \/ CommitResult(n) \/ RecordFailure(n) \/ Release(n) \/ Retry(n)
        BY <3>c, <2>t DEF Execute, CommitResult, RecordFailure, Release, Retry, AfterOutcome, Goto,
             Unresolved
    <3>d. CASE CountStepsByFlow(n) \/ CountFlowsByRun(n) \/ ReadFlow(n) \/ ReadRun(n) \/ CasFlow(n)
                 \/ CasRun(n)
        BY <3>d, <2>t DEF CountStepsByFlow, CountFlowsByRun, Count, ReadView, ReadFlow, ReadRun,
             CasFlow, CasRun, Goto, Unresolved
    <3>e. CASE Finish(n)
        BY <3>e, <2>t DEF Finish
    <3> QED BY <2>1, <3>a, <3>b, <3>c, <3>d, <3>e DEF Dispatch
  <2>2. CASE Crash(n)
    BY <2>2, <2>t DEF Crash
  <2>3. ASSUME NEW m \in Schedulers, Dispatch(m), m # n PROVE result'[n] = "none"
    BY <2>3, OthersStand DEF Unanswered
  <2>4. ASSUME NEW m \in Schedulers, Crash(m), m # n PROVE result'[n] = "none"
    BY <2>4, <2>t DEF Crash, Unanswered
  <2>5. ASSUME NEW s \in Steps, LeaseExpires(s) PROVE result'[n] = "none"
    BY <2>5 DEF LeaseExpires, local, Unanswered
  <2>6. CASE Still
    BY <2>6 DEF Still, Unanswered
  <2> QED BY <2>1, <2>2, <2>3, <2>4, <2>5, <2>6, EveryStep DEF FleetSound
<1> QED BY <1>1, <1>2, AlwaysFleetSound, PTL DEF Spec

-----------------------------------------------------------------------------
(* The calls of others leave the row in hand alone, but for its expiry,    *)
(* which they can only renew.                                              *)
LEMMA RowInHand ==
    ASSUME MirrorLoss = FALSE, FleetSound, Held, InHand, [Next]_vars,
           NEW n \in Schedulers, pc[n] \in Dispatched, ~Dispatch(n)
    PROVE  /\ steps'[Step(n)].state = steps[Step(n)].state
           /\ steps'[Step(n)].mirror = "live"
<1> DEFINE q == Step(n)
           Goal == steps'[q].state = steps[q].state /\ steps'[q].mirror = "live"
<1> USE DEF FleetSound, Sound
<1>q. /\ q \in OpenSteps /\ q \in Steps /\ steps[q] \in StepRow
      /\ steps[q].mirror = "live" /\ lease[q] = n
    BY OpenRows DEF Attached, Dispatched, InHand, Held, Holding
<1> HIDE DEF q
<1>0. UNCHANGED steps => Goal
    BY <1>q
<1>1. ASSUME NEW m \in Schedulers, m # n, pc[m] \in Holding PROVE Step(m) # q
    BY <1>1, <1>q DEF Held
<1>2. ASSUME NEW m \in Schedulers, m # n, Dispatch(m) PROVE Goal
  <2>a. CASE SelectArm(m) /\ ~UNCHANGED steps
    <3>1. Step(m) # q
        BY <1>1, <1>2, <2>a DEF SelectArm, Holding
    <3> QED BY <2>a, <3>1, <1>q DEF SelectArm, UpdateStepArm, UnchangedLedger, Fault, LedgerTypeOK
  <2>b. CASE (Cancel(m) \/ LeaseMirror(m) \/ MarkRunning(m)) /\ ~UNCHANGED steps
    <3>1. Step(m) # q
        BY <1>1, <1>2, <2>b DEF Cancel, LeaseMirror, MarkRunning, Holding
    <3>2. \/ CancelStep(Step(m)) \/ MarkStepRunning(Step(m))
          \/ \E e \in Estimates : T1LeaseMirror(Step(m), e)
        BY <2>b DEF Cancel, LeaseMirror, MarkRunning, UnchangedLedger, Fault
    <3> QED BY <3>1, <3>2, <1>q DEF CancelStep, MarkStepRunning, T1LeaseMirror, LedgerTypeOK
  <2>c. CASE (CommitResult(m) \/ RecordFailure(m)) /\ ~UNCHANGED steps
    <3>1. Step(m) # q
        BY <1>1, <1>2, <2>c DEF CommitResult, RecordFailure, Holding
    <3>2. PICK final, t, c, effects : T2StepComplete(Step(m), final, t, c, effects)
        BY <2>c DEF CommitResult, RecordFailure, UnchangedLedger, Fault
    <3> QED BY <3>1, <3>2, <1>q DEF T2StepComplete, LedgerTypeOK
  <2>d. CASE Retry(m) /\ ~UNCHANGED steps
    <3>1. PICK s \in Unused : InsertRetryStep(Step(m), job[m].arm, s)
        BY <2>d DEF Retry, UnchangedLedger, Fault
    <3> QED BY <3>1, <1>q DEF InsertRetryStep, LedgerTypeOK
  <2>e. \/ Tick(m) \/ Acquire(m) \/ EnsureRunRunning(m) \/ AssignFlow(m) \/ RunFlow(m) \/ Execute(m)
        \/ Release(m) \/ CountStepsByFlow(m) \/ CountFlowsByRun(m) \/ ReadFlow(m) \/ ReadRun(m)
        \/ CasFlow(m) \/ CasRun(m) \/ Finish(m)
        => UNCHANGED steps
    BY DEF Tick, Acquire, EnsureRunRunning, AssignFlow, RunFlow, UpdateRunState, UpdateFlowState,
           UnchangedLedger, Fault, Execute, Release, CountStepsByFlow, CountFlowsByRun, Count,
           ReadView, ReadFlow, ReadRun, CasFlow, CasRun, Finish
  <2> QED BY <1>0, <1>2, <2>a, <2>b, <2>c, <2>d, <2>e DEF Dispatch
<1>3. ASSUME NEW s, T3LeaseRenewal(s) PROVE Goal
    BY <1>3, <1>q DEF T3LeaseRenewal, LedgerTypeOK, StepRow
<1>4. ASSUME T4ExpiryBackupScanner PROVE Goal
    BY <1>4, <1>q DEF T4ExpiryBackupScanner, Expired
<1>5. ASSUME NEW m \in Schedulers, Keepalive(m) \/ RenewMirror(m) \/ ExpiryScan(m) PROVE Goal
    BY <1>0, <1>3, <1>4, <1>5 DEF Keepalive, RenewMirror, ExpiryScan, UnchangedLedger, Fault
<1>6. ASSUME NEW s \in Late, Submit(s) PROVE Goal
    BY <1>6, <1>q DEF Submit, AddStep, LedgerTypeOK
<1>7. ASSUME NEW s \in Steps, MirrorExpires(s) PROVE Goal
  <2>1. Backed(q)
    BY <1>q DEF Backed, Dispatched
  <2>2. s # q
    BY <1>7, <2>1, MirrorLoss = FALSE DEF MirrorExpires
  <2> QED BY <1>7, <1>q, <2>2 DEF MirrorExpires, MirrorLapses, LedgerTypeOK
<1>8. ASSUME NEW r \in Runs, NEW to, TransitionRun(r, to) PROVE Goal
    BY <1>0, <1>8 DEF TransitionRun, UpdateRunState
<1>9. ASSUME NEW s, LeaseExpires(s) PROVE Goal
    BY <1>0, <1>9 DEF LeaseExpires
<1>10. ASSUME NEW m, Crash(m) PROVE Goal
    BY <1>0, <1>10 DEF Crash
<1> HIDE DEF Goal, FleetSound, Sound
<1>11. Environment => Goal
    BY <1>6, <1>7, <1>8, <1>9, <1>10 DEF Environment
<1>12. UNCHANGED vars => Goal
    BY <1>0 DEF vars
<1>13. Goal
    BY <1>2, <1>5, <1>11, <1>12 DEF Next
<1> QED BY <1>13 DEF Goal, q

LEMMA AlwaysInHand ==
    ASSUME LeaseLoss = FALSE, MirrorLoss = FALSE
    PROVE  Spec => []InHand
<1>1. Init => InHand
    BY DEF Init, InHand, Dispatched
<1>2. FleetSound /\ Held /\ InHand /\ [Next]_vars => InHand'
  <2> SUFFICES ASSUME FleetSound, Held, InHand, [Next]_vars,
                      NEW n \in Schedulers, pc'[n] \in Dispatched
               PROVE  /\ steps'[Step(n)].mirror = "live"
                      /\ steps'[Step(n)].state = IF pc'[n] \in Executing THEN "running" ELSE "leased"
    BY EntersByT1 DEF InHand, Executing, Dispatched
  <2> DEFINE q == Step(n)
  <2>t. pc \in [Schedulers -> Stages] /\ steps \in [Steps -> StepRow \union {NoRow}]
    BY DEF FleetSound, FleetTypeOK, Sound, LedgerTypeOK
  <2>1. CASE LeaseMirror(n)
    <3>1. (\E e \in Estimates : T1LeaseMirror(q, e)) /\ pc'[n] = "ensureRun"
        BY <2>1, <2>t DEF LeaseMirror, Goto, Dispatched
    <3>2. q \in Steps /\ steps[q] \in StepRow
        BY <3>1, OpenRows DEF T1LeaseMirror, CanLease, OpenSteps, FleetSound, Sound
    <3>3. steps'[q].state = "leased" /\ steps'[q].mirror = "live"
        BY <3>1, <3>2, <2>t DEF T1LeaseMirror, StepRow
    <3> QED BY <3>1, <3>3 DEF Executing
  <2>2. CASE pc[n] \in Dispatched /\ ~Dispatch(n)
    <3>1. pc'[n] = pc[n]
        BY <2>2, Bystander DEF Dispatched
    <3> QED BY <2>2, <3>1, RowInHand, MirrorLoss = FALSE DEF InHand
  <2>3. CASE pc[n] \in Dispatched /\ Dispatch(n)
    <3>q. /\ q \in Steps /\ steps[q] \in StepRow /\ steps[q].mirror = "live"
          /\ steps[q].state = IF pc[n] \in Executing THEN "running" ELSE "leased"
        BY <2>3, OpenRows DEF FleetSound, Sound, Attached, Dispatched, InHand
    <3>1. \/ EnsureRunRunning(n) \/ AssignFlow(n) \/ RunFlow(n) \/ MarkRunning(n) \/ Execute(n)
          \/ CommitResult(n) \/ RecordFailure(n)
        BY <2>3 DEF Dispatch, Dispatched, Tick, Acquire, SelectArm, Cancel, LeaseMirror, Release,
             Retry, CountStepsByFlow, CountFlowsByRun, ReadFlow, ReadRun, CasFlow, CasRun, Finish
    <3>2. CASE EnsureRunRunning(n) \/ AssignFlow(n) \/ RunFlow(n)
      <4>1. UNCHANGED steps
        BY <3>2 DEF EnsureRunRunning, AssignFlow, RunFlow, UpdateRunState, UpdateFlowState,
                    UnchangedLedger, Fault
      <4>2. pc[n] \notin Executing /\ pc'[n] \notin Executing
        BY <3>2, <2>t DEF EnsureRunRunning, AssignFlow, RunFlow, Goto, Executing
      <4> QED BY <3>q, <4>1, <4>2
    <3>3. CASE MarkRunning(n)
      <4>1. MarkStepRunning(q) /\ pc'[n] \in Executing
        BY <3>3, <2>t DEF MarkRunning, Goto, Executing, Dispatched
      <4>2. steps'[q].state = "running" /\ steps'[q].mirror = "live"
        BY <4>1, <3>q, <2>t DEF MarkStepRunning, StepRow
      <4> QED BY <4>1, <4>2
    <3>4. CASE Execute(n)
      <4>1. UNCHANGED steps /\ pc[n] \in Executing /\ pc'[n] \in Executing
        BY <3>4, <2>t DEF Execute, Goto, Executing
      <4> QED BY <3>q, <4>1
    <3>5. CASE CommitResult(n) \/ RecordFailure(n)
        BY <3>5, <2>t DEF CommitResult, RecordFailure, AfterOutcome, Goto, Dispatched
    <3> QED BY <3>1, <3>2, <3>3, <3>4, <3>5
  <2> QED BY <2>1, <2>2, <2>3, EntersByT1
<1> QED BY <1>1, <1>2, AlwaysFleetSound, AlwaysHeld, PTL DEF Spec

-----------------------------------------------------------------------------
(* The row of a retry is the only row written when it is inserted.         *)
LEMMA RetryRow ==
    ASSUME FleetSound, [Next]_vars, NEW c \in Steps, c \notin OpenSteps, c \in OpenSteps',
           steps'[c].retryOf # NoStep
    PROVE  \E n \in Schedulers : /\ pc[n] = "retry" /\ pc'[n] = "finish"
                                 /\ steps'[c].retryOf = Step(n)
                                 /\ steps'[c].flow = steps[Step(n)].flow
                                 /\ \A d \in Steps \ {c} : steps'[d] = steps[d]
<1> USE DEF FleetSound, Sound
<1>c. steps[c].state = "absent" /\ steps'[c].state # "absent" /\ steps'[c] # steps[c]
    BY DEF OpenSteps
<1>0. ~UNCHANGED steps
    BY <1>c
<1>1. ASSUME NEW n \in Schedulers, SelectArm(n) PROVE FALSE
    BY <1>0, <1>1, <1>c DEF SelectArm, UpdateStepArm, UnchangedLedger, Fault, LedgerTypeOK
<1>2. ASSUME NEW n \in Schedulers, Cancel(n) \/ LeaseMirror(n) \/ MarkRunning(n) PROVE FALSE
  <2>1. \/ CancelStep(Step(n)) \/ MarkStepRunning(Step(n))
        \/ \E e \in Estimates : T1LeaseMirror(Step(n), e)
    BY <1>0, <1>2 DEF Cancel, LeaseMirror, MarkRunning, UnchangedLedger, Fault
  <2>2. Step(n) \in OpenSteps /\ Step(n) # c
    BY <2>1 DEF CancelStep, CanCancel, MarkStepRunning, CanRun, T1LeaseMirror, CanLease
  <2> QED BY <2>1, <2>2, <1>c DEF CancelStep, MarkStepRunning, T1LeaseMirror, LedgerTypeOK
<1>3. ASSUME NEW n \in Schedulers, CommitResult(n) \/ RecordFailure(n) PROVE FALSE
  <2>1. PICK final, t, d, effects : T2StepComplete(Step(n), final, t, d, effects)
    BY <1>0, <1>3 DEF CommitResult, RecordFailure, UnchangedLedger, Fault
  <2>2. Step(n) # c
    BY <2>1 DEF T2StepComplete, CanComplete
  <2> QED BY <2>1, <2>2, <1>c DEF T2StepComplete, LedgerTypeOK
<1>4. ASSUME NEW s, T3LeaseRenewal(s) \/ MirrorLapses(s) PROVE FALSE
    BY <1>4, <1>c DEF T3LeaseRenewal, MirrorLapses, LedgerTypeOK
<1>5. ASSUME T4ExpiryBackupScanner PROVE FALSE
    BY <1>5, <1>c DEF T4ExpiryBackupScanner, Expired
<1>6. ASSUME NEW n \in Schedulers,
             EnsureRunRunning(n) \/ AssignFlow(n) \/ RunFlow(n) \/ CasFlow(n) \/ CasRun(n)
      PROVE  FALSE
    BY <1>0, <1>6 DEF EnsureRunRunning, AssignFlow, RunFlow, CasFlow, CasRun, UpdateRunState,
                UpdateFlowState, UnchangedLedger, Fault
<1>7. ASSUME NEW n \in Schedulers,
             Tick(n) \/ Acquire(n) \/ Execute(n) \/ Release(n) \/ CountStepsByFlow(n)
                 \/ CountFlowsByRun(n) \/ ReadFlow(n) \/ ReadRun(n) \/ Finish(n) \/ Keepalive(n)
      PROVE  FALSE
    BY <1>0, <1>7 DEF Tick, Acquire, Execute, Release, CountStepsByFlow, CountFlowsByRun, Count,
                ReadView, ReadFlow, ReadRun, Finish, Keepalive, UnchangedLedger, Fault
<1>8. ASSUME NEW n \in Schedulers, RenewMirror(n) \/ ExpiryScan(n) PROVE FALSE
    BY <1>0, <1>4, <1>5, <1>8 DEF RenewMirror, ExpiryScan, UnchangedLedger
<1>9. ASSUME NEW s \in Late, Submit(s) PROVE FALSE
    BY <1>9, <1>c DEF Submit, AddStep, PendingStep, LedgerTypeOK
<1>10. ASSUME NEW s, LeaseExpires(s) \/ MirrorExpires(s) PROVE FALSE
    BY <1>0, <1>4, <1>10 DEF LeaseExpires, MirrorExpires
<1>11. ASSUME NEW r, NEW to, TransitionRun(r, to) PROVE FALSE
    BY <1>0, <1>11 DEF TransitionRun, UpdateRunState
<1>12. ASSUME NEW n, Crash(n) PROVE FALSE
    BY <1>0, <1>12 DEF Crash
<1>13. PICK n \in Schedulers : Retry(n)
    BY <1>0, <1>1, <1>2, <1>3, <1>6, <1>7, <1>8, <1>9, <1>10, <1>11, <1>12
       DEF Next, Dispatch, Environment, vars
<1>14. PICK s \in Unused : InsertRetryStep(Step(n), job[n].arm, s) /\ Goto(n, "finish")
    BY <1>0, <1>13 DEF Retry, UnchangedLedger, Fault
<1>15. s = c
    BY <1>14, <1>c DEF InsertRetryStep, LedgerTypeOK
<1>16. /\ steps'[c].retryOf = Step(n) /\ steps'[c].flow = steps[Step(n)].flow
       /\ \A d \in Steps \ {c} : steps'[d] = steps[d]
    BY <1>14, <1>15 DEF InsertRetryStep, PendingStep, LedgerTypeOK
<1>17. pc[n] = "retry" /\ pc'[n] = "finish"
    BY <1>13, <1>14 DEF Retry, Goto, FleetTypeOK
<1> QED BY <1>16, <1>17

(* A scheduler that is on the way to a retry has just failed the step in   *)
(* its hand, or was on that way before.                                    *)
LEMMA EntersRetry ==
    ASSUME MaxFaults = 0, FleetSound, InHand, Unanswered, BudgetRespected, [Next]_vars,
           NEW n \in Schedulers, Retrying(n)'
    PROVE  /\ Step(n)' = Step(n)
           /\ \/ Retrying(n)
              \/ pc[n] \in {"commit", "recordFailure"} /\ steps'[Step(n)].state = "failed"
<1> USE DEF FleetSound
<1>t. pc \in [Schedulers -> Stages] /\ pc'[n] \in {"retry", "release"}
    BY DEF FleetTypeOK, Retrying
<1>f. ~Fault
    BY MaxFaults = 0 DEF Fault, FleetTypeOK
<1>1. CASE ~Dispatch(n)
    BY <1>1, <1>t, Bystander DEF Retrying
<1>2. CASE Dispatch(n)
  <2>1. \/ Cancel(n) \/ CommitResult(n) \/ RecordFailure(n) \/ Release(n)
    BY <1>2, <1>t DEF Dispatch, Tick, Acquire, SelectArm, LeaseMirror, EnsureRunRunning,
         AssignFlow, RunFlow, MarkRunning, Execute, Retry, CountStepsByFlow, CountFlowsByRun, Count,
         ReadView, ReadFlow, ReadRun, CasFlow, CasRun, Finish, Goto
  <2>2. CASE Cancel(n)
    <3>1. pc[n] \in Unresolved /\ result'[n] = result[n] /\ pc'[n] # "retry"
        BY <2>2, <1>t DEF Cancel, Unresolved, Stages, local, Goto
    <3> QED BY <3>1 DEF Unanswered, Retrying
  <2>3. CASE CommitResult(n)
    <3>1. pc[n] = "commit" /\ pc'[n] = "release" /\ UNCHANGED <<job, result>>
        BY <2>3, <1>t DEF CommitResult, Goto, local
    <3>2. result[n] \in {"failed", "error"}
        BY <3>1 DEF Retrying
    <3>3. PICK t, c, effects : T2StepComplete(Step(n), "failed", t, c, effects)
        BY <2>3, <3>1, <3>2, <1>t, <1>f DEF CommitResult, Goto
    <3>4. steps'[Step(n)].state = "failed"
        BY <3>3, OpenRows DEF T2StepComplete, CanComplete, Sound, LedgerTypeOK, StepRow
    <3> QED BY <3>1, <3>4 DEF Step
  <2>4. CASE RecordFailure(n)
    <3>1. pc[n] = "recordFailure" /\ UNCHANGED <<job, result>>
        BY <2>4 DEF RecordFailure, local
    <3> DEFINE q == Step(n)
    <3>2. q \in OpenSteps /\ steps[q] \in StepRow /\ steps[q].state = "running"
        BY <3>1, OpenRows DEF Sound, Attached, InHand, Dispatched, Executing
    <3>3. steps[q].run \in OpenRuns /\ runs[steps[q].run].used \in Nat
        BY <3>2, OpenRows DEF Sound, Linked, RunRow
    <3>4. Reconciled(runs[steps[q].run].used, 0) = runs[steps[q].run].used
        BY <3>3 DEF Reconciled
    <3>5. CanComplete(q, "failed", 0)
        BY <3>2, <3>3, <3>4 DEF CanComplete, WithinBudget, BudgetRespected, ValidStepMove, StepMoves
    <3>6. T2StepComplete(q, "failed", 0, 0, {})
        BY <2>4, <3>5, <1>f DEF RecordFailure
    <3>7. steps'[q].state = "failed"
        BY <3>2, <3>6, OpenRows DEF T2StepComplete, Sound, LedgerTypeOK, StepRow, OpenSteps
    <3> QED BY <3>1, <3>7 DEF Step
  <2>5. CASE Release(n)
    <3>1. pc[n] = "release" /\ pc'[n] = "retry" /\ UNCHANGED job
        BY <2>5, <1>t DEF Release, AfterOutcome, Goto, local
    <3>2. WantsRetry(n)
        BY <2>5, <3>1, <1>t DEF Release, AfterOutcome, Goto
    <3> QED BY <3>1, <3>2 DEF WantsRetry, Retrying, Step
  <2> QED BY <2>1, <2>2, <2>3, <2>4, <2>5
<1> QED BY <1>1, <1>2

RetrySound == RetryDue /\ RetryOfFailed

LEMMA RetryNext ==
    ASSUME MaxFaults = 0, FleetSound, Held, InHand, Unanswered, BudgetRespected, RetrySound,
           [Next]_vars
    PROVE  RetrySound'
<1> USE DEF FleetSound
<1>r. \A q \in OpenSteps : q \in Steps /\ q \in OpenSteps' /\ steps'[q].retryOf = steps[q].retryOf
    BY LedgerStep, RowsStay DEF SameChain, OpenSteps
<1>f. \A q \in Steps : steps[q].state = "failed" => steps'[q].state = "failed" /\ q \in OpenSteps
    BY LedgerStep, KeepsTerminal DEF TerminalKept, TerminalStep, OpenSteps
<1>o. OpenSteps \subseteq Steps /\ OpenSteps' \subseteq Steps
    BY DEF OpenSteps
<1>c. \A q \in OpenSteps : steps[q].retryOf \in Steps \union {NoStep}
    BY OpenRows DEF Sound, StepRow
<1>s. \A n \in Schedulers : Retrying(n)' => Step(n) \in OpenSteps
    BY EntersRetry, MaxFaults = 0 DEF Attached, Retrying
\* A new retry is that of a scheduler whose own way ends here.
<1>1. ASSUME NEW c \in OpenSteps', c \notin OpenSteps, steps'[c].retryOf # NoStep
      PROVE  \E n \in Schedulers : /\ Retrying(n) /\ ~Retrying(n)'
                                   /\ steps'[c].retryOf = Step(n)
                                   /\ steps[Step(n)].state = "failed" /\ ~Superseded(Step(n))
                                   /\ OpenSteps' \subseteq OpenSteps \union {c}
  <2>1. PICK n \in Schedulers : /\ pc[n] = "retry" /\ pc'[n] = "finish"
                                /\ steps'[c].retryOf = Step(n)
                                /\ \A d \in Steps \ {c} : steps'[d] = steps[d]
    BY <1>1, <1>o, RetryRow
  <2>2. Retrying(n) /\ ~Retrying(n)'
    BY <2>1 DEF Retrying
  <2>3. OpenSteps' \subseteq OpenSteps \union {c}
    BY <2>1 DEF OpenSteps
  <2> QED BY <2>1, <2>2, <2>3 DEF RetrySound, RetryDue
\* The step in hand is not retried by anybody.
<1>2. ASSUME NEW n \in Schedulers, pc[n] \in {"commit", "recordFailure"}
      PROVE  /\ steps[Step(n)].state = "running" /\ ~Superseded(Step(n))
             /\ \A m \in Schedulers : Retrying(m) => Step(m) # Step(n)
  <2>1. steps[Step(n)].state = "running"
    BY <1>2 DEF InHand, Dispatched, Executing
  <2>2. ~Superseded(Step(n))
    <3>1. Step(n) # NoStep
        BY <1>2 DEF Attached, OpenSteps
    <3> QED BY <2>1, <3>1 DEF RetrySound, RetryOfFailed, Superseded
  <2> QED BY <2>1, <2>2 DEF RetrySound, RetryDue
<1>3. ASSUME NEW n \in Schedulers, Retrying(n)'
      PROVE  steps'[Step(n)].state = "failed" /\ ~Superseded(Step(n))'
  <2>1. Step(n)' = Step(n) /\ Step(n) \in Steps /\ Step(n) # NoStep
    BY <1>3, <1>s, EntersRetry, MaxFaults = 0 DEF OpenSteps
  <2>2. steps'[Step(n)].state = "failed" /\ ~Superseded(Step(n))
    <3>1. CASE Retrying(n)
        BY <3>1, <2>1, <1>f DEF RetrySound, RetryDue
    <3>2. CASE ~Retrying(n)
        BY <3>2, <1>2, <1>3, EntersRetry, MaxFaults = 0
    <3> QED BY <3>1, <3>2
  <2>3. ASSUME NEW c \in OpenSteps', steps'[c].retryOf = Step(n) PROVE FALSE
    <3>1. CASE c \in OpenSteps
        BY <3>1, <2>2, <2>3, <1>r DEF Superseded
    <3>2. CASE c \notin OpenSteps
      <4>1. PICK m \in Schedulers : Retrying(m) /\ ~Retrying(m)' /\ steps'[c].retryOf = Step(m)
        BY <3>2, <2>1, <2>3, <1>1
      <4>2. Step(m) = Step(n) /\ m # n
        BY <4>1, <2>3, <1>3
      <4> QED BY <4>1, <4>2, <1>2, <1>3, EntersRetry, MaxFaults = 0 DEF RetrySound, RetryDue
    <3> QED BY <3>1, <3>2
  <2>4. ~Superseded(Step(n))'
    BY <2>1, <2>3 DEF Superseded
  <2> QED BY <2>2, <2>4
<1>4. ASSUME NEW m \in Schedulers, NEW n \in Schedulers, Retrying(m)', Retrying(n)', Step(m)' = Step(n)'
      PROVE  m = n
  <2>1. Step(m) = Step(n)
    BY <1>4, EntersRetry, MaxFaults = 0
  <2>2. CASE Retrying(m) /\ Retrying(n)
    BY <2>1, <2>2 DEF RetrySound, RetryDue
  <2>3. CASE pc[m] \in {"commit", "recordFailure"} /\ pc[n] \in {"commit", "recordFailure"}
    BY <2>1, <2>3 DEF Held, Holding
  <2> QED BY <2>1, <2>2, <2>3, <1>2, <1>4, EntersRetry, MaxFaults = 0
<1>5. ASSUME NEW s \in OpenSteps', steps'[s].retryOf # NoStep
      PROVE  /\ steps'[steps'[s].retryOf].state = "failed"
             /\ \A t \in OpenSteps' : steps'[t].retryOf = steps'[s].retryOf => t = s
  <2> DEFINE p == steps'[s].retryOf
  <2>1. CASE s \in OpenSteps
    <3>1. steps[s].retryOf = p /\ p \in Steps /\ steps[p].state = "failed"
          /\ \A t \in OpenSteps : steps[t].retryOf = p => t = s
        BY <2>1, <1>5, <1>r, <1>c DEF RetrySound, RetryOfFailed
    <3>2. ASSUME NEW t \in OpenSteps', steps'[t].retryOf = p PROVE t = s
      <4>1. CASE t \in OpenSteps
        BY <4>1, <3>1, <3>2, <1>r
      <4>2. CASE t \notin OpenSteps
        BY <4>2, <2>1, <3>1, <3>2, <1>1, <1>5 DEF Superseded
      <4> QED BY <4>1, <4>2
    <3> QED BY <3>1, <3>2, <1>f
  <2>2. CASE s \notin OpenSteps
    <3>1. PICK n \in Schedulers : /\ Retrying(n) /\ p = Step(n)
                                  /\ steps[Step(n)].state = "failed" /\ ~Superseded(Step(n))
                                  /\ OpenSteps' \subseteq OpenSteps \union {s}
        BY <2>2, <1>1, <1>5
    <3>2. p \in Steps
        BY <3>1 DEF Attached, Retrying, OpenSteps
    <3>3. ASSUME NEW t \in OpenSteps', steps'[t].retryOf = p PROVE t = s
      <4>1. t \notin OpenSteps
        BY <3>1, <3>3, <1>r DEF Superseded
      <4> QED BY <4>1, <3>1
    <3> QED BY <3>1, <3>2, <3>3, <1>f
  <2> QED BY <2>1, <2>2
<1>6. RetryDue'
    BY <1>3, <1>4, EntersRetry, MaxFaults = 0 DEF RetryDue
<1>7. RetryOfFailed'
    BY <1>5 DEF RetryOfFailed
<1> QED BY <1>6, <1>7 DEF RetrySound

LEMMA AlwaysRetrySound ==
    ASSUME LeaseLoss = FALSE, MirrorLoss = FALSE, MaxFaults = 0
    PROVE  Spec => []RetrySound
<1>1. Init => RetrySound
    BY DEF Init, RetrySound, RetryDue, RetryOfFailed, Retrying, OpenSteps, PendingStep, NoRow
<1>2. Spec => []BudgetRespected
    BY ImplementsLedger, NeverOverBudget, PTL
<1>3. FleetSound /\ Held /\ InHand /\ Unanswered /\ BudgetRespected /\ RetrySound /\ [Next]_vars
          => RetrySound'
    BY RetryNext, MaxFaults = 0
<1> QED BY <1>1, <1>2, <1>3, AlwaysFleetSound, AlwaysHeld, AlwaysInHand, AlwaysUnanswered,
           LeaseLoss = FALSE, MirrorLoss = FALSE, PTL DEF Spec

(* InsertRetryStep reads nothing of its parent's row, and the lease is     *)
(* released before it is called: a retry is one of a failed step all the   *)
(* same, and the only one, however many schedulers read the row before,    *)
(* and wherever they crash; so a chain of attempts has a single leaf.      *)
THEOREM RetriesFollowFailures ==
    ASSUME LeaseLoss = FALSE, MirrorLoss = FALSE, MaxFaults = 0
    PROVE  Spec => []RetryOfFailed
<1>1. RetrySound => RetryOfFailed
    BY DEF RetrySound
<1> QED BY <1>1, AlwaysRetrySound, LeaseLoss = FALSE, MirrorLoss = FALSE, MaxFaults = 0, PTL

-----------------------------------------------------------------------------
(* The verdict of a flow, with its retries.                                *)

(* Once everything is submitted, the rows that are added are retries.      *)
LEMMA NewRowsRetry ==
    ASSUME Late = {}, FleetSound, [Next]_vars, NEW q \in OpenSteps', q \notin OpenSteps
    PROVE  steps'[q].retryOf # NoStep
<1> USE DEF FleetSound, Sound
<1> SUFFICES ASSUME ~\E n \in Schedulers : Retry(n) /\ ~UNCHANGED steps
             PROVE  steps'[q] = steps[q]
  <2>1. ASSUME NEW n \in Schedulers, Retry(n), ~UNCHANGED steps PROVE steps'[q].retryOf # NoStep
    <3>1. PICK s \in Unused : InsertRetryStep(Step(n), job[n].arm, s)
        BY <2>1 DEF Retry, UnchangedLedger, Fault
    <3>2. s = q
        BY <3>1 DEF InsertRetryStep, LedgerTypeOK, OpenSteps
    <3> QED BY <3>1, <3>2 DEF InsertRetryStep, PendingStep, LedgerTypeOK, OpenSteps
  <2> QED BY <2>1 DEF OpenSteps
<1>q. q \in Steps /\ steps[q].state = "absent"
    BY DEF OpenSteps
<1>0. CASE UNCHANGED steps
    BY <1>0
<1>2. ASSUME NEW n \in Schedulers, SelectArm(n), ~UNCHANGED steps PROVE steps'[q] = steps[q]
    BY <1>2, <1>q DEF SelectArm, UpdateStepArm, UnchangedLedger, Fault, LedgerTypeOK
<1>3. ASSUME NEW n \in Schedulers, Cancel(n) \/ LeaseMirror(n) \/ MarkRunning(n), ~UNCHANGED steps
      PROVE  steps'[q] = steps[q]
  <2>1. \/ CancelStep(Step(n)) \/ MarkStepRunning(Step(n))
        \/ \E e \in Estimates : T1LeaseMirror(Step(n), e)
    BY <1>3 DEF Cancel, LeaseMirror, MarkRunning, UnchangedLedger, Fault
  <2>2. Step(n) \in OpenSteps /\ Step(n) # q
    BY <2>1 DEF CancelStep, CanCancel, MarkStepRunning, CanRun, T1LeaseMirror, CanLease
  <2> QED BY <1>q, <2>1, <2>2 DEF CancelStep, MarkStepRunning, T1LeaseMirror, LedgerTypeOK
<1>4. ASSUME NEW n \in Schedulers, CommitResult(n) \/ RecordFailure(n), ~UNCHANGED steps
      PROVE  steps'[q] = steps[q]
  <2>1. PICK final, t, c, effects : T2StepComplete(Step(n), final, t, c, effects)
    BY <1>4 DEF CommitResult, RecordFailure, UnchangedLedger, Fault
  <2>2. Step(n) # q
    BY <2>1 DEF T2StepComplete, CanComplete
  <2> QED BY <1>q, <2>1, <2>2 DEF T2StepComplete, LedgerTypeOK
<1>5. ASSUME NEW s, T3LeaseRenewal(s) \/ MirrorLapses(s) PROVE steps'[q] = steps[q]
    BY <1>5, <1>q DEF T3LeaseRenewal, MirrorLapses, LedgerTypeOK
<1>6. ASSUME T4ExpiryBackupScanner PROVE steps'[q] = steps[q]
    BY <1>6, <1>q DEF T4ExpiryBackupScanner, Expired
<1>7. ASSUME NEW n \in Schedulers, Retry(n) PROVE UNCHANGED steps
    BY <1>7
<1>8. ASSUME NEW n \in Schedulers,
             EnsureRunRunning(n) \/ AssignFlow(n) \/ RunFlow(n) \/ CasFlow(n) \/ CasRun(n)
      PROVE  UNCHANGED steps
    BY <1>8 DEF EnsureRunRunning, AssignFlow, RunFlow, CasFlow, CasRun, UpdateRunState,
                UpdateFlowState, UnchangedLedger, Fault
<1>9. ASSUME NEW n \in Schedulers,
             Tick(n) \/ Acquire(n) \/ Execute(n) \/ Release(n) \/ CountStepsByFlow(n)
                 \/ CountFlowsByRun(n) \/ ReadFlow(n) \/ ReadRun(n) \/ Finish(n) \/ Keepalive(n)
      PROVE  UNCHANGED steps
    BY <1>9 DEF Tick, Acquire, Execute, Release, CountStepsByFlow, CountFlowsByRun, Count,
                ReadView, ReadFlow, ReadRun, Finish, Keepalive, UnchangedLedger, Fault
<1>10. ASSUME NEW n \in Schedulers, RenewMirror(n) \/ ExpiryScan(n) PROVE steps'[q] = steps[q]
    BY <1>5, <1>6, <1>10 DEF RenewMirror, ExpiryScan, UnchangedLedger
<1>11. ASSUME Environment PROVE steps'[q] = steps[q]
    BY <1>5, <1>11, Late = {}
       DEF Environment, TransitionRun, UpdateRunState, LeaseExpires, MirrorExpires, Crash
<1> QED
    BY <1>0, <1>2, <1>3, <1>4, <1>7, <1>8, <1>9, <1>10, <1>11 DEF Next, Dispatch, vars

(* Without a retry policy nothing is retried.                              *)
NoRetry == \A n \in Schedulers : pc[n] # "retry"

LEMMA AlwaysNoRetry == ASSUME MaxRetries = 0 PROVE Spec => []NoRetry
<1>1. Init => NoRetry
    BY DEF Init, NoRetry
<1>2. FleetSound /\ NoRetry /\ [Next]_vars => NoRetry'
  <2> SUFFICES ASSUME FleetSound, NoRetry, [Next]_vars, NEW n \in Schedulers, pc'[n] = "retry"
               PROVE  FALSE
    BY DEF NoRetry
  <2> USE DEF FleetSound
  <2>1. pc[n] # "retry"
    BY DEF NoRetry
  <2>2. pc[n] # "idle" => AfterOutcome(n) = "countSteps"
    <3>1. pc[n] # "idle" => steps[Step(n)].retries \in Nat
        BY OpenRows DEF Attached, Sound, StepRow
    <3> QED BY <3>1, MaxRetries = 0 DEF AfterOutcome, WantsRetry
  <2>3. CASE Dispatch(n)
    <3>a. CASE Tick(n) \/ Acquire(n) \/ SelectArm(n) \/ Cancel(n) \/ LeaseMirror(n)
                 \/ EnsureRunRunning(n) \/ AssignFlow(n) \/ RunFlow(n)
        BY <2>1, <3>a DEF Tick, Acquire, SelectArm, Cancel, LeaseMirror, EnsureRunRunning,
                          AssignFlow, RunFlow, Goto, FleetTypeOK
    <3>b. CASE MarkRunning(n) \/ Execute(n) \/ CommitResult(n) \/ RecordFailure(n) \/ Release(n)
                 \/ Retry(n)
        BY <2>1, <2>2, <3>b DEF MarkRunning, Execute, CommitResult, RecordFailure, Release, Retry,
                                Goto, FleetTypeOK
    <3>c. CASE CountStepsByFlow(n) \/ CountFlowsByRun(n) \/ ReadFlow(n) \/ ReadRun(n) \/ CasFlow(n)
                 \/ CasRun(n) \/ Finish(n)
        BY <3>c DEF CountStepsByFlow, CountFlowsByRun, Count, ReadView, ReadFlow, ReadRun, CasFlow,
                    CasRun, Finish, Goto, FleetTypeOK
    <3> QED BY <2>3, <3>a, <3>b, <3>c DEF Dispatch
  <2>4. ASSUME NEW m \in Schedulers, Dispatch(m), m # n PROVE FALSE
    <3>1. Tick(m) \/ Acquire(m) \/ Hop(m) \/ Release(m) \/ Finish(m)
        BY <2>4, EveryDispatch
    <3> QED BY <2>1, <2>4, <3>1 DEF Tick, Acquire, Hop, Release, Finish, Goto, FleetTypeOK
  <2>5. ASSUME NEW m \in Schedulers, Crash(m) PROVE FALSE
    BY <2>1, <2>5 DEF Crash, FleetTypeOK
  <2>6. ASSUME NEW s \in Steps, LeaseExpires(s) PROVE FALSE
    BY <2>1, <2>6 DEF LeaseExpires
  <2>7. CASE Still
    BY <2>1, <2>7 DEF Still
  <2> QED BY <2>3, <2>4, <2>5, <2>6, <2>7, EveryStep
<1> QED BY <1>1, <1>2, AlwaysFleetSound, PTL DEF Spec

(* What is about to be retried has failed and has no retry yet.            *)
FailedAndAlone ==
    \A n \in Schedulers : pc[n] = "retry" =>
        steps[Step(n)].state = "failed" /\ ~Superseded(Step(n))

LEMMA AlwaysFailedAndAlone ==
    ASSUME MaxRetries = 0 \/ (LeaseLoss = FALSE /\ MirrorLoss = FALSE /\ MaxFaults = 0)
    PROVE  Spec => []FailedAndAlone
<1>1. CASE MaxRetries = 0
  <2>1. NoRetry => FailedAndAlone
    BY DEF NoRetry, FailedAndAlone
  <2> QED BY <1>1, <2>1, AlwaysNoRetry, PTL
<1>2. CASE LeaseLoss = FALSE /\ MirrorLoss = FALSE /\ MaxFaults = 0
  <2>1. RetrySound => FailedAndAlone
    BY DEF RetrySound, RetryDue, Retrying, FailedAndAlone
  <2> QED BY <1>2, <2>1, AlwaysRetrySound, PTL
<1> QED BY <1>1, <1>2

LEMMA CountFounds ==
    ASSUME NEW f, AllTerminal(LeafStates(f))
    PROVE  Founded(f, Verdict(LeafStates(f)))
<1>1. CASE Verdict(LeafStates(f)) # "failed"
    BY <1>1 DEF Founded
<1>2. CASE Verdict(LeafStates(f)) = "failed"
  <2>1. \E s \in Leaves(f) : steps[s].state \in {"failed", "expired"}
    BY <1>2 DEF Verdict, LeafStates
  <2>2. \A s \in Leaves(f) : steps[s].state \in TerminalStep
    BY DEF AllTerminal, LeafStates
  <2> QED BY <1>2, <2>1, <2>2 DEF Founded, Leaves
<1> QED BY <1>1, <1>2

(* A verdict that was right stays so: of a flow with a failed leaf it is   *)
(* failed, and only failed leaves are retried.                             *)
LEMMA FoundedStays ==
    ASSUME Late = {}, FleetSound, FailedAndAlone, [Next]_vars, NEW f, NEW v, Founded(f, v)
    PROVE  Founded(f, v)'
<1> USE DEF FleetSound
<1>r. \A s \in OpenSteps : /\ s \in Steps /\ s \in OpenSteps'
                           /\ steps'[s].flow = steps[s].flow
                           /\ steps'[s].retryOf = steps[s].retryOf
    BY LedgerStep, RowsStay DEF SameChain, OpenSteps
<1>t. \A s \in OpenSteps : steps[s].state \in TerminalStep => steps'[s].state = steps[s].state
    BY <1>r, LedgerStep, KeepsTerminal DEF TerminalKept
<1>n. ASSUME NEW c \in OpenSteps', c \notin OpenSteps
      PROVE  /\ steps'[c].retryOf # NoStep
             /\ \E s \in OpenSteps : /\ steps'[c].retryOf = s /\ steps'[c].flow = steps[s].flow
                                     /\ steps[s].state = "failed" /\ ~Superseded(s)
  <2>1. c \in Steps /\ steps'[c].retryOf # NoStep
    BY <1>n, NewRowsRetry, Late = {} DEF OpenSteps
  <2>2. PICK n \in Schedulers : /\ pc[n] = "retry" /\ steps'[c].retryOf = Step(n)
                                /\ steps'[c].flow = steps[Step(n)].flow
    BY <1>n, <2>1, RetryRow
  <2> QED BY <2>1, <2>2 DEF FailedAndAlone, Attached
<1>1. CASE v = "failed"
  <2>1. \E s \in OpenSteps' : steps'[s].flow = f /\ steps'[s].state \in {"failed", "expired"}
    BY <1>1, <1>r, <1>t DEF Founded, TerminalStep
  <2>2. ASSUME NEW s \in Leaves(f)'
        PROVE  steps'[s].state \in TerminalStep \/ steps'[s].retryOf # NoStep
    <3>1. CASE s \in OpenSteps
      <4>1. s \in Leaves(f)
        BY <2>2, <3>1, <1>r DEF Leaves, Superseded
      <4> QED BY <3>1, <4>1, <1>1, <1>r, <1>t DEF Founded
    <3>2. CASE s \notin OpenSteps
        BY <2>2, <3>2, <1>n DEF Leaves
    <3> QED BY <3>1, <3>2
  <2> QED BY <1>1, <2>1, <2>2 DEF Founded
<1>2. CASE v # "failed"
  <2>1. AllTerminal(LeafStates(f)) /\ v = Verdict(LeafStates(f))
    BY <1>2 DEF Founded
  <2>2. \A s \in Leaves(f) : steps[s].state \in TerminalStep /\ steps[s].state # "failed"
    BY <1>2, <2>1 DEF AllTerminal, Verdict, LeafStates
  <2>3. ASSUME NEW c \in OpenSteps', c \notin OpenSteps PROVE steps'[c].flow # f
    BY <2>2, <2>3, <1>n DEF Leaves
  <2>4. ASSUME NEW s \in Leaves(f)' PROVE s \in Leaves(f)
    BY <2>3, <2>4, <1>r DEF Leaves, Superseded
  <2>5. ASSUME NEW s \in Leaves(f) PROVE s \in Leaves(f)'
    <3>1. s \in OpenSteps /\ steps[s].flow = f /\ ~Superseded(s)
        BY DEF Leaves
    <3>2. ASSUME NEW c \in OpenSteps', steps'[c].retryOf = s PROVE FALSE
      <4>1. CASE c \in OpenSteps
        BY <3>1, <3>2, <4>1, <1>r DEF Superseded
      <4>2. CASE c \notin OpenSteps
        BY <2>2, <3>2, <4>2, <1>n
      <4> QED BY <4>1, <4>2
    <3> QED BY <3>1, <3>2, <1>r DEF Leaves, Superseded
  <2>6. Leaves(f)' = Leaves(f)
    BY <2>4, <2>5
  <2>7. \A s \in Leaves(f) : steps'[s].state = steps[s].state
    BY <2>2, <1>t DEF Leaves
  <2>8. LeafStates(f)' = LeafStates(f)
    BY <2>6, <2>7 DEF LeafStates
  <2> QED BY <1>2, <2>1, <2>8 DEF Founded, AllTerminal, Verdict
<1> QED BY <1>1, <1>2

FlowCountStands ==
    \A n \in Schedulers : pc[n] \in {"readFlow", "casFlow"} =>
        Founded(FlowOf(n), view[n].verdict)

(* The verdict of a flow, which any number of schedulers count, read and   *)
(* swap in three calls, is borne out by its steps for good, also by those  *)
(* that are retried after it was written: a flow that has succeeded or was *)
(* cancelled is not contradicted, and one that has failed has the failure  *)
(* on record and nothing open but retries.                                 *)
THEOREM FlowVerdictsStand ==
    ASSUME Late = {},
           MaxRetries = 0 \/ (LeaseLoss = FALSE /\ MirrorLoss = FALSE /\ MaxFaults = 0)
    PROVE  Spec => []FlowVerdictStands
<1>1. Init => FlowCountStands /\ FlowVerdictStands
    BY DEF Init, FlowCountStands, FlowVerdictStands, TerminalFlow, OpenFlows
<1>2. FleetSound /\ FailedAndAlone /\ FlowCountStands /\ [Next]_vars => FlowCountStands'
  <2> SUFFICES ASSUME FleetSound, FailedAndAlone, FlowCountStands, [Next]_vars,
                      NEW n \in Schedulers, pc'[n] \in {"readFlow", "casFlow"}
               PROVE  Founded(FlowOf(n), view[n].verdict)'
    BY DEF FlowCountStands
  <2>1. FlowOf(n)' = FlowOf(n)
    BY Finalizing, LedgerStep, RowsStay DEF FlowOf, SameChain, FleetSound, Step
  <2>2. Founded(FlowOf(n), view'[n].verdict)
    BY Finalizing, CountFounds DEF FlowCountStands
  <2>3. PICK f, v : f = FlowOf(n) /\ v = view'[n].verdict
    OBVIOUS
  <2>4. Founded(f, v)'
    BY <2>2, <2>3, FoundedStays, Late = {}
  <2> QED BY <2>1, <2>3, <2>4 DEF Founded, LeafStates, Leaves
<1>3. FleetSound /\ FailedAndAlone /\ FlowCountStands /\ FlowVerdictStands /\ [Next]_vars
          => FlowVerdictStands'
  <2> SUFFICES ASSUME FleetSound, FailedAndAlone, FlowCountStands, FlowVerdictStands, [Next]_vars,
                      NEW f \in Flows, flows'[f] \in TerminalFlow
               PROVE  Founded(f, flows[f])'
    BY DEF FlowVerdictStands, OpenFlows
  <2>1. Founded(f, flows'[f])
    <3>1. CASE flows[f] \in TerminalFlow
        BY <3>1, LedgerStep, KeepsTerminal
           DEF FleetSound, TerminalKept, FlowVerdictStands, OpenFlows, TerminalFlow
    <3>2. CASE flows[f] \notin TerminalFlow
        BY <3>2, EndsFlow DEF FlowCountStands
    <3> QED BY <3>1, <3>2
  <2>2. PICK v : v = flows'[f]
    OBVIOUS
  <2>3. Founded(f, v)'
    BY <2>1, <2>2, FoundedStays, Late = {}
  <2> QED BY <2>2, <2>3 DEF Founded, LeafStates, Leaves
<1> QED BY <1>1, <1>2, <1>3, AlwaysFleetSound, AlwaysFailedAndAlone, PTL DEF Spec

-----------------------------------------------------------------------------
(* The bills: what the steps of a run have cost.                           *)

RowsOf(r) == {s \in OpenSteps : steps[s].run = r}
Cost == [s \in OpenSteps |-> steps[s].cost]

(* What every step but a T2 does to the amounts: at most one row is added, *)
(* which has cost nothing yet, and nothing else changes.                   *)
Unbilled ==
    /\ \A r \in Runs : runs'[r] = runs[r] \/ (r \in OpenRuns /\ runs'[r].cost = runs[r].cost)
    /\ \/ \A s \in OpenSteps' : s \in OpenSteps /\ steps'[s].cost = steps[s].cost
       \/ \E q \in Steps \ OpenSteps :
             /\ steps'[q].cost = 0
             /\ \A s \in OpenSteps' \ {q} : s \in OpenSteps /\ steps'[s].cost = steps[s].cost

Billed(n) ==
    /\ pc[n] \in Dispatched
    /\ \E final, t, e : \E c \in Costs : T2StepComplete(Step(n), final, t, c, e)

LEMMA Bills ==
    ASSUME FleetSound, [Next]_vars
    PROVE  Unbilled \/ \E n \in Schedulers : Billed(n)
<1> DEFINE Goal == Unbilled \/ \E n \in Schedulers : Billed(n)
           SameRuns == \A r \in Runs : runs'[r] = runs[r] \/ (r \in OpenRuns /\ runs'[r].cost = runs[r].cost)
           SameCosts == \A s \in OpenSteps' : s \in OpenSteps /\ steps'[s].cost = steps[s].cost
<1> SUFFICES Goal
    OBVIOUS
<1> USE DEF FleetSound, Sound
<1>a. SameRuns /\ SameCosts => Goal
    BY DEF Unbilled
<1>t. \A s \in OpenSteps : s \in Steps /\ steps[s] \in StepRow
    BY OpenRows
<1>k. UNCHANGED runs => SameRuns
    OBVIOUS
<1>s. UNCHANGED steps => SameCosts
    BY DEF OpenSteps
<1>e. ASSUME NEW s \in OpenSteps, NEW row, row.cost = steps[s].cost, steps' = [steps EXCEPT ![s] = row]
      PROVE  SameCosts
    BY <1>e, <1>t DEF OpenSteps, LedgerTypeOK
<1>0. CASE UNCHANGED <<runs, flows, steps>>
    BY <1>0, <1>a, <1>k, <1>s
<1>u. ASSUME NEW r, NEW to, UpdateRunState(r, to) PROVE SameRuns
    BY <1>u, OpenRows DEF UpdateRunState, LedgerTypeOK, RunRow
<1>1. ASSUME NEW n \in Schedulers, SelectArm(n), ~UNCHANGED <<runs, flows, steps>> PROVE Goal
  <2>1. PICK arm \in Arms : UpdateStepArm(Step(n), arm)
    BY <1>1 DEF SelectArm, UnchangedLedger, Fault
  <2>2. Step(n) \in OpenSteps
    BY <1>1 DEF SelectArm, Attached
  <2>3. [steps[Step(n)] EXCEPT !.arm = arm].cost = steps[Step(n)].cost
    BY <1>t, <2>2 DEF StepRow
  <2>4. SameCosts /\ UNCHANGED runs
    BY <1>e, <2>1, <2>2, <2>3 DEF UpdateStepArm
  <2> QED BY <1>a, <1>k, <2>4
<1>2. ASSUME NEW s \in Steps, NEW state, s \in OpenSteps,
             steps' = [steps EXCEPT ![s].state = state]
      PROVE  SameCosts
  <2>1. [steps[s] EXCEPT !.state = state].cost = steps[s].cost
    BY <1>2, <1>t DEF StepRow
  <2> QED BY <1>2, <1>e, <2>1
<1>3. ASSUME NEW n \in Schedulers, Cancel(n) \/ MarkRunning(n), ~UNCHANGED <<runs, flows, steps>>
      PROVE  Goal
  <2>1. CancelStep(Step(n)) \/ MarkStepRunning(Step(n))
    BY <1>3 DEF Cancel, MarkRunning, UnchangedLedger, Fault
  <2>2. Step(n) \in OpenSteps /\ Step(n) \in Steps
    BY <1>t, <2>1 DEF CancelStep, CanCancel, MarkStepRunning, CanRun
  <2>3. SameCosts /\ UNCHANGED runs
    BY <1>2, <2>1, <2>2 DEF CancelStep, MarkStepRunning
  <2> QED BY <1>a, <1>k, <2>3
<1>4. ASSUME NEW n \in Schedulers, LeaseMirror(n), ~UNCHANGED <<runs, flows, steps>> PROVE Goal
  <2>1. PICK e \in Estimates : T1LeaseMirror(Step(n), e)
    BY <1>4 DEF LeaseMirror, UnchangedLedger, Fault
  <2>2. Step(n) \in OpenSteps /\ Step(n) \in Steps /\ RunIdOf(n) \in OpenRuns
    BY <1>t, <2>1 DEF T1LeaseMirror, CanLease, Linked, RunIdOf
  <2>3. [steps[Step(n)] EXCEPT !.state = "leased", !.mirror = "live"].cost = steps[Step(n)].cost
    BY <1>t, <2>2 DEF StepRow
  <2>4. steps' = [steps EXCEPT ![Step(n)] =
                     [steps[Step(n)] EXCEPT !.state = "leased", !.mirror = "live"]]
    BY <2>1 DEF T1LeaseMirror
  <2>5. SameCosts
    BY <1>e, <2>2, <2>3, <2>4
  <2>6. SameRuns
    BY <2>1, <2>2, OpenRows DEF T1LeaseMirror, RunIdOf, LedgerTypeOK, RunRow
  <2> QED BY <1>a, <2>5, <2>6
<1>5. ASSUME NEW n \in Schedulers, CommitResult(n), ~UNCHANGED <<runs, flows, steps>> PROVE Goal
  <2>1. pc[n] \in Dispatched
    BY <1>5 DEF CommitResult, Dispatched
  <2>2. \E final, t, e : \E c \in Costs : T2StepComplete(Step(n), final, t, c, e)
    BY <1>5 DEF CommitResult, UnchangedLedger, Fault
  <2> QED BY <2>1, <2>2 DEF Billed
<1>6. ASSUME NEW n \in Schedulers, RecordFailure(n), ~UNCHANGED <<runs, flows, steps>> PROVE Goal
  <2>1. pc[n] \in Dispatched
    BY <1>6 DEF RecordFailure, Dispatched
  <2>2. T2StepComplete(Step(n), "failed", 0, 0, {}) /\ 0 \in Costs
    BY <1>6 DEF RecordFailure, UnchangedLedger, Fault
  <2> QED BY <2>1, <2>2 DEF Billed
<1>7. ASSUME NEW s \in Steps \ OpenSteps, NEW row, row.cost = 0,
             steps' = [steps EXCEPT ![s] = row], UNCHANGED runs
      PROVE  Goal
  <2>1. steps'[s].cost = 0 /\ \A q \in Steps \ {s} : steps'[q] = steps[q]
    BY <1>7 DEF LedgerTypeOK
  <2>2. \A q \in OpenSteps' \ {s} : q \in OpenSteps /\ steps'[q].cost = steps[q].cost
    BY <2>1 DEF OpenSteps
  <2> QED BY <1>7, <2>1, <2>2 DEF Unbilled
<1>8. ASSUME NEW n \in Schedulers, Retry(n), ~UNCHANGED <<runs, flows, steps>> PROVE Goal
  <2>1. PICK s \in Unused : InsertRetryStep(Step(n), job[n].arm, s)
    BY <1>8 DEF Retry, UnchangedLedger, Fault
  <2>2. s \in Steps \ OpenSteps
    BY <2>1 DEF Unused
  <2> QED BY <1>7, <2>1, <2>2 DEF InsertRetryStep, PendingStep
<1>9. ASSUME NEW s \in Late, Submit(s) PROVE Goal
  <2>1. s \in Steps \ OpenSteps
    BY <1>9 DEF Submit, AddStep
  <2> QED BY <1>7, <1>9, <2>1 DEF Submit, AddStep, PendingStep
<1>10. ASSUME NEW s, T3LeaseRenewal(s) \/ MirrorLapses(s) PROVE Goal
  <2>1. CASE UNCHANGED steps
    BY <1>10, <1>a, <1>k, <1>s, <2>1 DEF T3LeaseRenewal, MirrorLapses
  <2>2. CASE ~UNCHANGED steps
    <3>1. PICK mirror : steps' = [steps EXCEPT ![s].mirror = mirror]
        BY <1>10, <2>2 DEF T3LeaseRenewal, MirrorLapses
    <3>2. CASE s \in OpenSteps
      <4>1. [steps[s] EXCEPT !.mirror = mirror].cost = steps[s].cost
        BY <1>t, <3>2 DEF StepRow
      <4>2. SameCosts
        BY <1>e, <3>1, <3>2, <4>1
      <4> QED BY <1>10, <1>a, <1>k, <4>2 DEF T3LeaseRenewal, MirrorLapses
    <3>3. CASE s \notin Steps
        BY <2>2, <3>1, <3>3 DEF LedgerTypeOK
    <3>4. s \in Steps => s \in OpenSteps
        BY <1>10, <2>2 DEF T3LeaseRenewal, MirrorLapses, OpenSteps
    <3> QED BY <3>2, <3>3, <3>4
  <2> QED BY <2>1, <2>2
<1>11. ASSUME T4ExpiryBackupScanner PROVE Goal
  <2>1. \A s \in OpenSteps : BackToPool(steps[s]).cost = steps[s].cost
    BY <1>t, StepBackToPool
  <2>2. \A s \in Expired : s \in OpenSteps
    BY DEF Expired, OpenSteps
  <2>3. \A s \in Steps : steps'[s] = IF s \in Expired THEN BackToPool(steps[s]) ELSE steps[s]
    BY <1>11 DEF T4ExpiryBackupScanner
  <2>4. SameCosts
    BY <2>1, <2>2, <2>3 DEF OpenSteps
  <2> QED BY <1>11, <1>a, <1>k, <2>4 DEF T4ExpiryBackupScanner
<1>12. ASSUME NEW n \in Schedulers, EnsureRunRunning(n) \/ CasRun(n), ~UNCHANGED <<runs, flows, steps>>
       PROVE  Goal
  <2>1. \E r, to : UpdateRunState(r, to)
    BY <1>12 DEF EnsureRunRunning, CasRun, UnchangedLedger, Fault
  <2> QED BY <1>a, <1>s, <1>u, <2>1 DEF UpdateRunState
<1>13. ASSUME NEW n \in Schedulers, AssignFlow(n) \/ RunFlow(n) \/ CasFlow(n) PROVE Goal
  <2>1. UNCHANGED <<runs, steps>>
    BY <1>13 DEF AssignFlow, RunFlow, CasFlow, UpdateFlowState, UnchangedLedger, Fault
  <2> QED BY <1>a, <1>k, <1>s, <2>1
<1>14. ASSUME NEW n \in Schedulers,
              Tick(n) \/ Acquire(n) \/ Execute(n) \/ Release(n) \/ CountStepsByFlow(n)
                  \/ CountFlowsByRun(n) \/ ReadFlow(n) \/ ReadRun(n) \/ Finish(n) \/ Keepalive(n)
       PROVE  Goal
  <2>1. UNCHANGED <<runs, flows, steps>>
    BY <1>14 DEF Tick, Acquire, Execute, Release, CountStepsByFlow, CountFlowsByRun, Count,
                 ReadView, ReadFlow, ReadRun, Finish, Keepalive, UnchangedLedger, Fault
  <2> QED BY <1>0, <2>1
<1>15. ASSUME NEW n \in Schedulers, Dispatch(n) PROVE Goal
    BY <1>0, <1>1, <1>3, <1>4, <1>5, <1>6, <1>8, <1>12, <1>13, <1>14, <1>15 DEF Dispatch
<1>16. ASSUME NEW n \in Schedulers, RenewMirror(n) \/ ExpiryScan(n) PROVE Goal
    BY <1>0, <1>10, <1>11, <1>16 DEF RenewMirror, ExpiryScan, UnchangedLedger
<1>17. ASSUME NEW r, NEW to, TransitionRun(r, to) PROVE Goal
    BY <1>17, <1>a, <1>s, <1>u DEF TransitionRun, UpdateRunState
<1>18. ASSUME Environment PROVE Goal
  <2>1. ASSUME NEW s, LeaseExpires(s) PROVE Goal
    BY <1>0, <2>1 DEF LeaseExpires
  <2>2. ASSUME NEW n, Crash(n) PROVE Goal
    BY <1>0, <2>2 DEF Crash
  <2>3. ASSUME NEW s, MirrorExpires(s) PROVE Goal
    BY <1>10, <2>3 DEF MirrorExpires
  <2> QED BY <1>9, <1>17, <1>18, <2>1, <2>2, <2>3 DEF Environment
<1> HIDE DEF Goal
<1> QED BY <1>0, <1>14, <1>15, <1>16, <1>18 DEF Next, vars

(* A sum grows by nothing, or by one new row that has cost nothing.        *)
LEMMA SumKept ==
    ASSUME FleetSound, IsFiniteSet(Steps), NEW r,
           \A s \in OpenSteps : s \in OpenSteps' /\ SameChain(s), Unbilled
    PROVE  Total(Cost', RowsOf(r)') = Total(Cost, RowsOf(r))
<1>f. IsFiniteSet(RowsOf(r)) /\ IsFiniteSet(RowsOf(r)')
  <2>1. RowsOf(r) \subseteq Steps /\ RowsOf(r)' \subseteq Steps
    BY DEF RowsOf, OpenSteps
  <2> QED BY <2>1, FS_Subset
<1>n. \A s \in OpenSteps : steps[s].cost \in Nat
    BY OpenRows DEF FleetSound, Sound, StepRow
<1>1. ASSUME NEW S, S \subseteq RowsOf(r), S \subseteq RowsOf(r)',
             \A s \in S : steps'[s].cost = steps[s].cost
      PROVE  \A s \in S : Cost'[s] = Cost[s]
    BY <1>1 DEF RowsOf, Cost
<1>2. CASE \A s \in OpenSteps' : s \in OpenSteps /\ steps'[s].cost = steps[s].cost
  <2>1. RowsOf(r)' = RowsOf(r)
    BY <1>2 DEF RowsOf, SameChain
  <2>2. \A s \in RowsOf(r) : Cost'[s] = Cost[s]
    BY <1>1, <1>2, <2>1 DEF RowsOf
  <2> QED BY <1>f, <2>1, <2>2, TotalSame
<1>3. ASSUME NEW q \in Steps \ OpenSteps, steps'[q].cost = 0,
             \A s \in OpenSteps' \ {q} : s \in OpenSteps /\ steps'[s].cost = steps[s].cost
      PROVE  Total(Cost', RowsOf(r)') = Total(Cost, RowsOf(r))
  <2>1. RowsOf(r)' \ {q} = RowsOf(r)
    BY <1>3 DEF RowsOf, SameChain
  <2>2. \A s \in RowsOf(r) : Cost'[s] = Cost[s]
    BY <1>1, <1>3, <2>1 DEF RowsOf
  <2>3. Total(Cost', RowsOf(r)) = Total(Cost, RowsOf(r))
    BY <1>f, <2>2, TotalSame
  <2>4. CASE q \notin RowsOf(r)'
    BY <2>1, <2>3, <2>4
  <2>5. CASE q \in RowsOf(r)'
    <3>1. \A s \in RowsOf(r) : Cost[s] \in Nat
        BY <1>n DEF RowsOf, Cost
    <3>2. Cost'[q] = 0
        BY <1>3, <2>5 DEF RowsOf, Cost
    <3>3. \A s \in RowsOf(r)' : Cost'[s] \in Nat
        BY <2>1, <2>2, <3>1, <3>2
    <3>4. /\ Total(Cost', RowsOf(r)' \ {q}) \in Nat
          /\ Total(Cost', RowsOf(r)') = Cost'[q] + Total(Cost', RowsOf(r)' \ {q})
        BY <1>f, <2>5, <3>3, TotalSplit
    <3>5. Total(Cost', RowsOf(r)') = Total(Cost', RowsOf(r)' \ {q})
        BY <3>2, <3>4
    <3> QED BY <2>1, <2>3, <3>5
  <2> QED BY <2>4, <2>5
<1> QED BY <1>2, <1>3 DEF Unbilled

(* T2 puts on the run what it puts on a row that has cost nothing so far.  *)
LEMMA SumBilled ==
    ASSUME FleetSound, IsFiniteSet(Steps), Unsettled, EffectsNeedOutcome,
           NEW n \in Schedulers, pc[n] \in Dispatched,
           NEW final, NEW t, NEW e, NEW c \in Costs, T2StepComplete(Step(n), final, t, c, e),
           \A s \in OpenSteps : s \in OpenSteps' /\ SameChain(s),
           NEW r \in OpenRuns, runs[r].cost = Total(Cost, RowsOf(r))
    PROVE  runs'[r].cost = Total(Cost', RowsOf(r)')
<1> DEFINE q == Step(n)
<1>q. q \in OpenSteps /\ q \in Steps /\ steps[q] \in StepRow /\ steps[q].cost = 0
  <2>1. q \in OpenSteps /\ q \in Steps /\ steps[q] \in StepRow
    BY OpenRows DEF FleetSound, Sound, T2StepComplete, CanComplete
  <2>2. steps[q].state \notin TerminalStep
    BY DEF Unsettled
  <2>3. ~(steps[q].cost > 0) /\ steps[q].cost \in Nat
    BY <2>1, <2>2 DEF EffectsNeedOutcome, TerminalStep, StepRow
  <2> QED BY <2>1, <2>3
<1>s. /\ steps'[q].cost = c
      /\ \A s \in Steps \ {q} : steps'[s] = steps[s]
    BY <1>q DEF T2StepComplete, FleetSound, Sound, LedgerTypeOK, StepRow
<1>o. OpenSteps' = OpenSteps
  <2>1. \A s \in OpenSteps' : s # q => s \in OpenSteps
    BY <1>s DEF OpenSteps
  <2> QED BY <1>q, <2>1
<1>f. RowsOf(r)' = RowsOf(r) /\ IsFiniteSet(RowsOf(r))
  <2>1. RowsOf(r) \subseteq Steps
    BY DEF RowsOf, OpenSteps
  <2>2. RowsOf(r)' = RowsOf(r)
    BY <1>o DEF RowsOf, SameChain
  <2> QED BY <2>1, <2>2, FS_Subset
<1>n. /\ \A s \in RowsOf(r) : Cost[s] \in Nat /\ Cost'[s] \in Nat
      /\ \A s \in RowsOf(r) \ {q} : Cost'[s] = Cost[s]
  <2>1. \A s \in OpenSteps : s \in Steps /\ steps[s].cost \in Nat
    BY OpenRows DEF FleetSound, Sound, StepRow
  <2> QED BY <1>s, <1>o, <2>1 DEF RowsOf, Cost
<1>r. runs[r] \in RunRow /\ r \in Runs
    BY OpenRows DEF FleetSound, Sound
<1>1. CASE steps[q].run = r
  <2>1. runs'[r].cost = runs[r].cost + c
    BY <1>r, <1>1 DEF T2StepComplete, FleetSound, Sound, LedgerTypeOK, RunRow
  <2>2. q \in RowsOf(r) /\ Cost[q] = 0 /\ Cost'[q] = c
    BY <1>q, <1>s, <1>o, <1>1 DEF RowsOf, Cost
  <2>3. /\ Total(Cost, RowsOf(r) \ {q}) \in Nat
        /\ Total(Cost, RowsOf(r)) = Cost[q] + Total(Cost, RowsOf(r) \ {q})
    BY <1>f, <1>n, <2>2, TotalSplit
  <2>4. /\ Total(Cost', RowsOf(r) \ {q}) \in Nat
        /\ Total(Cost', RowsOf(r)) = Cost'[q] + Total(Cost', RowsOf(r) \ {q})
    BY <1>f, <1>n, <2>2, TotalSplit
  <2>5. Total(Cost', RowsOf(r) \ {q}) = Total(Cost, RowsOf(r) \ {q})
    <3>1. IsFiniteSet(RowsOf(r) \ {q})
        BY <1>f, FS_Subset
    <3> QED BY <1>n, <3>1, TotalSame
  <2>6. c \in Nat /\ runs[r].cost = Total(Cost, RowsOf(r) \ {q})
    BY <2>2, <2>3
  <2> HIDE DEF q
  <2> QED BY <1>f, <2>1, <2>2, <2>4, <2>5, <2>6
<1>2. CASE steps[q].run # r
  <2>1. runs'[r] = runs[r]
    BY <1>2, <1>r DEF T2StepComplete, FleetSound, Sound, LedgerTypeOK
  <2>2. q \notin RowsOf(r)
    BY <1>2 DEF RowsOf
  <2>3. Total(Cost', RowsOf(r)) = Total(Cost, RowsOf(r))
    BY <1>f, <1>n, <2>2, TotalSame
  <2> QED BY <1>f, <2>1, <2>3
<1> QED BY <1>1, <1>2

(* While leases are kept, the cost of a run is the sum of what its steps   *)
(* cost, each of them billed once: a step that T2 reaches has no outcome,  *)
(* and a step without an outcome has cost nothing.                         *)
THEOREM StepsBilledOnce ==
    ASSUME LeaseLoss = FALSE, IsFiniteSet(Steps)
    PROVE  Spec => []BilledOnce
<1>b. BilledOnce <=> \A r \in OpenRuns : runs[r].cost = Total(Cost, RowsOf(r))
    BY DEF BilledOnce, Cost, RowsOf
<1>1. Init => BilledOnce
  <2> SUFFICES ASSUME Init, NEW r \in OpenRuns PROVE runs[r].cost = Total(Cost, RowsOf(r))
    BY <1>b
  <2>1. IsFiniteSet(RowsOf(r))
    <3>1. RowsOf(r) \subseteq Steps
        BY DEF RowsOf, OpenSteps
    <3> QED BY <3>1, FS_Subset
  <2>2. \A s \in RowsOf(r) : Cost[s] = 0
    BY DEF Init, RowsOf, Cost, OpenSteps, PendingStep, NoRow
  <2>3. runs[r].cost = 0
    BY DEF Init, OpenRuns, PendingRun
  <2> QED BY <2>1, <2>2, <2>3, TotalZero
<1>2. FleetSound /\ Unsettled /\ EffectsNeedOutcome /\ BilledOnce /\ [Next]_vars => BilledOnce'
  <2> SUFFICES ASSUME FleetSound, Unsettled, EffectsNeedOutcome, [Next]_vars,
                      \A r \in OpenRuns : runs[r].cost = Total(Cost, RowsOf(r)),
                      NEW r \in OpenRuns'
               PROVE  runs'[r].cost = Total(Cost', RowsOf(r)')
    BY <1>b DEF BilledOnce, Cost, RowsOf
  <2>1. \A s \in OpenSteps : s \in OpenSteps' /\ SameChain(s)
    BY LedgerStep, RowsStay DEF FleetSound
  <2>2. CASE Unbilled
    <3>1. r \in OpenRuns /\ runs'[r].cost = runs[r].cost
        BY <2>2 DEF Unbilled, OpenRuns
    <3> QED BY <2>1, <2>2, <3>1, SumKept
  <2>3. ASSUME NEW n \in Schedulers, Billed(n) PROVE runs'[r].cost = Total(Cost', RowsOf(r)')
    <3>1. PICK final, t, e : \E c \in Costs : T2StepComplete(Step(n), final, t, c, e)
        BY <2>3 DEF Billed
    <3>2. PICK c \in Costs : T2StepComplete(Step(n), final, t, c, e)
        BY <3>1
    <3>3. r \in OpenRuns
      <4>1. \A x \in Runs : x # steps[Step(n)].run => runs'[x] = runs[x]
        BY <3>2 DEF T2StepComplete, FleetSound, Sound, LedgerTypeOK
      <4>2. steps[Step(n)].run \in OpenRuns
        BY <3>2 DEF T2StepComplete, CanComplete, FleetSound, Sound, Linked
      <4> QED BY <4>1, <4>2 DEF OpenRuns
    <3> QED BY <2>1, <2>3, <3>2, <3>3, SumBilled DEF Billed
  <2> QED BY <2>2, <2>3, Bills
<1> QED BY <1>1, <1>2, AlwaysFleetSound, AlwaysUnsettled, ImplementsLedger, EffectsOnlyWithOutcome,
           PTL DEF Spec

-----------------------------------------------------------------------------
(* The attempts.  AttemptChain sees of a row whether it is open or how it  *)
(* ended, and of the runs what they have cost together.  To its eyes every *)
(* step of the fleet leaves all as it is, settles one row and bills it, or *)
(* adds a row: a client's, or the retry of another.                        *)

Shown(s) == IF steps[s].state \in TerminalStep THEN steps[s].state ELSE "open"

SameBill == OpenRuns' = OpenRuns /\ \A r \in OpenRuns : runs'[r].cost = runs[r].cost

Unmoved == OpenSteps' = OpenSteps /\ (\A s \in OpenSteps : Shown(s)' = Shown(s)) /\ SameBill

Settling(q, o, c) ==
    /\ q \in OpenSteps /\ steps[q].state \notin TerminalStep
    /\ o \in {"succeeded", "failed", "cancelled"} /\ c \in Costs /\ (o = "cancelled" => c = 0)
    /\ OpenSteps' = OpenSteps
    /\ steps'[q].state = o /\ \A s \in OpenSteps \ {q} : steps'[s] = steps[s]
    /\ OpenRuns' = OpenRuns /\ steps[q].run \in OpenRuns
    /\ \A r \in OpenRuns :
          runs'[r].cost = runs[r].cost + IF r = steps[q].run THEN c ELSE 0

NewRow(s, parent, retries) ==
    /\ s \in Steps \ OpenSteps /\ OpenSteps' = OpenSteps \union {s}
    /\ steps'[s].state = "pending"
    /\ steps'[s].retryOf = parent /\ steps'[s].retries = retries
    /\ \A d \in OpenSteps : steps'[d] = steps[d]
    /\ SameBill

Retried(n, s) ==
    pc[n] = "retry" /\ Step(n) \in OpenSteps /\ s \in Unused
        /\ NewRow(s, Step(n), steps[Step(n)].retries + 1)

Moves ==
    \/ Unmoved
    \/ \E q, o, c : Settling(q, o, c)
    \/ \E s \in Late : NewRow(s, NoStep, 0)
    \/ \E n \in Schedulers, s \in Steps : Retried(n, s)

(* Only T2 and CancelStep give a row its outcome, and only AddStep and     *)
(* InsertRetryStep add one.                                                *)
LEMMA EveryMove ==
    ASSUME FleetSound, Unsettled, [Next]_vars
    PROVE  Moves
<1> USE DEF FleetSound, Sound
<1> DEFINE SameRows == OpenSteps' = OpenSteps /\ \A s \in OpenSteps : Shown(s)' = Shown(s)
<1>a. SameBill /\ SameRows => Moves
    BY DEF Moves, Unmoved
<1>t. \A s \in OpenSteps : s \in Steps /\ steps[s] \in StepRow
    BY OpenRows
<1>k. UNCHANGED runs => SameBill
    BY DEF SameBill, OpenRuns
<1>s. UNCHANGED steps => SameRows
    BY DEF OpenSteps, Shown
<1>e. ASSUME NEW s \in OpenSteps, NEW row, steps' = [steps EXCEPT ![s] = row],
             \/ row.state = steps[s].state
             \/ {row.state, steps[s].state} \cap (TerminalStep \cup {"absent"}) = {}
      PROVE  SameRows
  <2>1. steps'[s] = row /\ \A q \in Steps \ {s} : steps'[q] = steps[q]
    BY <1>e, <1>t DEF LedgerTypeOK
  <2>2. OpenSteps' = OpenSteps
    BY <1>e, <1>t, <2>1 DEF OpenSteps
  <2>3. \A q \in OpenSteps : Shown(q)' = Shown(q)
    BY <1>e, <1>t, <2>1 DEF Shown
  <2> QED BY <2>2, <2>3
<1>0. CASE UNCHANGED <<runs, flows, steps>>
    BY <1>0, <1>a, <1>k, <1>s
<1>u. ASSUME NEW r, NEW to, UpdateRunState(r, to) PROVE SameBill
  <2>1. r \in Runs /\ runs[r] \in RunRow /\ ValidRunMove(runs[r].state, to) /\ to # "absent"
    BY <1>u, OpenRows, StateNames DEF UpdateRunState, ValidRunMove, RunRow, RunMoves
  <2>2. runs' = [runs EXCEPT ![r] = [runs[r] EXCEPT !.state = to, !.version = @ + 1]]
    BY <1>u DEF UpdateRunState
  <2>3. /\ runs'[r].state = to /\ runs'[r].cost = runs[r].cost
        /\ \A x \in Runs \ {r} : runs'[x] = runs[x]
    BY <2>1, <2>2 DEF LedgerTypeOK, RunRow
  <2> QED BY <1>u, <2>1, <2>3 DEF UpdateRunState, SameBill, OpenRuns
<1>1. ASSUME NEW n \in Schedulers, SelectArm(n), ~UNCHANGED <<runs, flows, steps>> PROVE Moves
  <2>1. PICK arm \in Arms : UpdateStepArm(Step(n), arm)
    BY <1>1 DEF SelectArm, UnchangedLedger, Fault
  <2>2. Step(n) \in OpenSteps
    BY <1>1 DEF SelectArm, Attached
  <2>3. [steps[Step(n)] EXCEPT !.arm = arm].state = steps[Step(n)].state
    BY <1>t, <2>2 DEF StepRow
  <2>4. SameRows /\ UNCHANGED runs
    BY <1>e, <2>1, <2>2, <2>3 DEF UpdateStepArm
  <2> QED BY <1>a, <1>k, <2>4
<1>2. ASSUME NEW n \in Schedulers, MarkRunning(n), ~UNCHANGED <<runs, flows, steps>> PROVE Moves
  <2>1. MarkStepRunning(Step(n))
    BY <1>2 DEF MarkRunning, UnchangedLedger, Fault
  <2>2. Step(n) \in OpenSteps /\ steps[Step(n)].state \in {"leased", "running"}
    BY <1>t, <2>1 DEF MarkStepRunning, CanRun, ValidStepMove, StepMoves, StepRow
  <2>3. [steps[Step(n)] EXCEPT !.state = "running"].state = "running"
    BY <1>t, <2>2 DEF StepRow
  <2>4. SameRows /\ UNCHANGED runs
    BY <1>e, <2>1, <2>2, <2>3 DEF MarkStepRunning, TerminalStep
  <2> QED BY <1>a, <1>k, <2>4
<1>3. ASSUME NEW n \in Schedulers, Cancel(n), ~UNCHANGED <<runs, flows, steps>> PROVE Moves
  <2> DEFINE q == Step(n)
  <2>1. CancelStep(q)
    BY <1>3 DEF Cancel, UnchangedLedger, Fault
  <2>2. q \in OpenSteps /\ q \in Steps /\ steps[q].state \in {"pending", "running", "cancelled"}
    BY <1>t, <2>1 DEF CancelStep, CanCancel, ValidStepMove, StepMoves, StepRow
  <2>3. [steps[q] EXCEPT !.state = "cancelled"].state = "cancelled"
    BY <1>t, <2>2 DEF StepRow
  <2>4. CASE steps[q].state = "cancelled"
    BY <1>a, <1>e, <1>k, <2>1, <2>2, <2>3, <2>4 DEF CancelStep
  <2>5. CASE steps[q].state # "cancelled"
    <3>1. steps'[q].state = "cancelled" /\ \A s \in Steps \ {q} : steps'[s] = steps[s]
        BY <2>1, <2>2, <2>3 DEF CancelStep, LedgerTypeOK
    <3>2. OpenSteps' = OpenSteps
        BY <2>2, <3>1 DEF OpenSteps
    <3>3. OpenRuns' = OpenRuns /\ steps[q].run \in OpenRuns
          /\ \A r \in OpenRuns : runs'[r].cost = runs[r].cost + IF r = steps[q].run THEN 0 ELSE 0
      <4>1. \A r \in OpenRuns : runs[r].cost \in Nat
        BY OpenRows DEF RunRow
      <4> QED BY <2>1, <2>2, <4>1 DEF CancelStep, OpenRuns, Linked
    <3>4. 0 \in Costs
        OBVIOUS
    <3>5. Settling(q, "cancelled", 0)
        BY <1>t, <2>2, <2>5, <3>1, <3>2, <3>3, <3>4 DEF Settling, TerminalStep
    <3> QED BY <3>5 DEF Moves
  <2> QED BY <2>4, <2>5
<1>4. ASSUME NEW n \in Schedulers, LeaseMirror(n), ~UNCHANGED <<runs, flows, steps>> PROVE Moves
  <2>1. PICK e \in Estimates : T1LeaseMirror(Step(n), e)
    BY <1>4 DEF LeaseMirror, UnchangedLedger, Fault
  <2>2. /\ Step(n) \in OpenSteps /\ Step(n) \in Steps /\ RunIdOf(n) \in OpenRuns
        /\ steps[Step(n)].state \in {"pending", "leased"}
    BY <1>t, <2>1 DEF T1LeaseMirror, CanLease, Linked, RunIdOf, ValidStepMove, StepMoves, StepRow
  <2>3. [steps[Step(n)] EXCEPT !.state = "leased", !.mirror = "live"].state = "leased"
    BY <1>t, <2>2 DEF StepRow
  <2>4. steps' = [steps EXCEPT ![Step(n)] =
                     [steps[Step(n)] EXCEPT !.state = "leased", !.mirror = "live"]]
    BY <2>1 DEF T1LeaseMirror
  <2>5. SameRows
    BY <1>e, <2>2, <2>3, <2>4 DEF TerminalStep
  <2>6. SameBill
    <3>1. runs[RunIdOf(n)] \in RunRow /\ RunIdOf(n) \in Runs
        BY <2>2, OpenRows
    <3>2. runs' = [runs EXCEPT ![RunIdOf(n)] = [runs[RunIdOf(n)] EXCEPT !.used = @ + e]]
        BY <2>1 DEF T1LeaseMirror, RunIdOf
    <3>3. /\ runs'[RunIdOf(n)].cost = runs[RunIdOf(n)].cost
          /\ runs'[RunIdOf(n)].state = runs[RunIdOf(n)].state
          /\ \A r \in Runs \ {RunIdOf(n)} : runs'[r] = runs[r]
        BY <3>1, <3>2 DEF LedgerTypeOK, RunRow
    <3> QED BY <3>3 DEF SameBill, OpenRuns
  <2> QED BY <1>a, <2>5, <2>6
<1>5. ASSUME NEW n \in Schedulers, NEW final \in {"succeeded", "failed"}, NEW t, NEW c \in Costs, NEW x,
             pc[n] \in Dispatched, T2StepComplete(Step(n), final, t, c, x)
      PROVE  Moves
  <2> DEFINE q == Step(n)
             r == steps[q].run
  <2>1. /\ q \in OpenSteps /\ q \in Steps /\ steps[q] \in StepRow /\ steps[q].state \notin TerminalStep
        /\ r \in OpenRuns /\ r \in Runs /\ runs[r] \in RunRow
    BY <1>5, <1>t, OpenRows DEF T2StepComplete, CanComplete, Unsettled, Linked
  <2>2. steps'[q].state = final /\ \A s \in Steps \ {q} : steps'[s] = steps[s]
    BY <1>5, <2>1 DEF T2StepComplete, LedgerTypeOK, StepRow
  <2>3. OpenSteps' = OpenSteps
    BY <2>1, <2>2 DEF OpenSteps
  <2>4. /\ runs'[r].cost = runs[r].cost + c /\ runs'[r].state = runs[r].state
        /\ \A y \in Runs \ {r} : runs'[y] = runs[y]
    BY <1>5, <2>1 DEF T2StepComplete, LedgerTypeOK, RunRow
  <2> HIDE DEF q, r
  <2>5. OpenRuns' = OpenRuns /\ \A y \in OpenRuns : runs'[y].cost = runs[y].cost + IF y = r THEN c ELSE 0
    <3>1. \A y \in OpenRuns : y \in Runs /\ runs[y].cost \in Nat
        BY OpenRows DEF RunRow
    <3> QED BY <2>1, <2>4, <3>1 DEF OpenRuns
  <2>6. Settling(q, final, c)
    BY <1>5, <1>t, <2>1, <2>2, <2>3, <2>5 DEF Settling, r
  <2> QED BY <2>6 DEF Moves
<1>6. ASSUME NEW n \in Schedulers, CommitResult(n), ~UNCHANGED <<runs, flows, steps>> PROVE Moves
  <2>1. pc[n] \in Dispatched
    BY <1>6 DEF CommitResult, Dispatched
  <2>2. \E final \in {"succeeded", "failed"}, c \in Costs : \E t, x : T2StepComplete(Step(n), final, t, c, x)
    BY <1>6 DEF CommitResult, UnchangedLedger, Fault
  <2> QED BY <1>5, <2>1, <2>2
<1>7. ASSUME NEW n \in Schedulers, RecordFailure(n), ~UNCHANGED <<runs, flows, steps>> PROVE Moves
  <2>1. pc[n] \in Dispatched
    BY <1>7 DEF RecordFailure, Dispatched
  <2>2. T2StepComplete(Step(n), "failed", 0, 0, {}) /\ 0 \in Costs
    BY <1>7 DEF RecordFailure, UnchangedLedger, Fault
  <2> QED BY <1>5, <2>1, <2>2
<1>8. ASSUME NEW s \in Steps \ OpenSteps, NEW f, NEW r, NEW arm, NEW parent, NEW k,
             steps' = [steps EXCEPT ![s] = PendingStep(f, r, arm, parent, k)], UNCHANGED runs
      PROVE  NewRow(s, parent, k)
  <2>1. steps'[s] = PendingStep(f, r, arm, parent, k) /\ \A q \in Steps \ {s} : steps'[q] = steps[q]
    BY <1>8 DEF LedgerTypeOK
  <2>2. OpenSteps' = OpenSteps \union {s}
    <3>1. steps'[s].state = "pending" /\ s \in Steps
        BY <2>1 DEF PendingStep
    <3> QED BY <2>1, <3>1 DEF OpenSteps
  <2>3. \A d \in OpenSteps : steps'[d] = steps[d]
    BY <1>t, <2>1
  <2> QED BY <1>8, <1>k, <2>1, <2>2, <2>3 DEF NewRow, PendingStep
<1>9. ASSUME NEW n \in Schedulers, Retry(n), ~UNCHANGED <<runs, flows, steps>> PROVE Moves
  <2>1. PICK s \in Unused : InsertRetryStep(Step(n), job[n].arm, s)
    BY <1>9 DEF Retry, UnchangedLedger, Fault
  <2>2. s \in Steps \ OpenSteps
    BY <2>1 DEF Unused
  <2>3. NewRow(s, Step(n), steps[Step(n)].retries + 1) /\ Step(n) \in OpenSteps
    BY <1>8, <2>1, <2>2 DEF InsertRetryStep
  <2> QED BY <1>9, <2>1, <2>2, <2>3 DEF Retry, Retried, Moves
<1>10. ASSUME NEW s \in Late, Submit(s) PROVE Moves
  <2>1. s \in Steps \ OpenSteps
    BY <1>10 DEF Submit, AddStep
  <2>2. NewRow(s, NoStep, 0)
    BY <1>8, <1>10, <2>1 DEF Submit, AddStep
  <2> QED BY <2>2 DEF Moves
<1>11. ASSUME NEW s, T3LeaseRenewal(s) \/ MirrorLapses(s) PROVE Moves
  <2>1. CASE UNCHANGED steps
    BY <1>11, <1>a, <1>k, <1>s, <2>1 DEF T3LeaseRenewal, MirrorLapses
  <2>2. CASE ~UNCHANGED steps
    <3>1. PICK mirror : steps' = [steps EXCEPT ![s].mirror = mirror]
        BY <1>11, <2>2 DEF T3LeaseRenewal, MirrorLapses
    <3>2. CASE s \in OpenSteps
      <4>1. [steps[s] EXCEPT !.mirror = mirror].state = steps[s].state
        BY <1>t, <3>2 DEF StepRow
      <4>2. SameRows
        BY <1>e, <3>1, <3>2, <4>1
      <4> QED BY <1>11, <1>a, <1>k, <4>2 DEF T3LeaseRenewal, MirrorLapses
    <3>3. CASE s \notin Steps
        BY <2>2, <3>1, <3>3 DEF LedgerTypeOK
    <3>4. s \in Steps => s \in OpenSteps
        BY <1>11, <2>2 DEF T3LeaseRenewal, MirrorLapses, OpenSteps
    <3> QED BY <3>2, <3>3, <3>4
  <2> QED BY <2>1, <2>2
<1>12. ASSUME T4ExpiryBackupScanner PROVE Moves
  <2>1. \A s \in Expired : s \in OpenSteps /\ steps[s].state \in {"leased", "running"}
    BY DEF Expired, OpenSteps
  <2>2. \A s \in Expired : BackToPool(steps[s]).state = "pending"
    BY <1>t, <2>1 DEF BackToPool, StepRow
  <2>3. \A s \in Steps : steps'[s] = IF s \in Expired THEN BackToPool(steps[s]) ELSE steps[s]
    BY <1>12 DEF T4ExpiryBackupScanner
  <2>4. OpenSteps' = OpenSteps
    BY <2>1, <2>2, <2>3 DEF OpenSteps
  <2>5. \A s \in OpenSteps : Shown(s)' = Shown(s)
    BY <1>t, <2>1, <2>2, <2>3 DEF Shown, TerminalStep
  <2> QED BY <1>12, <1>a, <1>k, <2>4, <2>5 DEF T4ExpiryBackupScanner
<1>13. ASSUME NEW n \in Schedulers, EnsureRunRunning(n) \/ CasRun(n), ~UNCHANGED <<runs, flows, steps>>
       PROVE  Moves
  <2>1. \E r, to : UpdateRunState(r, to)
    BY <1>13 DEF EnsureRunRunning, CasRun, UnchangedLedger, Fault
  <2> QED BY <1>a, <1>s, <1>u, <2>1 DEF UpdateRunState
<1>14. ASSUME NEW n \in Schedulers, AssignFlow(n) \/ RunFlow(n) \/ CasFlow(n) PROVE Moves
  <2>1. UNCHANGED <<runs, steps>>
    BY <1>14 DEF AssignFlow, RunFlow, CasFlow, UpdateFlowState, UnchangedLedger, Fault
  <2> QED BY <1>a, <1>k, <1>s, <2>1
<1>15. ASSUME NEW n \in Schedulers,
              Tick(n) \/ Acquire(n) \/ Execute(n) \/ Release(n) \/ CountStepsByFlow(n)
                  \/ CountFlowsByRun(n) \/ ReadFlow(n) \/ ReadRun(n) \/ Finish(n) \/ Keepalive(n)
       PROVE  Moves
  <2>1. UNCHANGED <<runs, flows, steps>>
    BY <1>15 DEF Tick, Acquire, Execute, Release, CountStepsByFlow, CountFlowsByRun, Count,
                 ReadView, ReadFlow, ReadRun, Finish, Keepalive, UnchangedLedger, Fault
  <2> QED BY <1>0, <2>1
<1>16. ASSUME NEW n \in Schedulers, Dispatch(n) PROVE Moves
    BY <1>0, <1>1, <1>2, <1>3, <1>4, <1>6, <1>7, <1>9, <1>13, <1>14, <1>15, <1>16 DEF Dispatch
<1>17. ASSUME NEW n \in Schedulers, RenewMirror(n) \/ ExpiryScan(n) PROVE Moves
    BY <1>0, <1>11, <1>12, <1>17 DEF RenewMirror, ExpiryScan, UnchangedLedger
<1>18. ASSUME NEW r, NEW to, TransitionRun(r, to) PROVE Moves
    BY <1>18, <1>a, <1>s, <1>u DEF TransitionRun, UpdateRunState
<1>19. ASSUME Environment PROVE Moves
  <2>1. ASSUME NEW s, LeaseExpires(s) PROVE Moves
    BY <1>0, <2>1 DEF LeaseExpires
  <2>2. ASSUME NEW n, Crash(n) PROVE Moves
    BY <1>0, <2>2 DEF Crash
  <2>3. ASSUME NEW s, MirrorExpires(s) PROVE Moves
    BY <1>11, <2>3 DEF MirrorExpires
  <2> QED BY <1>10, <1>18, <1>19, <2>1, <2>2, <2>3 DEF Environment
<1> QED BY <1>0, <1>15, <1>16, <1>17, <1>19 DEF Next, vars

-----------------------------------------------------------------------------
(* The roots of the retry chains.                                          *)

(* f leads every row to the row that its chain starts with.                *)
Leads(f) ==
    f = [s \in OpenSteps |-> IF steps[s].retryOf = NoStep THEN s ELSE f[steps[s].retryOf]]

(* Rows that clients submitted start a chain, and chains are bounded.      *)
Numbered ==
    \A s \in OpenSteps :
        /\ steps[s].retries \in Nat /\ steps[s].retries <= MaxRetries
        /\ steps[s].retryOf = NoStep => steps[s].retries = 0 /\ s \in DOMAIN Planned

(* The numbers fall towards the root, so that Root, which is defined by    *)
(* recursion, exists: built up from the rows with the lowest numbers.      *)
LEMMA RootLeads == ChainsWellFounded /\ Numbered => Leads(Root)
<1> SUFFICES ASSUME ChainsWellFounded, Numbered PROVE Leads(Root)
    OBVIOUS
<1> DEFINE Low(n) == {s \in OpenSteps : steps[s].retries < n}
           Value(g, s) == IF steps[s].retryOf = NoStep THEN s ELSE g[steps[s].retryOf]
           Done == {n \in Nat : \E g : g = [s \in Low(n) |-> Value(g, s)]}
<1>0. 0 \in Done
  <2> DEFINE g == [s \in Low(0) |-> 0]
  <2>1. Low(0) = {}
    BY DEF Numbered
  <2>2. g = [s \in Low(0) |-> Value(g, s)]
    BY <2>1
  <2> QED BY <2>2
<1>1. ASSUME NEW n \in Nat, n \in Done PROVE n + 1 \in Done
  <2>1. PICK g : g = [s \in Low(n) |-> Value(g, s)]
    BY <1>1
  <2> DEFINE h == [s \in Low(n + 1) |-> IF s \in Low(n) THEN g[s] ELSE Value(g, s)]
  <2>2. Low(n) \subseteq Low(n + 1)
    BY DEF Numbered
  <2>3. \A s \in Low(n + 1) : steps[s].retryOf # NoStep => steps[s].retryOf \in Low(n)
    BY DEF Numbered, ChainsWellFounded
  <2>4. \A s \in Low(n) : g[s] = Value(g, s)
    <3> HIDE DEF Value, Low
    <3> QED BY <2>1
  <2>5. \A s \in Low(n + 1) : h[s] = Value(g, s)
    <3> HIDE DEF Value, Low
    <3> QED BY <2>4
  <2>6. \A s \in Low(n) : h[s] = g[s]
    <3> HIDE DEF Value, Low
    <3> QED BY <2>2
  <2>7. \A s \in Low(n + 1) : Value(g, s) = Value(h, s)
    <3> HIDE DEF h, Low
    <3> QED BY <2>3, <2>6
  <2>8. h = [s \in Low(n + 1) |-> Value(h, s)]
    <3>1. h = [s \in Low(n + 1) |-> Value(g, s)]
      <4> HIDE DEF Value, Low
      <4> QED BY <2>4
    <3> HIDE DEF h, Value, Low
    <3> QED BY <2>7, <3>1
  <2> HIDE DEF h, Value, Low
  <2> QED BY <2>8
<1>2. MaxRetries + 1 \in Nat
    OBVIOUS
<1>3. MaxRetries + 1 \in Done
  <2> HIDE DEF Done
  <2> QED BY <1>0, <1>1, <1>2, SetInduction
<1>4. Low(MaxRetries + 1) = OpenSteps
    BY DEF Numbered
<1>5. \E g : Leads(g)
    BY <1>3, <1>4 DEF Leads
<1>6. Root = CHOOSE g : Leads(g)
    BY DEF Root, Leads
<1> QED BY <1>5, <1>6

(* Every row has a root, a row that a client submitted.                    *)
LEMMA RootIs ==
    ASSUME ChainsWellFounded, Numbered
    PROVE  \A s \in OpenSteps :
              /\ Root[s] = IF steps[s].retryOf = NoStep THEN s ELSE Root[steps[s].retryOf]
              /\ Root[s] \in OpenSteps /\ steps[Root[s]].retryOf = NoStep
<1>1. \A s \in OpenSteps :
          Root[s] = IF steps[s].retryOf = NoStep THEN s ELSE Root[steps[s].retryOf]
    BY RootLeads DEF Leads
<1> DEFINE Good(s) == Root[s] \in OpenSteps /\ steps[Root[s]].retryOf = NoStep
           Done == {n \in Nat : \A s \in OpenSteps : steps[s].retries <= n => Good(s)}
<1>p. \A s \in OpenSteps : steps[s].retryOf # NoStep =>
          /\ steps[s].retryOf \in OpenSteps /\ steps[steps[s].retryOf].retries \in Nat
          /\ steps[steps[s].retryOf].retries + 1 = steps[s].retries
    BY DEF ChainsWellFounded, Numbered
<1>2. 0 \in Done
  <2>1. ASSUME NEW s \in OpenSteps, steps[s].retries <= 0 PROVE Good(s)
    <3>1. steps[s].retryOf = NoStep
        BY <1>p, <2>1
    <3> QED BY <1>1, <3>1
  <2> QED BY <2>1
<1>3. ASSUME NEW n \in Nat, n \in Done PROVE n + 1 \in Done
  <2> SUFFICES ASSUME NEW s \in OpenSteps, steps[s].retries <= n + 1 PROVE Good(s)
    OBVIOUS
  <2>1. CASE steps[s].retryOf = NoStep
    BY <1>1, <2>1
  <2>2. CASE steps[s].retryOf # NoStep
    <3>1. Good(steps[s].retryOf) /\ Root[s] = Root[steps[s].retryOf]
        BY <1>1, <1>3, <1>p, <2>2
    <3> QED BY <3>1
  <2> QED BY <2>1, <2>2
<1>4. \A s \in OpenSteps : Good(s)
  <2>1. \A n \in Nat : n \in Done
    <3> HIDE DEF Done
    <3> QED BY <1>2, <1>3, SetInduction
  <2> QED BY <2>1 DEF Numbered
<1> QED BY <1>1, <1>4

(* A step that keeps the rows keeps where their chains start.              *)
LEMMA RootStays ==
    ASSUME ChainsWellFounded, Numbered, ChainsWellFounded', Numbered',
           \A s \in OpenSteps : s \in OpenSteps' /\ SameChain(s)
    PROVE  \A s \in OpenSteps : Root'[s] = Root[s]
<1> DEFINE Done == {n \in Nat : \A s \in OpenSteps : steps[s].retries <= n => Root'[s] = Root[s]}
<1>1. \A s \in OpenSteps :
          /\ Root[s] = IF steps[s].retryOf = NoStep THEN s ELSE Root[steps[s].retryOf]
          /\ Root'[s] = IF steps[s].retryOf = NoStep THEN s ELSE Root'[steps[s].retryOf]
  <2>1. \A s \in OpenSteps' :
          Root'[s] = IF steps'[s].retryOf = NoStep THEN s ELSE Root'[steps'[s].retryOf]
    <3>1. (ChainsWellFounded /\ Numbered => Leads(Root))'
        BY RootLeads, PTL
    <3>2. Leads(Root)'
        BY <3>1
    <3> QED BY <3>2 DEF Leads
  <2>2. \A s \in OpenSteps :
          Root[s] = IF steps[s].retryOf = NoStep THEN s ELSE Root[steps[s].retryOf]
    BY RootLeads DEF Leads
  <2> QED BY <2>1, <2>2 DEF SameChain
<1>p. \A s \in OpenSteps : steps[s].retryOf # NoStep =>
          /\ steps[s].retryOf \in OpenSteps /\ steps[steps[s].retryOf].retries \in Nat
          /\ steps[steps[s].retryOf].retries + 1 = steps[s].retries
    BY DEF ChainsWellFounded, Numbered
<1>2. 0 \in Done
  <2>1. \A s \in OpenSteps : steps[s].retries <= 0 => steps[s].retryOf = NoStep
    BY <1>p
  <2> QED BY <1>1, <2>1
<1>3. ASSUME NEW n \in Nat, n \in Done PROVE n + 1 \in Done
  <2> SUFFICES ASSUME NEW s \in OpenSteps, steps[s].retries <= n + 1 PROVE Root'[s] = Root[s]
    OBVIOUS
  <2>1. CASE steps[s].retryOf = NoStep
    BY <1>1, <2>1
  <2>2. CASE steps[s].retryOf # NoStep
    BY <1>1, <1>3, <1>p, <2>2
  <2> QED BY <2>1, <2>2
<1>4. \A n \in Nat : n \in Done
  <2> HIDE DEF Done
  <2> QED BY <1>2, <1>3, SetInduction
<1> QED BY <1>4 DEF Numbered

(* The attempts of a task are a line: one of each number, from 0 on.       *)
LEMMA OneOfEach ==
    ASSUME ChainsWellFounded, Numbered, RetryOfFailed, NEW t
    PROVE  \A s, u \in Attempts(t) : steps[s].retries = steps[u].retries => s = u
<1> DEFINE Done == {n \in Nat : \A s, u \in Attempts(t) :
                       steps[s].retries = n /\ steps[u].retries = n => s = u}
<1>p. \A s \in Attempts(t) :
          /\ s \in OpenSteps
          /\ Root[s] = IF steps[s].retryOf = NoStep THEN s ELSE Root[steps[s].retryOf]
          /\ steps[s].retryOf # NoStep =>
               /\ steps[s].retryOf \in Attempts(t) /\ steps[steps[s].retryOf].retries \in Nat
               /\ steps[steps[s].retryOf].retries + 1 = steps[s].retries
  <2>1. \A s \in OpenSteps :
          Root[s] = IF steps[s].retryOf = NoStep THEN s ELSE Root[steps[s].retryOf]
    BY RootIs
  <2> QED BY <2>1 DEF Attempts, ChainsWellFounded, Numbered
<1>z. \A s \in Attempts(t) : steps[s].retryOf = NoStep => s = t /\ steps[s].retries = 0
    BY <1>p DEF Attempts, Numbered
<1>0. 0 \in Done
  <2>1. \A s \in Attempts(t) : steps[s].retries = 0 => s = t
    BY <1>p, <1>z
  <2> QED BY <2>1
<1>1. ASSUME NEW n \in Nat, n \in Done PROVE n + 1 \in Done
  <2> SUFFICES ASSUME NEW s \in Attempts(t), NEW u \in Attempts(t),
                      steps[s].retries = n + 1, steps[u].retries = n + 1
               PROVE  s = u
    OBVIOUS
  <2>1. steps[s].retryOf # NoStep /\ steps[u].retryOf # NoStep
    BY <1>z
  <2>2. steps[s].retryOf = steps[u].retryOf
    BY <1>1, <1>p, <2>1
  <2> QED BY <1>p, <2>1, <2>2 DEF RetryOfFailed
<1>2. \A n \in Nat : n \in Done
  <2> HIDE DEF Done
  <2> QED BY <1>0, <1>1, SetInduction
<1> QED BY <1>2 DEF Numbered, Attempts

-----------------------------------------------------------------------------
(* A set of numbers without gaps is an initial segment.                    *)
LEMMA NoGaps ==
    ASSUME NEW K, NEW b \in Nat, K \subseteq 0..b, \A k \in Nat : k + 1 \in K => k \in K
    PROVE  \E n \in Nat : K = 0..(n - 1)
<1> DEFINE Reached == {j \in Nat : \A k \in Nat : k + j \in K => k \in K}
           Done == {j \in Nat : \A k \in Nat : k >= j => k \notin K}
           Least == {j \in Nat : j \in Done => \E n \in Nat : K = 0..(n - 1)}
<1>1. \A j \in Nat : j \in Reached
  <2>1. 0 \in Reached
    OBVIOUS
  <2>2. ASSUME NEW j \in Nat, j \in Reached PROVE j + 1 \in Reached
    <3> SUFFICES ASSUME NEW k \in Nat, k + (j + 1) \in K PROVE k \in K
        OBVIOUS
    <3>1. (k + j) + 1 \in K /\ k + j \in Nat
        OBVIOUS
    <3>2. k + j \in K
        BY <3>1
    <3> QED BY <2>2, <3>2
  <2> HIDE DEF Reached
  <2> QED BY <2>1, <2>2, SetInduction
<1>2. \A i, k \in Nat : i <= k /\ k \in K => i \in K
  <2> SUFFICES ASSUME NEW i \in Nat, NEW k \in Nat, i <= k, k \in K PROVE i \in K
    OBVIOUS
  <2>1. k - i \in Nat /\ i + (k - i) = k
    OBVIOUS
  <2>2. k - i \in Reached
    <3> HIDE DEF Reached
    <3> QED BY <1>1, <2>1
  <2> QED BY <2>1, <2>2
<1>3. \A j \in Nat : j \in Least
  <2>1. 0 \in Least
    <3>1. 0 \in Done => K = 0..(0 - 1)
        OBVIOUS
    <3> QED BY <3>1
  <2>2. ASSUME NEW j \in Nat, j \in Least PROVE j + 1 \in Least
    <3> SUFFICES ASSUME j + 1 \in Done PROVE \E n \in Nat : K = 0..(n - 1)
        OBVIOUS
    <3>1. CASE j \in K
      <4>1. \A k \in K : k \in Nat /\ k <= j
        OBVIOUS
      <4>2. \A k \in 0..j : k \in K
        BY <1>2, <3>1
      <4>3. K \subseteq 0..j /\ 0..j \subseteq K
        BY <4>1, <4>2
      <4>4. K = 0..j
        BY <4>3
      <4>5. (j + 1) - 1 = j
        OBVIOUS
      <4> QED BY <4>4, <4>5
    <3>2. CASE j \notin K
      <4>1. j \in Done
        BY <3>2
      <4> QED BY <2>2, <4>1
    <3> QED BY <3>1, <3>2
  <2> HIDE DEF Least
  <2> QED BY <2>1, <2>2, SetInduction
<1>4. b + 1 \in Done
    OBVIOUS
<1>5. b + 1 \in Least
  <2> HIDE DEF Least
  <2> QED BY <1>3
<1> QED BY <1>4, <1>5

ChainsSound == ChainsWellFounded /\ Numbered /\ RetryOfFailed

(* The attempts of a task have the numbers from 0 on.                      *)
LEMMA AllNumbers ==
    ASSUME ChainsSound, IsFiniteSet(Steps), NEW t
    PROVE  /\ Cardinality(Attempts(t)) \in Nat
           /\ {steps[s].retries : s \in Attempts(t)} = 0..(Cardinality(Attempts(t)) - 1)
<1> DEFINE A == Attempts(t)
           K == {steps[s].retries : s \in A}
           number == [s \in A |-> steps[s].retries]
<1> USE DEF ChainsSound
<1>1. IsFiniteSet(A)
  <2>1. A \subseteq Steps
    BY DEF Attempts, OpenSteps
  <2> QED BY <2>1, FS_Subset
<1>2. MaxRetries \in Nat /\ K \subseteq 0..MaxRetries
    BY DEF Numbered, Attempts
<1>3. ASSUME NEW k \in Nat, k + 1 \in K PROVE k \in K
  <2>1. PICK s \in A : steps[s].retries = k + 1
    BY <1>3
  <2>2. s \in OpenSteps /\ Root[s] = t
    BY DEF Attempts
  <2>3. steps[s].retryOf # NoStep
    BY <2>1, <2>2 DEF Numbered
  <2>4. /\ steps[s].retryOf \in OpenSteps /\ Root[steps[s].retryOf] = t
        /\ steps[steps[s].retryOf].retries = k
    BY <2>1, <2>2, <2>3, RootIs DEF ChainsWellFounded, Numbered
  <2> QED BY <2>4 DEF Attempts
<1>4. PICK n \in Nat : K = 0..(n - 1)
  <2> HIDE DEF K
  <2> QED BY <1>2, <1>3, NoGaps
<1>5. Cardinality(K) = Cardinality(A)
  <2>1. number \in [A -> K]
    OBVIOUS
  <2>2. \A s, u \in A : number[s] = number[u] => s = u
    BY OneOfEach
  <2>3. \A k \in K : \E s \in A : number[s] = k
    OBVIOUS
  <2> HIDE DEF number, K, A
  <2>4. number \in Bijection(A, K)
    BY <2>1, <2>2, <2>3 DEF Bijection, Injection, Surjection, IsInjective
  <2> QED BY <1>1, <2>4, FS_Bijection DEF ExistsBijection
<1>6. Cardinality(K) = n
  <2>1. Cardinality(0..(n - 1)) = n
    BY FS_Interval
  <2> HIDE DEF K
  <2> QED BY <1>4, <2>1
<1> HIDE DEF A, K
<1>7. K = 0..(Cardinality(A) - 1) /\ Cardinality(A) \in Nat
    BY <1>4, <1>5, <1>6
<1> QED BY <1>7 DEF A, K

(* x is what the rows of task t look like, in the order of their numbers.  *)
Line(x, t) ==
    /\ x \in Seq(TerminalStep \cup {"open"})
    /\ \A s \in Attempts(t) : /\ steps[s].retries + 1 \in 1..Len(x)
                              /\ x[steps[s].retries + 1] = Shown(s)
    /\ \A k \in 1..Len(x) : \E s \in Attempts(t) : steps[s].retries + 1 = k

Lines == \A t \in DOMAIN Planned : Line(AttemptStates(t), t)

(* AttemptStates reads one row for every number.                           *)
LEMMA LinesStand ==
    ASSUME IsFiniteSet(Steps)
    PROVE  ChainsSound => Lines
<1> SUFFICES ASSUME ChainsSound, NEW t \in DOMAIN Planned
             PROVE  Line(AttemptStates(t), t)
    BY DEF Lines
<1> DEFINE x == AttemptStates(t)
           m == Cardinality(Attempts(t))
           row(k) == CHOOSE s \in Attempts(t) : steps[s].retries = k - 1
<1>1. m \in Nat /\ {steps[s].retries : s \in Attempts(t)} = 0..(m - 1)
    BY AllNumbers
<1>2. \A s \in Attempts(t) : steps[s].retries \in Nat /\ steps[s].retries + 1 \in 1..m
  <2> HIDE DEF m
  <2>1. \A s \in Attempts(t) : steps[s].retries \in 0..(m - 1)
    BY <1>1
  <2> QED BY <1>1, <2>1
<1>3. \A k \in 1..m : row(k) \in Attempts(t) /\ steps[row(k)].retries = k - 1
  <2>1. \A k \in 1..m : k - 1 \in 0..(m - 1)
    BY <1>1
  <2>2. \A k \in 1..m : \E s \in Attempts(t) : steps[s].retries = k - 1
    <3> HIDE DEF m
    <3> QED BY <1>1, <2>1
  <2> QED BY <2>2
<1>4. x = [k \in 1..m |-> Shown(row(k))]
    BY DEF AttemptStates, Shown
<1>5. \A s : Shown(s) \in TerminalStep \cup {"open"}
    BY DEF Shown
<1>6. \A s \in Attempts(t) : row(steps[s].retries + 1) = s
  <2>1. \A s, u \in Attempts(t) : steps[s].retries = steps[u].retries => s = u
    BY OneOfEach DEF ChainsSound
  <2> TAKE s \in Attempts(t)
  <2>2. /\ row(steps[s].retries + 1) \in Attempts(t)
        /\ steps[row(steps[s].retries + 1)].retries = (steps[s].retries + 1) - 1
    <3> HIDE DEF row, m
    <3> QED BY <1>2, <1>3
  <2>3. (steps[s].retries + 1) - 1 = steps[s].retries
    BY <1>2
  <2> HIDE DEF row
  <2> QED BY <2>1, <2>2, <2>3
<1> HIDE DEF x, row, m
<1>7. x \in Seq(TerminalStep \cup {"open"}) /\ Len(x) = m
    BY <1>1, <1>4, <1>5
<1>8. \A s \in Attempts(t) : steps[s].retries + 1 \in 1..Len(x) /\ x[steps[s].retries + 1] = Shown(s)
    BY <1>2, <1>4, <1>6, <1>7
<1>9. \A k \in 1..Len(x) : \E s \in Attempts(t) : steps[s].retries + 1 = k
  <2> TAKE k \in 1..Len(x)
  <2>1. row(k) \in Attempts(t) /\ steps[row(k)].retries = k - 1 /\ k \in Nat
    BY <1>1, <1>3, <1>7
  <2>2. steps[row(k)].retries + 1 = k
    BY <2>1
  <2> QED BY <2>1, <2>2
<1>10. Line(x, t)
    BY <1>7, <1>8, <1>9 DEF Line
<1> QED BY <1>10 DEF x

-----------------------------------------------------------------------------
(* Rows are numbered: by Retry, which the policy has allowed.              *)
RetryAllowed == \A n \in Schedulers : pc[n] = "retry" => steps[Step(n)].retries < MaxRetries

LEMMA AlwaysRetryAllowed == Spec => []RetryAllowed
<1>1. Init => RetryAllowed
    BY DEF Init, RetryAllowed
<1>2. FleetSound /\ RetryAllowed /\ [Next]_vars => RetryAllowed'
  <2> SUFFICES ASSUME FleetSound, RetryAllowed, [Next]_vars, NEW n \in Schedulers, pc'[n] = "retry"
               PROVE  (steps[Step(n)].retries < MaxRetries)'
    BY DEF RetryAllowed
  <2>t. pc \in [Schedulers -> Stages]
    BY DEF FleetSound, FleetTypeOK
  <2>1. Step(n)' = Step(n) /\ pc[n] # "idle" /\ steps[Step(n)].retries < MaxRetries
    <3>1. CASE ~Dispatch(n)
        BY <3>1, Bystander DEF RetryAllowed
    <3>2. CASE Dispatch(n)
      <4>1. \/ RecordFailure(n) \/ Release(n)
        BY <3>2, <2>t DEF Dispatch, Tick, Acquire, SelectArm, Cancel, LeaseMirror,
             EnsureRunRunning, AssignFlow, RunFlow, MarkRunning, Execute, CommitResult, Retry,
             CountStepsByFlow, CountFlowsByRun, Count, ReadView, ReadFlow, ReadRun, CasFlow,
             CasRun, Finish, Goto, Stages
      <4> QED BY <4>1, <2>t DEF RecordFailure, Release, AfterOutcome, WantsRetry, Goto, local, Step
    <3> QED BY <3>1, <3>2
  <2>2. Step(n) \in OpenSteps
    BY <2>1 DEF FleetSound, Attached
  <2>3. SameChain(Step(n))
    BY <2>2, LedgerStep, RowsStay DEF FleetSound
  <2> QED BY <2>1, <2>3 DEF SameChain
<1> QED BY <1>1, <1>2, AlwaysFleetSound, PTL DEF Spec

LEMMA AlwaysNumbered ==
    ASSUME LeaseLoss = FALSE
    PROVE  Spec => []Numbered
<1>1. Init => Numbered
    BY DEF Init, Numbered, OpenSteps, PendingStep, NoRow
<1>2. FleetSound /\ Unsettled /\ RetryAllowed /\ Numbered /\ [Next]_vars => Numbered'
  <2> SUFFICES ASSUME FleetSound, Unsettled, RetryAllowed, Numbered, [Next]_vars,
                      NEW s \in OpenSteps'
               PROVE  /\ steps'[s].retries \in Nat /\ steps'[s].retries <= MaxRetries
                      /\ steps'[s].retryOf = NoStep => steps'[s].retries = 0 /\ s \in DOMAIN Planned
    BY DEF Numbered
  <2>1. CASE s \in OpenSteps
    <3>1. SameChain(s)
        BY <2>1, LedgerStep, RowsStay DEF FleetSound
    <3> QED BY <2>1, <3>1 DEF Numbered, SameChain
  <2>2. CASE s \notin OpenSteps
    <3>1. \/ \E q \in Late : NewRow(q, NoStep, 0)
          \/ \E n \in Schedulers, q \in Steps : Retried(n, q)
        BY <2>2, EveryMove DEF Moves, Unmoved, Settling
    <3>2. ASSUME NEW q \in Late, NewRow(q, NoStep, 0), q = s
          PROVE steps'[s].retryOf = NoStep /\ steps'[s].retries = 0 /\ s \in DOMAIN Planned
        BY <3>2 DEF NewRow
    <3>3. ASSUME NEW n \in Schedulers, Retried(n, s)
          PROVE  /\ steps'[s].retries \in Nat /\ steps'[s].retries <= MaxRetries
                 /\ steps'[s].retryOf # NoStep
      <4>1. /\ steps'[s].retryOf = Step(n) /\ steps'[s].retries = steps[Step(n)].retries + 1
            /\ Step(n) \in OpenSteps /\ steps[Step(n)].retries < MaxRetries
        BY <3>3 DEF Retried, NewRow, RetryAllowed
      <4>2. Step(n) # NoStep /\ steps[Step(n)].retries \in Nat
        BY <4>1 DEF OpenSteps, Numbered
      <4> QED BY <4>1, <4>2
    <3>4. \A q, k, p : NewRow(q, p, k) => q = s
        BY <2>2 DEF NewRow
    <3>5. MaxRetries \in Nat
        OBVIOUS
    <3> QED BY <3>1, <3>2, <3>3, <3>4, <3>5 DEF Retried
  <2> QED BY <2>1, <2>2
<1> QED BY <1>1, <1>2, AlwaysFleetSound, AlwaysUnsettled, AlwaysRetryAllowed, LeaseLoss = FALSE,
           PTL DEF Spec

-----------------------------------------------------------------------------
(* The steps.  Rows that stay keep their place in their chain; the last    *)
(* attempt of a task is the one that is not superseded.                    *)
LEMMA PlacesStay ==
    ASSUME FleetSound, ChainsSound, ChainsSound', [Next]_vars
    PROVE  \A s \in OpenSteps : /\ s \in OpenSteps' /\ steps'[s].retries = steps[s].retries
                                /\ Root'[s] = Root[s] /\ Root[s] \in OpenSteps
                                /\ Root[s] \in DOMAIN Planned
<1>1. \A s \in OpenSteps : s \in OpenSteps' /\ SameChain(s)
    BY LedgerStep, RowsStay DEF FleetSound
<1>2. \A s \in OpenSteps : Root'[s] = Root[s]
    BY <1>1, RootStays DEF ChainsSound
<1>3. \A s \in OpenSteps : Root[s] \in OpenSteps /\ Root[s] \in DOMAIN Planned
    BY RootIs DEF ChainsSound, Numbered
<1> QED BY <1>1, <1>2, <1>3 DEF SameChain

LEMMA LastAttempt ==
    ASSUME ChainsSound, Lines, NEW q \in OpenSteps, ~Superseded(q)
    PROVE  /\ Root[q] \in DOMAIN Planned /\ q \in Attempts(Root[q])
           /\ Len(AttemptStates(Root[q])) = steps[q].retries + 1
           /\ AttemptStates(Root[q]) # <<>>
           /\ AttemptStates(Root[q])[Len(AttemptStates(Root[q]))] = Shown(q)
<1> DEFINE t == Root[q]
           x == AttemptStates(t)
           k == steps[q].retries
<1>1. t \in DOMAIN Planned /\ q \in Attempts(t) /\ k \in Nat
    BY RootIs DEF ChainsSound, Numbered, Attempts
<1>2. Line(x, t)
    BY <1>1 DEF Lines
<1>3. ASSUME NEW s \in Attempts(t), steps[s].retries = k + 1 PROVE FALSE
  <2>1. s \in OpenSteps /\ Root[s] = t /\ steps[s].retries # 0
    BY <1>1, <1>3 DEF Attempts
  <2> DEFINE p == steps[s].retryOf
  <2>2. p # NoStep
    BY <2>1 DEF ChainsSound, Numbered
  <2>3. p \in OpenSteps /\ Root[p] = t /\ steps[p].retries + 1 = k + 1 /\ steps[p].retries \in Nat
    BY <1>3, <2>1, <2>2, RootIs DEF ChainsSound, ChainsWellFounded, Numbered
  <2>4. p \in Attempts(t) /\ steps[p].retries = k
    BY <1>1, <2>3 DEF Attempts
  <2>5. p = q
    BY <1>1, <2>4, OneOfEach DEF ChainsSound
  <2> QED BY <2>1, <2>5 DEF Superseded
<1> HIDE DEF t, x, k
<1>4. Len(x) \in Nat /\ k + 1 \in 1..Len(x) /\ x[k + 1] = Shown(q)
    BY <1>1, <1>2 DEF Line, k
<1>5. ~(k + 2 \in 1..Len(x))
  <2> SUFFICES ASSUME k + 2 \in 1..Len(x) PROVE FALSE
    OBVIOUS
  <2>1. PICK s \in Attempts(t) : steps[s].retries + 1 = k + 2
    BY <1>2 DEF Line
  <2>2. steps[s].retries \in Nat
    BY DEF ChainsSound, Numbered, Attempts
  <2>3. steps[s].retries = k + 1
    BY <1>1, <2>1, <2>2
  <2> QED BY <1>3, <2>3
<1>6. Len(x) = k + 1
    BY <1>1, <1>4, <1>5
<1>7. x # <<>>
    BY <1>1, <1>6
<1>8. /\ t \in DOMAIN Planned /\ q \in Attempts(t) /\ Len(x) = k + 1
      /\ x # <<>> /\ x[Len(x)] = Shown(q)
    BY <1>1, <1>4, <1>6, <1>7
<1> QED BY <1>8 DEF t, x, k

(* A sequence that shows the rows of a task is its attempts.               *)
LEMMA LineMatches ==
    ASSUME Lines', NEW t \in DOMAIN Planned, NEW y \in Seq(TerminalStep \cup {"open"}),
           \A s \in Attempts(t)' : /\ steps'[s].retries + 1 \in 1..Len(y)
                                   /\ y[steps'[s].retries + 1] = Shown(s)',
           \A k \in 1..Len(y) : \E s \in Attempts(t)' : steps'[s].retries + 1 = k
    PROVE  AttemptStates(t)' = y
<1> DEFINE x == AttemptStates(t)'
           T == TerminalStep \cup {"open"}
<1>1. /\ x \in Seq(T)
      /\ \A s \in Attempts(t)' : /\ steps'[s].retries + 1 \in 1..Len(x)
                                 /\ x[steps'[s].retries + 1] = Shown(s)'
      /\ \A k \in 1..Len(x) : \E s \in Attempts(t)' : steps'[s].retries + 1 = k
    BY DEF Lines, Line
<1>2. y \in Seq(T)
    OBVIOUS
<1> HIDE DEF x, T
<1>3. /\ \A k \in 1..Len(x) : k \in 1..Len(y)
      /\ \A k \in 1..Len(y) : k \in 1..Len(x) /\ x[k] = y[k]
  <2>1. ASSUME NEW k \in 1..Len(x) PROVE k \in 1..Len(y)
    BY <1>1
  <2>2. ASSUME NEW k \in 1..Len(y) PROVE k \in 1..Len(x) /\ x[k] = y[k]
    <3>1. PICK s \in Attempts(t)' : steps'[s].retries + 1 = k
        OBVIOUS
    <3> QED BY <1>1, <3>1
  <2> QED BY <2>1, <2>2
<1>4. Len(x) \in Nat /\ Len(y) \in Nat
    BY <1>1, <1>2
<1>5. Len(x) = Len(y)
  <2>1. Len(x) > 0 => Len(x) \in 1..Len(x)
    BY <1>4
  <2>2. Len(y) > 0 => Len(y) \in 1..Len(y)
    BY <1>4
  <2> QED BY <1>3, <1>4, <2>1, <2>2
<1>6. x = y
    BY <1>1, <1>2, <1>3, <1>5, SeqEqual
<1> QED BY <1>6 DEF x

(* A task whose rows stay as they are shows the same attempts.             *)
LEMMA SameLine ==
    ASSUME Lines, Lines', NEW t \in DOMAIN Planned, Attempts(t)' = Attempts(t),
           \A s \in Attempts(t) : steps'[s].retries = steps[s].retries /\ Shown(s)' = Shown(s)
    PROVE  AttemptStates(t)' = AttemptStates(t)
<1> DEFINE y == AttemptStates(t)
<1>1. Line(y, t)
    BY DEF Lines
<1> HIDE DEF y
<1>2. y \in Seq(TerminalStep \cup {"open"})
    BY <1>1 DEF Line
<1>3. \A s \in Attempts(t)' : /\ steps'[s].retries + 1 \in 1..Len(y)
                               /\ y[steps'[s].retries + 1] = Shown(s)'
    BY <1>1 DEF Line
<1>4. \A k \in 1..Len(y) : \E s \in Attempts(t)' : steps'[s].retries + 1 = k
    BY <1>1 DEF Line
<1>5. AttemptStates(t)' = y
    BY <1>2, <1>3, <1>4, LineMatches
<1> QED BY <1>5 DEF y

Bill == Total([r \in OpenRuns |-> runs[r].cost], OpenRuns)

LEMMA BillStays ==
    ASSUME IsFiniteSet(Runs), SameBill
    PROVE  Bill' = Bill
<1> DEFINE c == [r \in OpenRuns |-> runs[r].cost]
           d == [r \in OpenRuns' |-> runs'[r].cost]
<1>1. IsFiniteSet(OpenRuns)
  <2>1. OpenRuns \subseteq Runs
    BY DEF OpenRuns
  <2> QED BY <2>1, FS_Subset
<1>2. \A r \in OpenRuns : c[r] = d[r]
    BY DEF SameBill
<1>3. Total(c, OpenRuns) = Total(d, OpenRuns)
    BY <1>1, <1>2, TotalSame
<1> QED BY <1>3 DEF Bill, SameBill

LEMMA BillGrows ==
    ASSUME IsFiniteSet(Runs), FleetSound, NEW q, NEW o, NEW c, Settling(q, o, c)
    PROVE  Bill' = Bill + c
<1> DEFINE f == [r \in OpenRuns |-> runs[r].cost]
           g == [r \in OpenRuns' |-> runs'[r].cost]
           x == steps[q].run
           S == OpenRuns
           R == S \ {x}
<1>1. IsFiniteSet(S) /\ IsFiniteSet(R)
  <2>1. OpenRuns \subseteq Runs
    BY DEF OpenRuns
  <2> QED BY <2>1, FS_Subset
<1>2. /\ \A r \in S : f[r] \in Nat /\ g[r] \in Nat
      /\ \A r \in R : f[r] = g[r]
      /\ x \in S /\ g[x] = f[x] + c /\ c \in Nat
  <2>1. \A r \in OpenRuns : runs[r].cost \in Nat
    BY OpenRows DEF FleetSound, Sound, RunRow
  <2>2. /\ OpenRuns' = OpenRuns /\ x \in OpenRuns /\ c \in Costs
        /\ \A r \in OpenRuns : runs'[r].cost = runs[r].cost + IF r = x THEN c ELSE 0
    BY DEF Settling
  <2>3. c \in Nat
    BY <2>2
  <2> HIDE DEF x
  <2> QED BY <2>1, <2>2, <2>3
<1> HIDE DEF f, g, x, S, R
<1>3. Total(f, R) = Total(g, R)
    BY <1>1, <1>2, TotalSame
<1>r. R = S \ {x}
    BY DEF R
<1>4. Total(f, R) \in Nat /\ Total(f, S) = f[x] + Total(f, R)
  <2>1. \A r \in S : f[r] \in Nat
    BY <1>2
  <2>2. Total(f, S \ {x}) \in Nat /\ Total(f, S) = f[x] + Total(f, S \ {x})
    BY <1>1, <1>2, <2>1, TotalSplit
  <2> QED BY <1>r, <2>2
<1>5. Total(g, R) \in Nat /\ Total(g, S) = g[x] + Total(g, R)
  <2>1. \A r \in S : g[r] \in Nat
    BY <1>2
  <2>2. Total(g, S \ {x}) \in Nat /\ Total(g, S) = g[x] + Total(g, S \ {x})
    BY <1>1, <1>2, <2>1, TotalSplit
  <2> QED BY <1>r, <2>2
<1>6. Total(g, S) = Total(f, S) + c
    BY <1>2, <1>3, <1>4, <1>5
<1> QED BY <1>6 DEF Bill, f, g, S, Settling

-----------------------------------------------------------------------------
Shows == [t \in DOMAIN Planned |-> AttemptStates(t)]

LEMMA ShowsOne ==
    ASSUME NEW t \in DOMAIN Planned, NEW y,
           \A u \in DOMAIN Planned : AttemptStates(u)' = IF u = t THEN y ELSE AttemptStates(u)
    PROVE  Shows' = [Shows EXCEPT ![t] = y]
BY DEF Shows

LEMMA LineStates ==
    ASSUME Lines, NEW t \in DOMAIN Planned
    PROVE  AttemptStates(t) \in Seq(TerminalStep \cup {"open"})
BY DEF Lines, Line

(* A settled row is the last of its task: what follows one has failed.     *)
LEMMA SettlingSettles ==
    ASSUME IsFiniteSet(Runs), FleetSound, ChainsSound, ChainsSound', Lines, Lines', [Next]_vars,
           NEW q, NEW o, NEW c, Settling(q, o, c)
    PROVE  Root[q] \in DOMAIN Planned /\ Chain!Settle(Root[q], o, c)
<1>t. PICK t : t = Root[q]
    OBVIOUS
<1> DEFINE x == AttemptStates(t)
           y == [x EXCEPT ![Len(x)] = o]
           T == TerminalStep \cup {"open"}
<1>q. q \in OpenSteps /\ ~Superseded(q) /\ Shown(q) = "open"
  <2>1. q \in OpenSteps /\ steps[q].state \notin TerminalStep
    BY DEF Settling
  <2>2. q # NoStep
    BY <2>1 DEF OpenSteps
  <2> QED BY <2>1, <2>2 DEF Superseded, Shown, ChainsSound, RetryOfFailed, TerminalStep
<1>1. /\ t \in DOMAIN Planned /\ q \in Attempts(t) /\ Len(x) = steps[q].retries + 1
      /\ x # <<>> /\ x[Len(x)] = "open"
    BY <1>q, <1>t, LastAttempt
<1>a. /\ OpenSteps' = OpenSteps /\ o \in TerminalStep /\ steps'[q].state = o
      /\ \A s \in OpenSteps \ {q} : steps'[s] = steps[s]
    BY DEF Settling, TerminalStep
<1>s. /\ \A s \in OpenSteps : steps'[s].retries = steps[s].retries
      /\ \A s \in OpenSteps : Shown(s)' = IF s = q THEN o ELSE Shown(s)
      /\ \A u : Attempts(u)' = Attempts(u) /\ Attempts(u) \subseteq OpenSteps
  <2>1. \A s \in OpenSteps : steps'[s].retries = steps[s].retries /\ Root'[s] = Root[s]
    BY PlacesStay
  <2>2. \A u : Attempts(u)' = Attempts(u) /\ Attempts(u) \subseteq OpenSteps
    BY <1>a, <2>1 DEF Attempts
  <2> QED BY <1>a, <2>1, <2>2 DEF Shown
<1>2. \A u \in DOMAIN Planned : u # t => AttemptStates(u)' = AttemptStates(u)
  <2>1. \A u : u # t => q \notin Attempts(u)
    BY <1>t DEF Attempts
  <2> QED BY <1>s, <2>1, SameLine
<1>3. AttemptStates(t)' = y
  <2>1. x \in Seq(T) /\ Line(x, t)
    BY <1>1 DEF Lines, Line
  <2>2. o \in T /\ Len(x) \in 1..Len(x)
    <3>1. Len(x) \in Nat /\ steps[q].retries \in Nat
        BY <1>q, <2>1 DEF ChainsSound, Numbered
    <3> QED BY <1>1, <1>a, <3>1
  <2>3. y \in Seq(T) /\ Len(y) = Len(x)
    <3> HIDE DEF x, T
    <3> QED BY <2>1, <2>2, ExceptSeq
  <2>4. \A s \in Attempts(t) : steps[s].retries = steps[q].retries => s = q
    BY <1>1, OneOfEach DEF ChainsSound
  <2>5. \A s \in Attempts(t) : steps[s].retries \in Nat
    BY <1>s DEF ChainsSound, Numbered
  <2>6. ASSUME NEW s \in Attempts(t)'
        PROVE  steps'[s].retries + 1 \in 1..Len(y) /\ y[steps'[s].retries + 1] = Shown(s)'
    <3>1. s \in Attempts(t) /\ steps'[s].retries = steps[s].retries
        BY <1>s
    <3>2. steps[s].retries + 1 \in 1..Len(x) /\ x[steps[s].retries + 1] = Shown(s)
        BY <2>1, <3>1 DEF Line
    <3>3. CASE s = q
      <4> HIDE DEF x, T
      <4> QED BY <1>1, <1>s, <2>1, <2>2, <2>3, <3>1, <3>2, <3>3
    <3>4. CASE s # q
      <4>1. steps[s].retries + 1 # Len(x)
        BY <1>1, <1>q, <2>4, <2>5, <3>1, <3>4
      <4> HIDE DEF x, T
      <4> QED BY <1>s, <2>1, <2>3, <3>1, <3>2, <3>4, <4>1
    <3> QED BY <3>3, <3>4
  <2>7. ASSUME NEW k \in 1..Len(y) PROVE \E s \in Attempts(t)' : steps'[s].retries + 1 = k
    <3>1. \E s \in Attempts(t) : steps[s].retries + 1 = k
        BY <2>1, <2>3 DEF Line
    <3> QED BY <1>s, <3>1
  <2> HIDE DEF y, x
  <2> QED BY <1>1, <2>3, <2>6, <2>7, LineMatches
<1>4. Shows' = [Shows EXCEPT ![t] = y]
    BY <1>1, <1>2, <1>3, ShowsOne
<1>5. Bill' = Bill + c
    BY BillGrows
<1>6. Shows[t] = x
    BY <1>1 DEF Shows
<1>7. o = "cancelled" => c = 0
    BY DEF Settling
<1> HIDE DEF x
<1> QED BY <1>1, <1>t, <1>4, <1>5, <1>6, <1>7 DEF Chain!Settle, Chain!Open, Shows, Bill

(* A client's row is the first attempt of its task.                        *)
LEMMA SubmitSubmits ==
    ASSUME IsFiniteSet(Runs), FleetSound, ChainsSound, ChainsSound', Lines, Lines', [Next]_vars,
           NEW s \in Late, NewRow(s, NoStep, 0)
    PROVE  s \in DOMAIN Planned /\ Chain!Submit(s)
<1> DEFINE y == <<"open">>
<1>1. s \in DOMAIN Planned /\ s \notin OpenSteps
    BY DEF NewRow
<1>2. /\ OpenSteps' = OpenSteps \union {s} /\ steps'[s].retryOf = NoStep
      /\ steps'[s].retries = 0 /\ steps'[s].state = "pending"
      /\ \A d \in OpenSteps : steps'[d] = steps[d]
    BY DEF NewRow
<1>3. Root'[s] = s
  <2>1. (ChainsWellFounded /\ Numbered => Leads(Root))'
    BY RootLeads, PTL
  <2> QED BY <1>2, <2>1 DEF ChainsSound, Leads
<1>4. \A d \in OpenSteps : /\ steps'[d].retries = steps[d].retries /\ Root'[d] = Root[d]
                           /\ Root[d] # s /\ Shown(d)' = Shown(d)
    BY <1>1, <1>2, PlacesStay DEF Shown
<1>5. Attempts(s) = {} /\ Attempts(s)' = {s}
    BY <1>1, <1>2, <1>3, <1>4 DEF Attempts
<1>6. \A u : u # s => Attempts(u)' = Attempts(u) /\ Attempts(u) \subseteq OpenSteps
    BY <1>1, <1>2, <1>3, <1>4 DEF Attempts
<1>7. \A u \in DOMAIN Planned : u # s => AttemptStates(u)' = AttemptStates(u)
    BY <1>4, <1>6, SameLine
<1>8. AttemptStates(s)' = y
  <2>1. y \in Seq(TerminalStep \cup {"open"}) /\ Len(y) = 1 /\ y[1] = "open"
    OBVIOUS
  <2>2. steps'[s].retries + 1 = 1 /\ Shown(s)' = "open"
    BY <1>2 DEF Shown, TerminalStep
  <2> HIDE DEF y
  <2>3. \A d \in Attempts(s)' : steps'[d].retries + 1 \in 1..Len(y) /\ y[steps'[d].retries + 1] = Shown(d)'
    BY <1>5, <2>1, <2>2
  <2>4. \A k \in 1..Len(y) : \E d \in Attempts(s)' : steps'[d].retries + 1 = k
    BY <1>5, <2>1, <2>2
  <2> QED BY <1>1, <2>1, <2>3, <2>4, LineMatches
<1>9. AttemptStates(s) = <<>>
  <2>1. /\ AttemptStates(s) \in Seq(TerminalStep \cup {"open"})
        /\ \A k \in 1..Len(AttemptStates(s)) : FALSE
    BY <1>1, <1>5 DEF Lines, Line
  <2> QED BY <2>1
<1>10. Shows' = [Shows EXCEPT ![s] = y]
    BY <1>1, <1>7, <1>8, ShowsOne
<1>11. Bill' = Bill
    BY BillStays DEF NewRow
<1>12. Shows[s] = <<>>
    BY <1>1, <1>9 DEF Shows
<1> QED BY <1>1, <1>10, <1>11, <1>12 DEF Chain!Submit, Shows, Bill

(* A retry follows the last attempt, which has failed.                     *)
LEMMA RetryRetries ==
    ASSUME IsFiniteSet(Runs), FleetSound, ChainsSound, ChainsSound', Lines, Lines', [Next]_vars,
           NEW n \in Schedulers, NEW s \in Steps, Retried(n, s)
    PROVE  \E t \in DOMAIN Planned : Chain!Retry(t)
<1>q. PICK q : q = Step(n)
    OBVIOUS
<1>t. PICK t : t = Root[q]
    OBVIOUS
<1> DEFINE x == AttemptStates(t)
           y == Append(x, "open")
           T == TerminalStep \cup {"open"}
<1>1. /\ q \in OpenSteps /\ s \notin OpenSteps /\ OpenSteps' = OpenSteps \union {s}
      /\ steps'[s].retryOf = q /\ steps'[s].retries = steps[q].retries + 1
      /\ steps'[s].state = "pending" /\ \A d \in OpenSteps : steps'[d] = steps[d]
    BY <1>q DEF Retried, NewRow
<1>2. q # NoStep /\ steps[q].retries \in Nat /\ steps[q].retries + 1 <= MaxRetries
    BY <1>1 DEF OpenSteps, ChainsSound, Numbered
<1>3. ~Superseded(q) /\ steps[q].state = "failed"
    BY <1>1, <1>2 DEF ChainsSound, RetryOfFailed, Superseded
<1>4. /\ t \in DOMAIN Planned /\ q \in Attempts(t) /\ Len(x) = steps[q].retries + 1
      /\ x # <<>> /\ x[Len(x)] = "failed"
    BY <1>1, <1>3, <1>t, LastAttempt DEF Shown, TerminalStep
<1>5. \A d \in OpenSteps : /\ steps'[d].retries = steps[d].retries /\ Root'[d] = Root[d]
                           /\ Shown(d)' = Shown(d)
    BY <1>1, PlacesStay DEF Shown
<1>6. Root'[s] = t
  <2>1. (ChainsWellFounded /\ Numbered => Leads(Root))'
    BY RootLeads, PTL
  <2>2. Root'[s] = Root'[q]
    BY <1>1, <1>2, <2>1 DEF ChainsSound, Leads
  <2> QED BY <1>1, <1>5, <1>t, <2>2
<1>7. /\ Attempts(t)' = Attempts(t) \union {s} /\ Attempts(t) \subseteq OpenSteps
      /\ \A u : u # t => Attempts(u)' = Attempts(u) /\ Attempts(u) \subseteq OpenSteps
    BY <1>1, <1>5, <1>6 DEF Attempts
<1>8. \A u \in DOMAIN Planned : u # t => AttemptStates(u)' = AttemptStates(u)
    BY <1>5, <1>7, SameLine
<1>9. AttemptStates(t)' = y
  <2>1. x \in Seq(T) /\ Line(x, t) /\ "open" \in T
    BY <1>4 DEF Lines, Line
  <2>2. Shown(s)' = "open" /\ steps'[s].retries + 1 = Len(x) + 1
    BY <1>1, <1>4 DEF Shown, TerminalStep
  <2> HIDE DEF x, T
  <2>3. /\ y \in Seq(T) /\ Len(y) = Len(x) + 1 /\ Len(x) \in Nat /\ y[Len(x) + 1] = "open"
        /\ \A k \in 1..Len(x) : y[k] = x[k] /\ k \in 1..Len(y)
    BY <2>1
  <2> HIDE DEF y
  <2>4. ASSUME NEW d \in Attempts(t)'
        PROVE  steps'[d].retries + 1 \in 1..Len(y) /\ y[steps'[d].retries + 1] = Shown(d)'
    <3>1. CASE d = s
        BY <2>2, <2>3, <3>1
    <3>2. CASE d \in Attempts(t)
      <4>1. steps[d].retries + 1 \in 1..Len(x) /\ x[steps[d].retries + 1] = Shown(d)
        BY <2>1, <3>2 DEF Line
      <4>2. steps'[d].retries = steps[d].retries /\ Shown(d)' = Shown(d)
        BY <1>5, <1>7, <3>2
      <4> QED BY <2>3, <4>1, <4>2
    <3> QED BY <1>7, <3>1, <3>2
  <2>5. ASSUME NEW k \in 1..Len(y) PROVE \E d \in Attempts(t)' : steps'[d].retries + 1 = k
    <3>1. CASE k = Len(x) + 1
        BY <1>7, <2>2, <3>1
    <3>2. CASE k \in 1..Len(x)
      <4>1. PICK d \in Attempts(t) : steps[d].retries + 1 = k
        BY <2>1, <3>2 DEF Line
      <4> QED BY <1>5, <1>7, <4>1
    <3> QED BY <2>3, <3>1, <3>2
  <2> QED BY <1>4, <2>3, <2>4, <2>5, LineMatches DEF T
<1>10. Shows' = [Shows EXCEPT ![t] = y]
    BY <1>4, <1>8, <1>9, ShowsOne
<1>11. Bill' = Bill
    BY BillStays DEF Retried, NewRow
<1>12. Shows[t] = x
    BY <1>4 DEF Shows
<1>13. Len(x) <= MaxRetries
    BY <1>2, <1>4
<1> HIDE DEF x
<1>14. Chain!Retry(t)
    BY <1>4, <1>10, <1>11, <1>12, <1>13 DEF Chain!Retry, Chain!Failed, Shows, Bill
<1> QED BY <1>4, <1>14

(* The steps that AttemptChain does not see.                               *)
LEMMA NothingShows ==
    ASSUME IsFiniteSet(Runs), FleetSound, ChainsSound, ChainsSound', Lines, Lines', [Next]_vars,
           Unmoved
    PROVE  Shows' = Shows /\ Bill' = Bill
<1>1. \A s \in OpenSteps : steps'[s].retries = steps[s].retries /\ Root'[s] = Root[s]
    BY PlacesStay
<1>2. \A u : Attempts(u)' = Attempts(u) /\ Attempts(u) \subseteq OpenSteps
    BY <1>1 DEF Attempts, Unmoved
<1>3. \A u \in DOMAIN Planned : AttemptStates(u)' = AttemptStates(u)
    BY <1>1, <1>2, SameLine DEF Unmoved
<1>4. Shows' = Shows
    BY <1>3 DEF Shows
<1> QED BY <1>4, BillStays DEF Unmoved

(* What is submitted before the schedulers start is open.                  *)
LEMMA ChainsStart ==
    ASSUME IsFiniteSet(Runs), Init, ChainsSound, Lines
    PROVE  Chain!ChainInit
<1>1. Bill = 0
  <2> DEFINE c == [r \in OpenRuns |-> runs[r].cost]
  <2>1. IsFiniteSet(OpenRuns)
    <3>1. OpenRuns \subseteq Runs
        BY DEF OpenRuns
    <3> QED BY <3>1, FS_Subset
  <2>2. \A r \in OpenRuns : c[r] = 0
    BY DEF Init, OpenRuns, PendingRun
  <2> QED BY <2>1, <2>2, TotalZero DEF Bill
<1>2. \A s \in OpenSteps : steps[s].retryOf = NoStep /\ Root[s] = s /\ Shown(s) = "open"
                           /\ steps[s].retries = 0
  <2>1. \A s \in OpenSteps : steps[s].retryOf = NoStep /\ steps[s].retries = 0 /\ steps[s].state = "pending"
    BY DEF Init, OpenSteps, PendingStep, NoRow
  <2>2. \A s \in OpenSteps : Root[s] = s
    BY <2>1, RootIs DEF ChainsSound
  <2> QED BY <2>1, <2>2 DEF Shown, TerminalStep
<1>3. ASSUME NEW t \in DOMAIN Planned PROVE AttemptStates(t) \in {<<>>, <<"open">>}
  <2> DEFINE x == AttemptStates(t)
  <2>1. Line(x, t)
    BY DEF Lines
  <2>2. \A s \in Attempts(t) : s = t /\ steps[s].retries = 0 /\ Shown(s) = "open"
    BY <1>2 DEF Attempts
  <2>3. \A k \in 1..Len(x) : k = 1 /\ x[k] = "open"
    BY <2>1, <2>2 DEF Line
  <2>4. x \in Seq(TerminalStep \cup {"open"}) /\ Len(x) \in Nat
    BY <2>1 DEF Line
  <2> HIDE DEF x
  <2>5. Len(x) = 0 \/ (Len(x) = 1 /\ x[1] = "open")
    <3>1. Len(x) # 0 => Len(x) \in 1..Len(x) /\ 1 \in 1..Len(x)
        BY <2>4
    <3> QED BY <2>3, <2>4, <3>1
  <2>6. CASE Len(x) = 0
    <3>1. x = <<>>
      <4> HIDE DEF x
      <4> QED BY <2>4, <2>6
    <3> QED BY <3>1 DEF x
  <2>7. CASE Len(x) = 1 /\ x[1] = "open"
    <3>1. x = <<"open">>
      <4>1. <<"open">> \in Seq(TerminalStep \cup {"open"}) /\ Len(<<"open">>) = 1
        OBVIOUS
      <4> QED BY <2>4, <2>7, <4>1, SeqEqual
    <3> QED BY <3>1 DEF x
  <2> QED BY <2>5, <2>6, <2>7 DEF x
<1>4. Shows \in [DOMAIN Planned -> {<<>>, <<"open">>}]
    BY <1>3 DEF Shows
<1> QED BY <1>1, <1>4 DEF Chain!ChainInit, Shows, Bill

(* While leases and mirrors are kept and no call of the ledger fails, the  *)
(* calls of any number of schedulers, which interleave and crash between   *)
(* any two lines of dispatchStep, add up to one attempt at a time: a task  *)
(* has one open attempt at most, each settles and is billed in one step,   *)
(* and another follows a failed one only, MaxRetries times at most.        *)
THEOREM ImplementsChain ==
    ASSUME LeaseLoss = FALSE, MirrorLoss = FALSE, MaxFaults = 0,
           IsFiniteSet(Steps), IsFiniteSet(Runs)
    PROVE  Spec => ImplementsAttemptChain
<1>1. Init /\ ChainsSound /\ Lines => Chain!ChainInit
    BY ChainsStart, IsFiniteSet(Runs)
<1>2. FleetSound /\ Unsettled /\ ChainsSound /\ ChainsSound' /\ Lines /\ Lines' /\ [Next]_vars
          => [Chain!ChainNext]_(Chain!chainVars)
  <2> SUFFICES ASSUME FleetSound, Unsettled, ChainsSound, ChainsSound', Lines, Lines', [Next]_vars
               PROVE  [Chain!ChainNext]_(Chain!chainVars)
    OBVIOUS
  <2>1. CASE Unmoved
    BY <2>1, NothingShows, IsFiniteSet(Runs) DEF Shows, Bill, Chain!chainVars
  <2>2. ASSUME NEW q, NEW o, NEW c, Settling(q, o, c) PROVE Chain!ChainNext
    <3>1. o \in {"succeeded", "failed", "cancelled"} /\ c \in Costs
        BY <2>2 DEF Settling
    <3>2. Root[q] \in DOMAIN Planned /\ Chain!Settle(Root[q], o, c)
        BY <2>2, SettlingSettles, IsFiniteSet(Runs)
    <3> QED BY <3>1, <3>2 DEF Chain!ChainNext
  <2>3. ASSUME NEW s \in Late, NewRow(s, NoStep, 0) PROVE Chain!ChainNext
    BY <2>3, SubmitSubmits, IsFiniteSet(Runs) DEF Chain!ChainNext
  <2>4. ASSUME NEW n \in Schedulers, NEW s \in Steps, Retried(n, s) PROVE Chain!ChainNext
    BY <2>4, RetryRetries, IsFiniteSet(Runs) DEF Chain!ChainNext
  <2> QED BY <2>1, <2>2, <2>3, <2>4, EveryMove DEF Moves
<1>3. Spec => []ChainsWellFounded
    BY ImplementsLedger, RetryChainsWellFounded, PTL
<1>4. Spec => []Numbered
    BY AlwaysNumbered, LeaseLoss = FALSE
<1>5. Spec => []RetryOfFailed
    BY RetriesFollowFailures, LeaseLoss = FALSE, MirrorLoss = FALSE, MaxFaults = 0
<1>6. ChainsWellFounded /\ Numbered /\ RetryOfFailed => ChainsSound
    BY DEF ChainsSound
<1>7. ChainsSound => Lines
    BY LinesStand, IsFiniteSet(Steps)
<1>8. Spec => []FleetSound /\ []Unsettled
    BY AlwaysFleetSound, AlwaysUnsettled, LeaseLoss = FALSE, PTL
<1> QED BY <1>1, <1>2, <1>3, <1>4, <1>5, <1>6, <1>7, <1>8, PTL
        DEF Spec, ImplementsAttemptChain, Chain!ChainSpec
=============================================================================
