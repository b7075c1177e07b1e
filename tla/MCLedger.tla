------------------------------ MODULE MCLedger ------------------------------
(* Small ledgers for TLC: rows, arms and effects are model values.          *)
EXTENDS ExecutionLedger, TLC

CONSTANTS MaxVersion, MaxBill, MaxUsed    \* caps of the counters that only grow

Bounded == \A r \in OpenRuns : /\ runs[r].version <= MaxVersion
                               /\ runs[r].cost <= MaxBill
                               /\ runs[r].used <= MaxUsed

BoundedSpec == LedgerInit /\ [][LedgerNext /\ Bounded']_ledgerVars

MCRunOf == [f \in Flows |-> CHOOSE r \in Runs : TRUE]
MCTightBudget == [r \in Runs |-> 2]
MCUnbounded == [r \in Runs |-> 0]

MCSymmetry == Permutations(Steps)
=============================================================================
