--------------------------- MODULE MCFlowScheduler ---------------------------
(* Small fleets for TLC: what clients submit and how runs are budgeted.      *)
EXTENDS FlowScheduler, TLC

MCRunOf == [f \in Flows |-> CHOOSE r \in Runs : TRUE]
MCUnbounded == [r \in Runs |-> 0]
MCTight == [r \in Runs |-> 2]

(* Two steps of one flow, both with a provider.                              *)
MCSiblings == [s \in {1, 2} |-> [flow |-> CHOOSE f \in Flows : TRUE,
                                 arm |-> CHOOSE a \in Arms : TRUE]]
(* Two steps of one flow and one of another, in one run.                     *)
MCMixed == LET first == CHOOSE f \in Flows : TRUE
           IN  [s \in {1, 2, 3} |-> [flow |-> IF s # 3 THEN first
                                             ELSE CHOOSE f \in Flows : f # first,
                                    arm |-> CHOOSE a \in Arms : TRUE]]

(* One step, left to the selector.                                           *)
MCUnpinned == [s \in {1} |-> [flow |-> CHOOSE f \in Flows : TRUE, arm |-> NoArm]]

(* One step with a provider.                                                 *)
MCSingle == [s \in {1} |-> [flow |-> CHOOSE f \in Flows : TRUE,
                            arm |-> CHOOSE a \in Arms : TRUE]]

MCSymmetry == Permutations(Schedulers)
=============================================================================
