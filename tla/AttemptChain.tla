----------------------------- MODULE AttemptChain -----------------------------
(***************************************************************************)
(* What the dispatch of a work item promises, with the schedulers, leases  *)
(* and rows left out: a task is attempted one attempt at a time, each      *)
(* attempt settles once, is billed once, in the same step, and only a      *)
(* failed attempt is followed by another, at most MaxRetries times.        *)
(***************************************************************************)
EXTENDS Naturals, Sequences

CONSTANTS Tasks, Prices, MaxRetries

VARIABLES
    attempts,   \* [Tasks -> Seq of "open", "succeeded", "failed", "cancelled"]
    bill        \* what all attempts together have cost

chainVars == <<attempts, bill>>

Open(t) == attempts[t] # <<>> /\ attempts[t][Len(attempts[t])] = "open"
Failed(t) == attempts[t] # <<>> /\ attempts[t][Len(attempts[t])] = "failed"

Submit(t) ==
    /\ attempts[t] = <<>>
    /\ attempts' = [attempts EXCEPT ![t] = <<"open">>]
    /\ UNCHANGED bill

Settle(t, outcome, price) ==
    /\ Open(t)
    /\ outcome = "cancelled" => price = 0
    /\ attempts' = [attempts EXCEPT ![t][Len(attempts[t])] = outcome]
    /\ bill' = bill + price

Retry(t) ==
    /\ Failed(t)
    /\ Len(attempts[t]) <= MaxRetries
    /\ attempts' = [attempts EXCEPT ![t] = Append(@, "open")]
    /\ UNCHANGED bill

ChainInit ==
    /\ attempts \in [Tasks -> {<<>>, <<"open">>}]
    /\ bill = 0

ChainNext ==
    \E t \in Tasks :
        \/ Submit(t) \/ Retry(t)
        \/ \E o \in {"succeeded", "failed", "cancelled"}, p \in Prices : Settle(t, o, p)

ChainSpec == ChainInit /\ [][ChainNext]_chainVars
=============================================================================
