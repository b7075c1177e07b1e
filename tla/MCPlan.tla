------------------------------- MODULE MCPlan -------------------------------
(* WebPlan on small instances. *)
EXTENDS WebPlan, TLC

\* The task of the queue names the step of the roadmap.
OneMention == {<<1, 1>>}

\* Two agents report alike but for a terminal that failed under one of them.
TwoReports ==
  {[runtime |-> "running", terminal |-> w, presence |-> "",
    tasks |-> w = "error", ready |-> TRUE, hasTerminal |-> w = "error"] : w \in {"", "error"}}
Unreported ==
  [runtime |-> "", terminal |-> "", presence |-> "online", tasks |-> FALSE, ready |-> TRUE]
OneNodeOnline == [agents |-> <<>>, roster |-> {}, nodes |-> "n1" :> "online"]

\* A run without flows, with one, or with both.
NoSteps == UNION {[F -> {<<>>}] : F \in SUBSET Flows}

\* One file names an assistant with a skill that is known and one that is not,
\* the other a second assistant.
ThreePairs == {<<"p1", "k1">>, <<"p1", "k2">>, <<"p2", "k1">>}
UnknownPairs == {<<"p1", "k2">>}
TwoFiles == [f \in {"f1", "f2"} |->
               IF f = "f1" THEN {<<"p1", "k1">>, <<"p1", "k2">>} ELSE {<<"p2", "k1">>}]
=============================================================================
