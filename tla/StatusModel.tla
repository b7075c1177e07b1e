----------------------------- MODULE StatusModel -----------------------------
(***************************************************************************)
(* Which status an agent or a node is shown with (shared/status-model.ts). *)
(* A status is one of the words the program compares with, or another word *)
(* if it says nothing.                                                     *)
(***************************************************************************)
EXTENDS Naturals, FiniteSets

NodeWords == {"online", "degraded", "offline"}

NormalizeNodeStatus(s) == IF s \in NodeWords THEN s ELSE "offline"

\* How many of the nodes, given with their status, are shown with each status.
SummarizeNodes(nodes) ==
  [s \in NodeWords |-> Cardinality({n \in DOMAIN nodes : NormalizeNodeStatus(nodes[n]) = s})]

\* An agent is [runtime, terminal, presence, tasks, ready]: the state of its
\* runtime, of its terminal, its presence, whether it has active tasks, and
\* whether runtimeReady is not FALSE.
Fatal(a) == a.runtime \in {"crashed", "failed", "error"} \/ a.terminal \in {"error", "failed"}

RuntimeSays(a) ==
  CASE a.runtime \in {"running", "working", "busy", "scheduled", "starting"} -> "running"
    [] a.runtime \in {"idle", "ready"} -> "idle"
    [] a.runtime \in {"offline", "stopped", "terminated"} -> "offline"
    [] OTHER -> "unsaid"

TerminalSays(a) ==
  CASE a.terminal \in {"running", "working", "busy", "attached"} -> "running"
    [] a.terminal \in {"idle", "online"} -> "idle"
    [] OTHER -> "unsaid"

PresenceSays(a) ==
  CASE a.presence = "offline" -> "offline"
    [] a.presence \in {"online", "idle", "away"} -> "idle"
    [] OTHER -> IF a.ready THEN "idle" ELSE "offline"

ResolveAgentStatus(a) ==
  CASE Fatal(a) -> "error"
    [] ~Fatal(a) /\ a.tasks -> "running"
    [] ~Fatal(a) /\ ~a.tasks /\ RuntimeSays(a) # "unsaid" -> RuntimeSays(a)
    [] ~Fatal(a) /\ ~a.tasks /\ RuntimeSays(a) = "unsaid" /\ TerminalSays(a) # "unsaid" -> TerminalSays(a)
    [] OTHER -> PresenceSays(a)
=============================================================================
