------------------------------ MODULE TaskQueue ------------------------------
(***************************************************************************)
(* The task queue of the backend (internal/taskqueue): what its service    *)
(* makes of one task.  A call reads the task, checks it and writes the     *)
(* whole row back, without a transaction or a condition on what it read:   *)
(* Passes is the check, After the rows it may write.  Payload, priority    *)
(* and times are left out.  So are the attempts, and a failed one may or   *)
(* may not have others left; and so is the assistant of a claim, which may *)
(* be refused for no reason the model knows.                               *)
(***************************************************************************)
CONSTANTS NoHost,    \* the empty node_id
          Hosts      \* the ids that callers give, of runtime nodes or of none

ASSUME HostAssumption == NoHost \notin Hosts

Active == {"claimed", "running"}
Waiting == {"pending", "retrying"}
Statuses == Active \cup Waiting \cup {"completed", "failed", "cancelled"}

\* Rows of the table tasks.
Rows == [status : Statuses, host : Hosts \cup {NoHost}]

Enqueued == [status |-> "pending", host |-> NoHost]
Inserted(q, w) == [v \in DOMAIN q \cup {w} |-> IF v = w THEN Enqueued ELSE q[v]]

Successors ==
  [ pending   |-> {"claimed", "cancelled"},
    claimed   |-> {"running", "failed", "cancelled"},
    running   |-> {"completed", "failed", "cancelled"},
    failed    |-> {"retrying", "cancelled"},
    retrying  |-> {"pending", "cancelled"},
    completed |-> {},
    cancelled |-> {} ]

CanTransitionTo(t, next) == next \in Successors[t.status]

\* The row that ClaimByID and ClaimNext write for node h, whatever h is.
Claimed(t, h) == [t EXCEPT !.status = "claimed", !.host = h]

\* Mutant: the retry keeps its owner.
NackedKept(t) == {[t EXCEPT !.status = s] : s \in {"retrying", "failed"}}

\* A failed attempt, from Nack and from the timeout scan: back to the queue
\* while attempts remain, failed otherwise.
Nacked(t) == { [t EXCEPT !.status = "retrying", !.host = NoHost],
               [t EXCEPT !.status = "failed"] }

\* Whether call op of node h accepts the task as it read it.  Nack looks at the
\* owner alone.
Passes(op, h, t) ==
  CASE op = "claim"   -> CanTransitionTo(t, "claimed")
    [] op = "start"   -> t.host = h /\ CanTransitionTo(t, "running")
    [] op = "ack"     -> t.host = h /\ CanTransitionTo(t, "completed")
    [] op = "nack"    -> t.host = h
    [] op = "cancel"  -> CanTransitionTo(t, "cancelled")
    [] op = "timeout" -> t.status = "running"
    [] op = "promote" -> t.status = "retrying"

After(op, h, t) ==
  CASE op = "claim"   -> {Claimed(t, h)}
    [] op = "start"   -> {[t EXCEPT !.status = "running"]}
    [] op = "ack"     -> {[t EXCEPT !.status = "completed"]}
    [] op = "cancel"  -> {[t EXCEPT !.status = "cancelled"]}
    [] op = "promote" -> {[t EXCEPT !.status = "pending"]}
    [] OTHER -> Nacked(t)

-----------------------------------------------------------------------------
\* A task that waits for a node is not held by one.
Unheld(t) == t.status \in Waiting => t.host = NoHost
=============================================================================
