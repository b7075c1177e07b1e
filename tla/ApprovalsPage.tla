--------------------------- MODULE ApprovalsPage ---------------------------
(***************************************************************************)
(* Approvals (pages/approvals/ApprovalsPage.tsx) and their decision in     *)
(* handlers/approval.go.  The list is loaded once and then only changed by *)
(* the answers of the page's own decisions; others decide as well.         *)
(*                                                                         *)
(* The requests are held in memory, the audit log is not: a restart of the *)
(* server brings the requests of its start back, below the entries of the  *)
(* decisions it has forgotten.  server has the status of every request,    *)
(* the entries of the decisions this process has made, in their order, and *)
(* those that no decision it knows of stands for.  Cards, counts and the   *)
(* tabs that filter them are left out, and with the tabs "all" every card  *)
(* is shown.                                                               *)
(***************************************************************************)
EXTENDS WebTab

CONSTANTS Requests,
          HighRisk,     \* those that need the phrase typed
          FirstStatus   \* what a server starts with

Decisions == {"approved", "rejected"}

ASSUME ApprovalsAssumption ==
  /\ Nil \notin Requests \X Decisions
  /\ FirstStatus \in [Requests -> Decisions \cup {"pending"}]

ApprovalsState ==
  [ list : [Requests -> Decisions \cup {"pending"}] \cup {Nil},
    role : BOOLEAN,                                 \* canDecide
    decision : (Requests \X Decisions) \cup {Nil},  \* the dialog
    phrase : BOOLEAN,                 \* confirmation is the expected phrase
    refused : BOOLEAN,                              \* decisionError
    submitting : BOOLEAN ]

Started == [status |-> FirstStatus, audit |-> [q \in Requests |-> <<>>]]

\* The decisions on q that the audit log has.
InLog(q) == server.strays[q] \cup Range(server.audit[q])

ApprovalsMounted(role) ==
  Mounting("approvals",
           [list |-> Nil, role |-> role, decision |-> Nil, phrase |-> FALSE,
            refused |-> FALSE, submitting |-> FALSE],
           With(Started, "strays", [q \in Requests |-> {}]),
           SetToBag({Query("list")}))

-----------------------------------------------------------------------------
Edits(p) == page' = p /\ UNCHANGED <<route, server, wire>>

DecideOffered(q) ==
  /\ page.role /\ page.decision = Nil
  /\ page.list # Nil /\ page.list[q] = "pending"

OpenDecision(q, d) ==
  /\ DecideOffered(q)
  /\ Edits([page EXCEPT !.decision = <<q, d>>, !.phrase = FALSE, !.refused = FALSE])

TypePhrase ==
  /\ page.decision # Nil /\ page.decision[1] \in HighRisk
  /\ Edits([page EXCEPT !.phrase = ~@])

CloseDecision ==
  /\ page.decision # Nil /\ ~page.submitting
  /\ Edits([page EXCEPT !.decision = Nil, !.phrase = FALSE, !.refused = FALSE])

SubmitDisabled ==
  page.submitting \/ ~page.role \/ (page.decision[1] \in HighRisk /\ ~page.phrase)

Decide(q, d, phrase) ==
  [op |-> "decide", stage |-> "sent", request |-> q, decision |-> d, phrase |-> phrase]

SubmitDecision ==
  /\ page.decision # Nil /\ ~SubmitDisabled /\ Room(1)
  /\ page' = [page EXCEPT !.submitting = TRUE, !.refused = FALSE]
  /\ Ask(Decide(page.decision[1], page.decision[2], page.phrase))
  /\ UNCHANGED <<route, server>>

-----------------------------------------------------------------------------
ApprovalsLoaded(r, ok) ==
  /\ r.op = "list" /\ Ends(r, ok)
  /\ page' = IF ok THEN [page EXCEPT !.list = r.status] ELSE page
  /\ wire' = Settled(r)
  /\ UNCHANGED <<route, server>>

DecisionAnswered(r, ok) ==
  /\ r.op = "decide" /\ Ends(r, ok)
  /\ page' = IF ok
             THEN [page EXCEPT !.list = IF @ = Nil THEN Nil ELSE [@ EXCEPT ![r.request] = r.decision],
                               !.decision = Nil, !.phrase = FALSE, !.submitting = FALSE]
             ELSE [page EXCEPT !.refused = TRUE, !.submitting = FALSE]
  /\ wire' = Settled(r)
  /\ UNCHANGED <<route, server>>

\* handleDecision, under its mutex: refused unless the request is pending and, if
\* its risk is high, the phrase is right.
AcceptsDecision(q, phrase) ==
  server.status[q] = "pending" /\ (q \in HighRisk => phrase)

\* The audit log, then the items, which keep what they had if it fails.
Decided(q, d) ==
  server' = [server EXCEPT !.status[q] = d, !.audit[q] = Append(@, d)]

ServeApprovals(r) ==
  /\ r.stage = "sent"
  /\ \/ r.op = "list" /\ Reply(r, AnsweredWith(r, [status |-> server.status])) /\ UNCHANGED server
     \/ /\ r.op = "decide" /\ AcceptsDecision(r.request, r.phrase)
        /\ Decided(r.request, r.decision)
        /\ Reply(r, Answered(r))
  /\ UNCHANGED <<route, page>>

OthersDecide(q, d) ==
  /\ AcceptsDecision(q, TRUE)
  /\ Decided(q, d)
  /\ UNCHANGED <<route, page, wire>>

\* An entry is inserted and its decision is not stored: the process dies between
\* the two, or Record returns an error although the row is there, because the
\* context of the request has ended.
LogOnly(q, d) ==
  /\ AcceptsDecision(q, TRUE)
  /\ server' = [server EXCEPT !.strays[q] = @ \cup {d}]
  /\ UNCHANGED <<route, page, wire>>

\* NewApprovalHandler, of a process that finds the log of those before it.
ServerRestarts ==
  /\ server' = With(Started, "strays", [q \in Requests |-> InLog(q)])
  /\ UNCHANGED <<route, page, wire>>

ApprovalsNext ==
  \/ \E q \in Requests, d \in Decisions : OpenDecision(q, d) \/ OthersDecide(q, d) \/ LogOnly(q, d)
  \/ ServerRestarts
  \/ TypePhrase \/ CloseDecision \/ SubmitDecision
  \/ \E r \in Open : \/ ServeApprovals(r)
                     \/ \E ok \in BOOLEAN : ApprovalsLoaded(r, ok) \/ DecisionAnswered(r, ok)

-----------------------------------------------------------------------------
\* "Submitting..." is shown while a decision is under way, and over the decision
\* that it is.
ApprovalsBusyMeansWaiting ==
  page.submitting => \E r \in Pending("decide") : page.decision = <<r.request, r.decision>>

ApprovalsNoDoubleSubmit == OneAtMost(Pending("decide"))

\* "This decision is enforced server-side and written to the audit ledger."
\* (pages/approvals/ApprovalsPage.tsx:371): a server decides a request once at most,
\* one that it started with as decided never, and logs the decision that it holds;
\* and a decision that the page shows is of the start or in the log, although its
\* list is never loaded again, answers get lost and the server restarts.
DecidedOnce ==
  route = "approvals" =>
    \A q \in Requests :
      /\ server.audit[q] = IF server.status[q] = FirstStatus[q] THEN <<>> ELSE <<server.status[q]>>
      /\ page.list # Nil => page.list[q] \in {FirstStatus[q]} \cup InLog(q)
=============================================================================
