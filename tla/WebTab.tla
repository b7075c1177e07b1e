------------------------------- MODULE WebTab -------------------------------
(***************************************************************************)
(* One browser tab of the web front end (src/web/src).                     *)
(*                                                                         *)
(* The router mounts one page at a time (route).  The React state of the   *)
(* mounted page is the record page: the values of its useState and useRef  *)
(* cells.  server is what the backend holds of the page's subject, and     *)
(* wire is the bag of HTTP requests the tab has open: two requests that    *)
(* ask the same are two copies of one element.  JavaScript runs one task   *)
(* at a time, so a handler up to its first await, and the code after an    *)
(* await up to the next one, are one step each; the answers of open        *)
(* requests arrive in any order.                                           *)
(***************************************************************************)
EXTENDS Naturals, FiniteSets, FiniteSetsExt, Bags, BagsExt, Sequences, SequencesExt

CONSTANTS Nil,      \* null and undefined
          MaxOpen   \* bound on the requests open at once

ASSUME MaxOpenAssumption == MaxOpen \in Nat \ {0}

VARIABLES route,    \* the page the router has mounted
          page,     \* the state of its component
          server,   \* what the backend holds of the page's subject
          wire      \* the requests that are open, with the answer once given

tab == <<route, page, server, wire>>

-----------------------------------------------------------------------------
(* A request is a record with at least op, what it asks, and stage: sent     *)
(* until the server has handled it, then ok, with what the server read if   *)
(* it is a query.                                                           *)

Open == BagToSet(wire)

\* The open requests that ask op.
Pending(op) == {r \in Open : r.op = op}

\* How many copies of request r are open.
Copies(r) == IF r \in DOMAIN wire THEN wire[r] ELSE 0

\* One request of S is open at most.
OneAtMost(S) == \A r, s \in S : r = s /\ Copies(r) = 1

\* Room for n more requests (the bound of the model).
Room(n) == BagCardinality(wire) + n <= MaxOpen

\* f, and g where f is not defined.
Joined(f, g) == [x \in DOMAIN f \cup DOMAIN g |-> IF x \in DOMAIN f THEN f[x] ELSE g[x]]

\* f with v at x.
With(f, x, v) == [y \in DOMAIN f \cup {x} |-> IF y = x THEN v ELSE f[y]]

\* The elements of s at the positions of P, in their order.
Selected(s, P) ==
  LET of[n \in 0..Len(s)] ==
        IF n = 0 THEN <<>> ELSE IF n \in P THEN Append(of[n - 1], s[n]) ELSE of[n - 1]
  IN  of[Len(s)]

Query(op) == [op |-> op, stage |-> "sent"]

\* HttpClient.request: the request leaves with a timer of timeoutMs.
Ask(r) == wire' = BagAdd(wire, r)

\* The continuation of the await behind r runs: its answer leaves the wire.
Settled(r) == BagRemove(wire, r)

\* The server has carried out r.
Answered(r) == [r EXCEPT !.stage = "ok"]
\* ... and tells what it read.
AnsweredWith(r, f) == Joined(f, Answered(r))
Reply(r, a) == wire' = BagAdd(BagRemove(wire, r), a)

\* The bag B of requests, in which those of DOMAIN f become what f makes of them; f
\* is one to one.
Become(B, f) ==
  LET S == DOMAIN f \cap DOMAIN B
  IN  [r \in DOMAIN B \ S |-> B[r]]
        (+) [y \in {f[s] : s \in S} |-> B[CHOOSE s \in S : f[s] = y]]

\* The component that has sent the requests of S is gone: they go on without it.
Detached(B, S) == Become(B, [r \in S |-> [r EXCEPT !.live = FALSE]])

\* How r may end for the page.  It succeeds once the server has carried it out.
\* It may fail at any time: no connection, the abort of the timer, a status that
\* is not ok (HttpClientError); and if the timer or the connection fails after
\* the server has carried it out, the page never learns that it was.
Ends(r, ok) == ok => r.stage = "ok"

\* The tab mounts page p, with state s, over a server in state v, and its
\* mount effects send the requests of the bag b.  What the page before left
\* open still reaches the server, and its continuations only set the state of
\* a component that is gone.
Mounting(p, s, v, b) ==
  /\ route' = p
  /\ page' = s
  /\ server' = v
  /\ wire' = b
=============================================================================
