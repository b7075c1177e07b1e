------------------------------ MODULE NodesPage ------------------------------
(***************************************************************************)
(* The node fleet: pages/nodes/NodesPage.tsx with state/nodesStore.ts and  *)
(* state/useAsyncStore.ts, against the node registry of the backend.       *)
(*                                                                         *)
(* server.fleet maps a registered node to the agents it hosts.  The events *)
(* node.snapshot, node.updated and node.offline the page subscribes to     *)
(* have no family in the hub (eventFamily) and never reach a browser, so   *)
(* no action reloads on them.  What nothing but the view reads (filters,   *)
(* expanded rows, the statuses that nodes and agents are read with) is no  *)
(* state here: the view is looked at for all its values at once.           *)
(***************************************************************************)
EXTENDS WebTab, StatusModel

CONSTANTS Nodes, Agents,
          Capacity      \* maxAgents of every node; 0 is unlimited

ASSUME AgentsAssumption == Nil \notin Agents

Fleets == UNION {[S -> SUBSET Agents] : S \in SUBSET Nodes}

NodesState ==
  [ list : Fleets,                                 \* store.nodes
    load : {"loading", "success", "error"},        \* store.loadState
    selected : Nodes \cup {Nil},                   \* selectedNodeId
    dialog : Nodes \cup {Nil},      \* assignmentNodeId while its modal is open
    options : SUBSET Agents,                       \* agentOptions
    pending : SUBSET Agents,                       \* pendingIds of the dialog
    form : BOOLEAN, registering : BOOLEAN,         \* registerOpen, registering
    confirm : Nodes \cup {Nil} ]                   \* nodeToDeregister

\* A load of the list and the handler that awaits it; agent is Nil unless the
\* handler is one of the assignment dialog.
LoadNodes(handler, a) ==
  [op |-> "nodes", stage |-> "sent", handler |-> handler, agent |-> a]
PlainLoad == LoadNodes("none", Nil)
Change(op, n, a) == [op |-> op, stage |-> "sent", node |-> n, agent |-> a]

NodesMounted(f) ==
  Mounting("nodes",
           [list |-> <<>>, load |-> "loading", selected |-> Nil,
            dialog |-> Nil, options |-> {}, pending |-> {}, form |-> FALSE,
            registering |-> FALSE, confirm |-> Nil],
           [fleet |-> f],
           SetToBag({PlainLoad}))

-----------------------------------------------------------------------------
(* What the page offers.                                                    *)

ListedNodes == DOMAIN page.list
FirstLoad == page.load = "loading" /\ ListedNodes = {}
DetailShown == page.selected \in ListedNodes
DialogShown == page.dialog \in ListedNodes
\* A dialog that is open covers the rest of the page.
Uncovered == ~DialogShown /\ ~page.form /\ page.confirm = Nil
RowOffered(n) == Uncovered /\ ~FirstLoad /\ n \in ListedNodes

Assigned  == page.options \cap page.list[page.dialog]
Available == page.options \ page.list[page.dialog]
AtCapacity == Capacity > 0 /\ Cardinality(Assigned) >= Capacity
UnassignOffered(a) == DialogShown /\ a \in Assigned \ page.pending
AssignOffered(a) == DialogShown /\ a \in Available \ page.pending /\ ~AtCapacity
RegisterOffered == page.form /\ ~page.registering
RefreshOffered == Uncovered /\ (page.load # "loading" \/ DetailShown)

ClickRow(n) ==
  /\ RowOffered(n)
  /\ page' = [page EXCEPT !.selected = n]
  /\ UNCHANGED <<route, server, wire>>

CloseNodeDetail ==
  /\ Uncovered /\ page.selected # Nil
  /\ page' = [page EXCEPT !.selected = Nil]
  /\ UNCHANGED <<route, server, wire>>

ClickAssign(n) ==
  /\ RowOffered(n)
  /\ page' = [page EXCEPT !.dialog = n]
  /\ UNCHANGED <<route, server, wire>>

CloseDialog ==
  /\ DialogShown
  /\ page' = [page EXCEPT !.dialog = Nil]
  /\ UNCHANGED <<route, server, wire>>

AskDeregister(n) ==
  /\ RowOffered(n)
  /\ page' = [page EXCEPT !.confirm = n]
  /\ UNCHANGED <<route, server, wire>>

ShowForm(open) ==
  /\ IF open THEN Uncovered ELSE page.form
  /\ page' = [page EXCEPT !.form = open]
  /\ UNCHANGED <<route, server, wire>>

-----------------------------------------------------------------------------
(* Loads.                                                                   *)

\* useAsyncStore.load up to its await; the other state of the handler is in p.
Loading(p) == [p EXCEPT !.load = "loading"]

ClickRefresh ==
  /\ RefreshOffered /\ Room(1)
  /\ page' = Loading(page)
  /\ Ask(PlainLoad)
  /\ UNCHANGED <<route, server>>

\* useAsyncStore.load after its await: whatever load answers last is shown, and
\* the handler behind it goes on even if the load failed.
Loaded(r, ok, p) ==
  IF ok THEN [p EXCEPT !.list = r.fleet, !.load = "success"]
        ELSE [p EXCEPT !.load = "error"]

NodesLoaded(r, ok) ==
  /\ r.op = "nodes" /\ Ends(r, ok)
  /\ LET p == Loaded(r, ok, page)
     IN page' = CASE r.handler = "register" ->
                        [p EXCEPT !.form = FALSE, !.registering = FALSE]
                  [] r.handler = "dialog" ->
                        [p EXCEPT !.pending = @ \ {r.agent}]
                  [] OTHER -> p
  /\ wire' = Settled(r)
  /\ UNCHANGED <<route, server>>

\* The answer of getMembers, asked once when the page is mounted; it is kept
\* out of the bag, and a failure leaves the options empty.
MembersLoaded ==
  /\ page.options = {}
  /\ page' = [page EXCEPT !.options = Agents]
  /\ UNCHANGED <<route, server, wire>>

-----------------------------------------------------------------------------
(* Changes: the request, its answer, and the reload the handler awaits.     *)

AssignAgent(a) ==
  /\ AssignOffered(a) /\ Room(1)
  /\ page' = [page EXCEPT !.pending = @ \cup {a}]
  /\ Ask(Change("assign", page.dialog, a))
  /\ UNCHANGED <<route, server>>

UnassignAgent(a) ==
  /\ UnassignOffered(a) /\ Room(1)
  /\ page' = [page EXCEPT !.pending = @ \cup {a}]
  /\ Ask(Change("unassign", page.dialog, a))
  /\ UNCHANGED <<route, server>>

RegisterNode(n) ==
  /\ RegisterOffered /\ Room(1)
  /\ page' = [page EXCEPT !.registering = TRUE]
  /\ Ask(Change("register", n, Nil))
  /\ UNCHANGED <<route, server>>

\* The answer of the confirm dialog; nothing marks a removal as under way.
Deregister(sure) ==
  /\ page.confirm # Nil
  /\ page' = [page EXCEPT !.confirm = Nil]
  /\ IF sure THEN Room(1) /\ Ask(Change("deregister", page.confirm, Nil))
             ELSE UNCHANGED wire
  /\ UNCHANGED <<route, server>>

NodeChanged(r, ok) ==
  /\ r.op \in {"assign", "unassign", "register", "deregister"}
  /\ Ends(r, ok)
  /\ LET handler == IF r.agent # Nil THEN "dialog" ELSE r.op
         forget  == [page EXCEPT !.selected =
                       IF r.op = "deregister" /\ @ = r.node THEN Nil ELSE @]
     IN IF ok
        THEN /\ page' = Loading(forget)
             /\ wire' = BagAdd(Settled(r), LoadNodes(handler, r.agent))
        ELSE /\ page' = [page EXCEPT
                   !.pending = @ \ {r.agent},
                   !.registering = IF r.op = "register" THEN FALSE ELSE @]
             /\ wire' = Settled(r)
  /\ UNCHANGED <<route, server>>

-----------------------------------------------------------------------------
(* The registry.                                                            *)

Fleet == server.fleet

\* What a change makes of the fleet; its guard is in Accepts.
Applied(r) ==
  CASE r.op = "assign"   -> [Fleet EXCEPT ![r.node] = @ \cup {r.agent}]
    [] r.op = "unassign" -> [Fleet EXCEPT ![r.node] = @ \ {r.agent}]
    [] r.op = "register" -> With(Fleet, r.node, {})
    [] OTHER -> [n \in DOMAIN Fleet \ {r.node} |-> Fleet[n]]

Accepts(r) ==
  CASE r.op = "assign" ->
         /\ r.node \in DOMAIN Fleet
         /\ \/ r.agent \in Fleet[r.node]
            \/ /\ \A n \in DOMAIN Fleet : r.agent \notin Fleet[n]
               /\ Capacity = 0 \/ Cardinality(Fleet[r.node]) < Capacity
    [] r.op = "unassign" -> r.node \in DOMAIN Fleet /\ r.agent \in Fleet[r.node]
    [] r.op = "deregister" -> r.node \in DOMAIN Fleet
    [] OTHER -> TRUE

\* A change the registry refuses is never carried out: it can only fail.
ServeNodes(r) ==
  /\ r.stage = "sent"
  /\ IF r.op = "nodes"
     THEN /\ Reply(r, AnsweredWith(r, [fleet |-> Fleet]))
          /\ UNCHANGED server
     ELSE /\ Accepts(r)
          /\ server' = [fleet |-> Applied(r)]
          /\ Reply(r, Answered(r))
  /\ UNCHANGED <<route, page>>

\* The registry scan moves the agents of a node it has lost; another user, or
\* a node that joins, changes the fleet as well.
FleetChanges ==
  /\ \E f \in Fleets : f # Fleet /\ server' = [fleet |-> f]
  /\ UNCHANGED <<route, page, wire>>

-----------------------------------------------------------------------------
(* The view.  status is what the backend says of each listed node, tasks    *)
(* the agents that have active tasks, and running those that are resolved   *)
(* to be running.                                                           *)

StatusFilters == NodeWords \cup {"all"}
NodeStatuses == [ListedNodes -> NodeWords \cup {"unsaid"}]

\* asNodeStatus, for a word the program does not know
MappedStatus(s) == IF s \in NodeWords THEN s ELSE "offline"

\* A node without a limit is given four places.
NodeCapacity == IF Capacity > 0 THEN Capacity ELSE 4

Figures(status) ==
  [summary |-> SummarizeNodes([n \in ListedNodes |-> MappedStatus(status[n])]),
   totalAssigned |-> Cardinality(UNION {{n} \X page.list[n] : n \in ListedNodes}),
   totalCapacity |-> Max({1, NodeCapacity * Cardinality(ListedNodes)})]

\* The figures of degraded and offline nodes are there if there are any.
HeaderShown(status) ==
  LET f == Figures(status)
  IN  [nodes |-> Cardinality(ListedNodes), online |-> f.summary["online"],
       used |-> <<f.totalAssigned, f.totalCapacity>>,
       alerts |-> {<<s, f.summary[s]>> : s \in {w \in NodeWords \ {"online"} : f.summary[w] > 0}}]

\* found are the nodes of the type that is selected whose name, id or labels hold
\* the text of the search.
VisibleNodes(status, filter, found) ==
  {n \in ListedNodes \cap found : filter \in {"all", MappedStatus(status[n])}}

ShowingOf(status, filter, found) ==
  <<Cardinality(VisibleNodes(status, filter, found)), Cardinality(ListedNodes)>>

NodeAgents(n, tasks) == {[agent |-> a, working |-> a \in tasks] : a \in page.list[n]}

\* The rows of the table, of which some are expanded.
HostedShown(status, filter, found, expanded, tasks) ==
  [n \in VisibleNodes(status, filter, found) \cap expanded |-> NodeAgents(n, tasks)]

\* The cards below the topology.
CardsShown(status, filter, found) ==
  [n \in VisibleNodes(status, filter, found) |-> <<Cardinality(page.list[n]), NodeCapacity>>]

\* The panel of the selected node, whether or not the filters let it through.
SelectedNodeAgentRows(running) ==
  {[agent |-> a, working |-> a \in running] : a \in page.list[page.selected]}
RuntimeFacts == <<Cardinality(page.list[page.selected]), NodeCapacity>>
HostedAgents(running) == SelectedNodeAgentRows(running)

\* The dialog calls a node without a limit unlimited.
DialogFacts ==
  <<Cardinality(page.list[page.dialog]), IF Capacity > 0 THEN Capacity ELSE Nil>>

NodesUser ==
  \/ \E n \in Nodes : \/ ClickRow(n) \/ ClickAssign(n) \/ AskDeregister(n)
                      \/ RegisterNode(n)
  \/ \E a \in Agents : AssignAgent(a) \/ UnassignAgent(a)
  \/ CloseNodeDetail \/ CloseDialog \/ ClickRefresh
  \/ \E b \in BOOLEAN : ShowForm(b) \/ Deregister(b)

NodesAnswer(r) == \E ok \in BOOLEAN : NodesLoaded(r, ok) \/ NodeChanged(r, ok)

NodesNext ==
  \/ NodesUser \/ MembersLoaded \/ FleetChanges
  \/ \E r \in Open : ServeNodes(r) \/ NodesAnswer(r)

-----------------------------------------------------------------------------
\* The requests of the handler that keeps agent a in pendingIds: the change,
\* then the reload it awaits.
ChainOf(a) == {r \in Open : /\ r.op \in {"assign", "unassign", "nodes"}
                            /\ r.agent = a}
RegisterChain == {r \in Open : \/ r.op = "register"
                               \/ r.op = "nodes" /\ r.handler = "register"}

\* A control that is disabled, or a spinner that turns, waits for a request
\* that is open: whatever order answers, failures and events come in, the
\* page never stays busy with nothing under way.
NodesBusyMeansWaiting ==
  /\ page.load = "loading" => Pending("nodes") # {}
  /\ page.registering => RegisterChain # {}
  /\ \A a \in page.pending : ChainOf(a) # {}

\* No change is submitted twice: an agent has one assignment or removal under
\* way at most, even if its dialog is closed and opened again, and there is one
\* registration at most, even if its form is closed and opened again.
NodesNoDoubleSubmit ==
  /\ \A a \in Agents : OneAtMost(ChainOf(a))
  /\ OneAtMost(RegisterChain)

\* The header, the table, the cards, the panel of the selected node and the dialog
\* say the same of the fleet, whatever order lists, changes and failures come in
\* and whatever word a status is: each node is under one status, whose filter finds
\* as many as the header counts; the agents of all rows are those in the header; and
\* the dialog offers no agent to a node that the others show to be full.  (They are
\* looked at with no request open, as each may fail and leave the list as it is.)
FleetShownAlike ==
  (route = "nodes" /\ wire = EmptyBag) =>
    /\ \A status \in NodeStatuses :
         LET header == HeaderShown(status)
             count == [s \in StatusFilters |-> ShowingOf(status, s, Nodes)[1]]
         IN  /\ header.online = count["online"]
             /\ header.alerts = {<<s, count[s]>> : s \in {w \in NodeWords \ {"online"} : count[w] > 0}}
             /\ header.nodes = count["all"]
             /\ count["all"] = count["online"] + count["degraded"] + count["offline"]
    /\ LET status == [n \in ListedNodes |-> "online"]
           rows == HostedShown(status, "all", Nodes, Nodes, Agents)
       IN  /\ HeaderShown(status).used[1] = Cardinality(UNION {{n} \X rows[n] : n \in DOMAIN rows})
           /\ DetailShown => /\ RuntimeFacts = CardsShown(status, "all", Nodes)[page.selected]
                             /\ HostedAgents(Agents) = rows[page.selected]
    /\ (DialogShown /\ DialogFacts[2] # Nil /\ DialogFacts[1] >= DialogFacts[2]) =>
         \A a \in Agents : ~AssignOffered(a)
=============================================================================
