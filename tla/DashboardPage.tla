--------------------------- MODULE DashboardPage ---------------------------
(***************************************************************************)
(* The dashboard (pages/dashboard/DashboardPage.tsx): two loads that run   *)
(* at once, the token statistics of its store and the runtime data, which  *)
(* is three requests whose answers are shown together.  Every card and row *)
(* is a link to another page.  Costs, charts and times are left out.       *)
(***************************************************************************)
EXTENDS WebTab, StatusModel

CONSTANTS Agents,      \* the assistants that may be on the roster or report
          FleetNodes,  \* execution nodes
          Reports,     \* what the runtime may report of an agent
          NoReport,    \* an agent on the roster of which nothing is reported
          MaxLoads     \* bound on the requests of the dashboard

\* server: the reports, the members of the roster, and the status of the nodes.
Reporting == UNION {[S -> Reports] : S \in SUBSET Agents}
NodeRows == UNION {[S -> NodeWords] : S \in SUBSET FleetNodes}
Fleets == [agents : Reporting, roster : SUBSET Agents, nodes : NodeRows]

DashboardState ==
  [ stats : {"loading", "success", "error"},
    agents : Reporting, roster : SUBSET Agents, nodes : NodeRows,
    runtimeError : BOOLEAN ]

LoadDashboard == Query("stats")

\* Promise.all of three requests, taken as one.
LoadRuntime == Query("runtime")

DashboardMounted(s) ==
  Mounting("dashboard",
           [stats |-> "loading", agents |-> <<>>, roster |-> {}, nodes |-> <<>>,
            runtimeError |-> FALSE],
           s, SetToBag({LoadDashboard, LoadRuntime}))

-----------------------------------------------------------------------------
\* The button is disabled while the store loads, whatever the runtime data does.
RefreshDashboard ==
  /\ page.stats # "loading" /\ BagCardinality(wire) + 2 <= MaxLoads
  /\ page' = [page EXCEPT !.stats = "loading", !.runtimeError = FALSE]
  /\ wire' = BagAdd(BagAdd(wire, LoadDashboard), LoadRuntime)
  /\ UNCHANGED <<route, server>>

StatsLoaded(r, ok) ==
  /\ r.op = "stats" /\ Ends(r, ok)
  /\ page' = [page EXCEPT !.stats = IF ok THEN "success" ELSE "error"]
  /\ wire' = Settled(r)
  /\ UNCHANGED <<route, server>>

RuntimeLoaded(r, ok) ==
  /\ r.op = "runtime" /\ Ends(r, ok)
  /\ page' = IF ok THEN [page EXCEPT !.agents = r.agents, !.nodes = r.nodes, !.roster = r.roster]
                   ELSE [page EXCEPT !.runtimeError = TRUE]
  /\ wire' = Settled(r)
  /\ UNCHANGED <<route, server>>

-----------------------------------------------------------------------------
AgentIds == page.roster \cup DOMAIN page.agents

\* What is reported of an agent, and of one on the roster only, what the roster says.
StatusOf(a) == IF a \in DOMAIN page.agents THEN page.agents[a] ELSE NoReport

\* activeAgents, of totalAgents = the number of AgentIds.
ActiveAgents == {a \in AgentIds : ResolveAgentStatus(StatusOf(a)) = "running"}

\* The team cards: the agents that report, by the team the roster has them in.
TeamCard(onRoster) ==
  LET mine == {a \in DOMAIN page.agents : (a \in page.roster) = onRoster}
  IN  [ total  |-> Cardinality(mine),
        active |-> Cardinality({a \in mine : ResolveAgentStatus(page.agents[a]) = "running"}) ]

NodeSummary == SummarizeNodes(page.nodes)

\* The terminal that is opened for an agent: its own, or a name made of its id.
TerminalHash(a) == IF page.agents[a].hasTerminal THEN <<"terminal", a>> ELSE <<"guess", a>>

\* A recent activity leads to the terminal if it is of a task or a terminal.
ActivityLink(a) ==
  IF page.agents[a].tasks \/ page.agents[a].hasTerminal
  THEN <<"terminal", TerminalHash(a)>> ELSE <<"ledger", Nil>>

\* What each part of the page leads to.
HeaderLinks == {<<p, Nil>> : p \in {"ledger", "nodes", "members", "approvals"}}
CardLinks == {<<p, Nil>> : p \in {"ledger", "members", "nodes", "taskmap", "approvals"}}
TeamLinks == {<<"members", Nil>>}
AgentLinks == {<<"terminal", Nil>>} \cup {<<"terminal", TerminalHash(a)>> : a \in DOMAIN page.agents}
NodeLinks == {<<"nodes", Nil>>}
ActivityLinks == {<<"ledger", Nil>>} \cup {ActivityLink(a) : a \in DOMAIN page.agents}
Links == HeaderLinks \cup CardLinks \cup TeamLinks \cup AgentLinks \cup NodeLinks \cup ActivityLinks

\* navigate: the page that is left is gone, and only its name and hash are kept.
FollowLink(l) ==
  /\ l \in Links
  /\ route' = "left" /\ page' = l /\ server' = Nil /\ wire' = EmptyBag

-----------------------------------------------------------------------------
ServeDashboard(r) ==
  /\ r.stage = "sent"
  /\ \/ r.op = "stats" /\ Reply(r, Answered(r))
     \/ r.op = "runtime" /\ Reply(r, AnsweredWith(r, server))
  /\ UNCHANGED <<route, page, server>>

\* Agents report, nodes change their status, members are added.
FleetMoves ==
  /\ \/ \E a \in Agents, w \in Reports : server' = [server EXCEPT !.agents = With(@, a, w)]
     \/ \E n \in DOMAIN server.nodes, s \in NodeWords : server' = [server EXCEPT !.nodes[n] = s]
     \/ \E a \in Agents : server' = [server EXCEPT !.roster = @ \cup {a}]
  /\ UNCHANGED <<route, page, wire>>

DashboardNext ==
  \/ RefreshDashboard \/ FleetMoves
  \/ route = "dashboard" /\ \E l \in Links : FollowLink(l)
  \/ \E r \in Open : \/ ServeDashboard(r)
                     \/ \E ok \in BOOLEAN : StatsLoaded(r, ok) \/ RuntimeLoaded(r, ok)

-----------------------------------------------------------------------------
DashboardBusyMeansWaiting == page.stats = "loading" => Pending("stats") # {}

\* The figures of the cards agree although they are made in different ways, from
\* the roster and from the reports, which name different agents: each agent that a
\* team card has as active is counted as active, and each active one in the total.
FiguresAgree ==
  route = "dashboard" =>
    LET roster == TeamCard(TRUE)
        others == TeamCard(FALSE)
    IN  /\ roster.total + others.total <= Cardinality(AgentIds)
        /\ roster.active + others.active <= Cardinality(ActiveAgents)
        /\ ActiveAgents \subseteq AgentIds
        /\ NodeSummary["online"] + NodeSummary["degraded"] + NodeSummary["offline"]
             = Cardinality(DOMAIN page.nodes)
=============================================================================
