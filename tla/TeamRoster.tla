----------------------------- MODULE TeamRoster -----------------------------
(***************************************************************************)
(* Who is in which team: the roster of the workspace handler (handlers/    *)
(* roster.go), with the members and teams that any client creates, changes *)
(* and deletes, and the two pages that show it, the cards of the members   *)
(* page and the list of shells beside the terminal.  The dialogs that      *)
(* create members are in MembersPage, opening a shell in TerminalSessions. *)
(*                                                                         *)
(* server.members are the rows and server.teams the teams, in order;       *)
(* server.creating are the POSTs between their first look at the roster    *)
(* and their second, which the runtime of the agent is started between;    *)
(* server.shells says of the shells of a member, or of nobody, whether     *)
(* they are live.  server.stray are the members that a change of the teams *)
(* has left in none, and server.calls bounds the changes.                  *)
(***************************************************************************)
EXTENDS MembersPage, StatusModel

CONSTANTS RosterRoles,   \* the roles that rows are written with
          MaxListed,     \* bound on the members a request lists for a team
          MaxCalls       \* bound on the changes of the roster

ASSUME RosterAssumption == MaxListed \in Nat

KnownRoles == {"owner", "supervisor", "assistant", "member"}
Owners == Ids \cup {Nil}

RosterRow == [id : Ids, team : Teams \cup {Nil}, role : RosterRoles, terminal : {"attached", "offline"}]
TeamGroup == [team : Teams, rows : Seq(RosterRow)]

\* page.kind is the page the roster is shown on.
TeamRosterState ==
  [ kind : {"members", "terminal"},
    rows : Seq(RosterRow), groups : Seq(TeamGroup),   \* roster, teamGroups; of the model
    team : Teams \cup {Nil},                    \* selectedTeamId
    shells : UNION {[S -> BOOLEAN] : S \in SUBSET Owners} ]  \* sessions

RowIds(rows) == {x.id : x \in ToSet(rows)}
FirstRead == [op |-> "read", stage |-> "sent", unset |-> TRUE]

TeamRosterMounted(members, teams) ==
  \E kind \in {"members", "terminal"} :
    Mounting("roster",
             [kind |-> kind, rows |-> <<>>, groups |-> <<>>, team |-> Nil,
              shells |-> <<>>],
             [members |-> members, teams |-> teams, creating |-> {}, shells |-> <<>>,
              stray |-> {}, calls |-> 0],
             SetToBag({FirstRead}))

-----------------------------------------------------------------------------
(* The roster of the backend.                                               *)

Exists(m) == m \in RowIds(server.members)
Placed(m, teams) == \E t \in ToSet(teams) : m \in ToSet(t.members)
Unplaced(members, teams) == {m \in RowIds(members) : ~Placed(m, teams)}

\* Without a team the member is meant for the default one, whether or not it exists.
Resolves(asked) == asked = Nil \/ \E t \in ToSet(server.teams) : t.team = asked

PostMember(m, asked, role) ==
  /\ ~Exists(m) /\ Resolves(asked)
  /\ server' = [server EXCEPT !.calls = @ + 1,
       !.creating = @ \cup {[id |-> m, target |-> IF asked = Nil THEN DefaultTeam ELSE asked,
                             role |-> role]}]
  /\ UNCHANGED <<route, page, wire>>

\* Mutant: a member whose team is gone by now is in none.
AddToTeamOnly(teams, t, m) ==
  [i \in DOMAIN teams |-> IF teams[i].team # t \/ m \in ToSet(teams[i].members) THEN teams[i]
                          ELSE [teams[i] EXCEPT !.members = Append(@, m)]]

\* A team that is gone by now is replaced by the first one there is; only a team
\* that was found is searched for the member first.
AddMemberToTeam(teams, t, m) ==
  LET named == {i \in DOMAIN teams : teams[i].team = t}
      to == IF named # {} THEN Min(named) ELSE 1
      there == named # {} /\ m \in ToSet(teams[to].members)
  IN  [i \in DOMAIN teams |-> IF i # to \/ there THEN teams[i]
                              ELSE [teams[i] EXCEPT !.members = Append(@, m)]]

\* The second look refuses a member that another POST has created meanwhile; the
\* row keeps the team that was asked for.
MemberAdded(c) ==
  LET teams == AddMemberToTeam(server.teams, c.target, c.id)
      row == [id |-> c.id, role |-> c.role, terminal |-> "offline",
              team |-> IF c.target = DefaultTeam THEN Nil ELSE c.target]
  IN  IF Exists(c.id) THEN server' = [server EXCEPT !.creating = @ \ {c}]
      ELSE server' = [server EXCEPT !.creating = @ \ {c}, !.members = Append(@, row), !.teams = teams,
                        !.stray = IF server.teams = <<>> THEN @ \cup {c.id} ELSE @]

FinishPostMember(c) == MemberAdded(c) /\ UNCHANGED <<route, page, wire>>

PutRole(m, role) ==
  /\ Exists(m)
  /\ server' = [server EXCEPT !.calls = @ + 1,
       !.members = [i \in DOMAIN @ |-> IF @[i].id = m THEN [@[i] EXCEPT !.role = role] ELSE @[i]]]
  /\ UNCHANGED <<route, page, wire>>

Others(ids, m) == Selected(ids, {k \in DOMAIN ids : ids[k] # m})
Stripped(teams, m) == [i \in DOMAIN teams |-> [teams[i] EXCEPT !.members = Others(@, m)]]

\* The shells of the member live on.
DeleteMember(m) ==
  /\ Exists(m)
  /\ server' = [server EXCEPT !.calls = @ + 1, !.stray = @ \ {m},
       !.members = Selected(@, {i \in DOMAIN @ : @[i].id # m}), !.teams = Stripped(@, m)]
  /\ UNCHANGED <<route, page, wire>>

\* The ids of a team are taken as they come: they may be in another team too, be
\* there twice, or be nobody's.
TeamsBecome(teams) ==
  /\ server' = [server EXCEPT !.calls = @ + 1, !.teams = teams, !.stray = Unplaced(server.members, teams)]
  /\ UNCHANGED <<route, page, wire>>

HandleTeams(t, ids) ==
  LET there == {i \in DOMAIN server.teams : server.teams[i].team = t}
  IN \/ there = {} /\ TeamsBecome(Append(server.teams, [team |-> t, members |-> ids]))
     \/ \E i \in there : \/ TeamsBecome([server.teams EXCEPT ![i].members = ids])
                         \/ TeamsBecome(RemoveAt(server.teams, i))

\* A restart drops the POSTs under way, and makes the default team if there is none.
EnsureDefaultTeam ==
  IF server.teams = <<>> /\ server.members # <<>>
  THEN <<[team |-> DefaultTeam, members |-> [i \in DOMAIN server.members |-> server.members[i].id]]>>
  ELSE server.teams

RosterRestarts ==
  /\ server' = [server EXCEPT !.calls = @ + 1, !.creating = {}, !.teams = EnsureDefaultTeam,
                              !.stray = IF server.teams = <<>> THEN {} ELSE @]
  /\ UNCHANGED <<route, page, wire>>

\* A shell is launched for a member, or for nobody; it exits, or is stopped.
ShellOf(m, live) ==
  /\ (m \in DOMAIN server.shells => server.shells[m] # live) /\ (Exists(m) \/ m = Nil \/ ~live)
  /\ m \in DOMAIN server.shells \/ live
  /\ server' = [server EXCEPT !.calls = @ + 1, !.shells = With(@, m, live)]
  /\ UNCHANGED <<route, page, wire>>

WithTerminalStatus(rows) ==
  [i \in DOMAIN rows |->
     IF rows[i].id \in DOMAIN server.shells
     THEN [rows[i] EXCEPT !.terminal = IF server.shells[rows[i].id] THEN "attached" ELSE "offline"]
     ELSE rows[i]]

\* A row for every id of a team, but for those that are nobody's.
RowOf(rows, m) == CHOOSE x \in ToSet(rows) : x.id = m
Expanded(rows, ids) ==
  LET known == Selected(ids, {k \in DOMAIN ids : ids[k] \in RowIds(rows)})
  IN  [k \in DOMAIN known |-> RowOf(rows, known[k])]
ExpandTeams(rows) ==
  [i \in DOMAIN server.teams |->
     [team |-> server.teams[i].team, rows |-> Expanded(rows, server.teams[i].members)]]

Payload ==
  LET rows == WithTerminalStatus(server.members) IN [members |-> rows, teams |-> ExpandTeams(rows)]

ServeRoster(r) ==
  /\ r.stage = "sent"
  /\ Reply(r, AnsweredWith(r, Joined(Payload, [shells |-> server.shells])))
  /\ UNCHANGED <<route, page, server>>

-----------------------------------------------------------------------------
(* What the front end makes of the answer (member-page-model.ts).           *)

IsTeamGroupList(teams) == teams # <<>>

TeamOfRow(x) == IF x.team = Nil THEN DefaultTeam ELSE x.team

\* The groups by the team of the rows, in the order in which the teams come up.
ByTeam(rows) ==
  LET ids == FoldLeft(LAMBDA seen, x : IF TeamOfRow(x) \in ToSet(seen) THEN seen
                                       ELSE Append(seen, TeamOfRow(x)), <<>>, rows)
  IN  [i \in DOMAIN ids |-> [team |-> ids[i], rows |-> SelectSeq(rows, LAMBDA x : TeamOfRow(x) = ids[i])]]

\* Teams that come with their members win, and a row of theirs that names no team
\* is given this one; else the rows are grouped by theirs, and without any they
\* are one team.
Groups(p) ==
  IF IsTeamGroupList(p.teams)
  THEN [i \in DOMAIN p.teams |->
          [p.teams[i] EXCEPT !.rows = [j \in DOMAIN @ |->
             IF @[j].team = Nil THEN [@[j] EXCEPT !.team = p.teams[i].team] ELSE @[j]]]]
  ELSE IF \A x \in ToSet(p.members) : x.team = Nil
  THEN <<[team |-> DefaultTeam, rows |-> p.members]>>
  ELSE ByTeam(p.members)

Rows(p) ==
  IF IsTeamGroupList(p.teams)
  THEN LET groups == Groups(p) IN FlattenSeq([i \in DOMAIN groups |-> groups[i].rows])
  ELSE p.members

\* Mutant: a role that is not known is left as it is, in no row of the chart.
RoleAsGiven(role) == role

NormalizeRole(role) == IF role \in KnownRoles THEN role ELSE "member"

CardStatus(x) ==
  ResolveAgentStatus([runtime |-> Nil, terminal |-> x.terminal, presence |-> "offline",
                      tasks |-> FALSE, ready |-> FALSE])

Cards(rows) ==
  [i \in DOMAIN rows |->
     [id |-> rows[i].id, role |-> NormalizeRole(rows[i].role), status |-> CardStatus(rows[i])]]

RosterMetrics(cards) ==
  [total |-> Len(cards),
   aiAssistants |-> Len(SelectSeq(cards, LAMBDA x : x.role = "assistant")),
   running |-> Len(SelectSeq(cards, LAMBDA x : x.status = "running")),
   offline |-> Len(SelectSeq(cards, LAMBDA x : x.status = "offline"))]

PageModel ==
  [metrics |-> RosterMetrics(Cards(page.rows)),
   teams |-> [i \in DOMAIN page.groups |->
                LET cards == Cards(page.groups[i].rows)
                IN  [team |-> page.groups[i].team, members |-> cards, metrics |-> RosterMetrics(cards)]]]

-----------------------------------------------------------------------------
(* The members page.                                                        *)

\* The figures of the header, of the whole model.
Header(model) ==
  [teams |-> Len(model.teams), agents |-> model.metrics.aiAssistants,
   running |-> model.metrics.running, offline |-> model.metrics.offline]

\* The tabs of the teams.
TeamsShown(model) == {model.teams[i].team : i \in DOMAIN model.teams}

\* A team that is no longer there gives way to the first one, and no team at all
\* to the members.
ActiveTeam(model) ==
  IF model.teams = <<>> THEN Cards(page.rows)
  ELSE LET named == {i \in DOMAIN model.teams : model.teams[i].team = page.team}
       IN  model.teams[IF named # {} THEN Min(named) ELSE 1].members

\* The grid shows the humans and then the agents, the chart one row per role.
Humans(cards) == SelectSeq(cards, LAMBDA x : x.role # "assistant")
Assistants(cards) == SelectSeq(cards, LAMBDA x : x.role = "assistant")
GridShown(cards) == Humans(cards) \o Assistants(cards)
OrgChartShown(cards) ==
  FlattenSeq([i \in 1..4 |->
    SelectSeq(cards, LAMBDA x : x.role = <<"owner", "supervisor", "member", "assistant">>[i])])

Read(unset) == [op |-> "read", stage |-> "sent", unset |-> unset]

\* load, and the read of the terminal page; an answer is shown whatever was asked since.
TeamRosterRead(r, ok) ==
  /\ r.op = "read" /\ Ends(r, ok)
  /\ page' = IF ok THEN [page EXCEPT !.rows = Rows(r), !.groups = Groups(r), !.shells = r.shells,
                           !.team = IF page.kind = "members" /\ r.unset /\ Groups(r) # <<>>
                                    THEN Groups(r)[1].team ELSE @]
                    ELSE page
  /\ wire' = Settled(r)
  /\ UNCHANGED <<route, server>>

\* (Bound: one read is open at a time.)
RefreshRoster ==
  /\ Open = {} /\ Ask(Read(page.kind = "members" /\ page.team = Nil))
  /\ UNCHANGED <<route, page, server>>

\* Another team is loaded as it is selected.
SelectTab(t) ==
  /\ page.kind = "members" /\ Open = {} /\ t # page.team /\ t \in TeamsShown(PageModel)
  /\ page' = [page EXCEPT !.team = t]
  /\ Ask(Read(FALSE))
  /\ UNCHANGED <<route, server>>

\* A card leads to the terminal page, which reads the roster anew.
ClickCard ==
  /\ page.kind = "members" /\ ActiveTeam(PageModel) # <<>>
  /\ Mounting("roster", [page EXCEPT !.kind = "terminal", !.rows = <<>>, !.groups = <<>>, !.team = Nil,
                                     !.shells = <<>>],
              server, SetToBag({FirstRead}))

-----------------------------------------------------------------------------
(* The list of shells of the terminal page.                                 *)

\* The last team that has the member, or the team of its row.
TeamForMember(m) ==
  LET in == {i \in DOMAIN page.groups : m \in RowIds(page.groups[i].rows)}
      row == {x \in ToSet(page.rows) : x.id = m}
  IN  IF in # {} THEN page.groups[Max(in)].team
      ELSE IF row # {} THEN TeamOfRow(CHOOSE x \in row : TRUE) ELSE DefaultTeam

\* A row per shell, whoever it is of, and then one per entry of the roster that has
\* none: a member that the teams list twice has two.
SessionRows ==
  LET of(m, shell) == [member |-> m, team |-> TeamForMember(m), shell |-> shell,
                       live |-> shell /\ page.shells[m]]
      shells == SetToSeq(DOMAIN page.shells)
      rest == SelectSeq(page.rows, LAMBDA x : x.id \notin DOMAIN page.shells)
  IN  [i \in DOMAIN shells |-> of(shells[i], TRUE)] \o [i \in DOMAIN rest |-> of(rest[i].id, FALSE)]

SessionTeamGroups ==
  LET rows == SessionRows
      of(t) == SelectSeq(rows, LAMBDA x : x.team = t)
  IN  {[team |-> t, rows |-> of(t),
        totalSessions |-> Len(SelectSeq(of(t), LAMBDA x : x.shell)),
        activeCount |-> Len(SelectSeq(of(t), LAMBDA x : x.live))] : t \in {x.team : x \in ToSet(rows)}}

TotalSessions == Cardinality(DOMAIN page.shells)
ActiveSessions == Cardinality({m \in DOMAIN page.shells : page.shells[m]})

\* The list with its header.
SessionList == [active |-> ActiveSessions, total |-> TotalSessions, teams |-> SessionTeamGroups]

\* Changes of the roster by any client, of the shells and of the process.
RosterChanges ==
  \/ \E m \in Ids :
       \/ DeleteMember(m)
       \/ \E role \in RosterRoles :
            PutRole(m, role) \/ \E t \in Teams \cup {Nil} : PostMember(m, t, role)
  \/ \E t \in Teams, ids \in SeqOf(Ids, MaxListed) : HandleTeams(t, ids)
  \/ \E m \in Owners, live \in BOOLEAN : ShellOf(m, live)
  \/ RosterRestarts

TeamRosterNext ==
  \/ server.calls < MaxCalls /\ RosterChanges
  \/ \E c \in server.creating : FinishPostMember(c)
  \/ RefreshRoster \/ ClickCard
  \/ \E t \in Teams : SelectTab(t)
  \/ \E r \in Open : ServeRoster(r) \/ \E ok \in BOOLEAN : TeamRosterRead(r, ok)

-----------------------------------------------------------------------------
\* Every member is shown in a team to whoever reads the roster, unless a change of
\* the teams has left it in none: a team that is deleted while a member is being
\* created for it, the deletion of a member and a restart do not hide anyone.
MemberPlaced ==
  route = "roster" =>
    LET groups == Groups(Payload)
    IN  \A m \in RowIds(server.members) \ server.stray :
          \E i \in DOMAIN groups : m \in RowIds(groups[i].rows)

\* The figures in the header of the members page are the sums of those of the teams,
\* in whichever form the teams come.
MetricsAddUp ==
  route = "roster" =>
    LET model == PageModel
        sum(k) == FoldLeft(LAMBDA n, g : n + g.metrics[k], 0, model.teams)
    IN  Header(model) = [teams |-> Len(page.groups), agents |-> sum("aiAssistants"),
                         running |-> sum("running"), offline |-> sum("offline")]

\* How often x is in s.
Times(s, x) == Len(SelectSeq(s, LAMBDA y : y = x))

\* The grid and the chart show the same cards, all of the active team, also of
\* members whose role the program does not know, and as often as the team lists them.
ViewsShowAll ==
  (route = "roster" /\ page.kind = "members") =>
    LET cards == ActiveTeam(PageModel)
    IN  \A shown \in {GridShown(cards), OrgChartShown(cards)} :
          /\ Len(shown) = Len(cards)
          /\ \A x \in ToSet(cards) : Times(shown, x) = Times(cards, x)

\* Every shell has one row in the list, also the shell of a member that was deleted
\* and one that is nobody's; a member without one has as many rows as the teams list
\* it, all in one group; and the groups add up to the figures above them.
ShellsListedOnce ==
  route = "roster" =>
    LET list == SessionList
        rows(g, m) == SelectSeq(g.rows, LAMBDA x : x.member = m)
        with(m) == {g \in list.teams : rows(g, m) # <<>>}
    IN  /\ \A m \in DOMAIN page.shells \cup RowIds(page.rows) :
             \E g \in list.teams :
               /\ with(m) = {g}
               /\ IF m \in DOMAIN page.shells
                  THEN Len(rows(g, m)) = 1 /\ rows(g, m)[1].shell
                  ELSE Len(rows(g, m)) = Len(SelectSeq(page.rows, LAMBDA x : x.id = m))
        /\ MapThenSumSet(LAMBDA g : g.totalSessions, list.teams) = list.total
        /\ MapThenSumSet(LAMBDA g : g.activeCount, list.teams) = list.active
=============================================================================
