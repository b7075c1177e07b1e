----------------------------- MODULE LedgerPage -----------------------------
(***************************************************************************)
(* The audit log (pages/ledger/LedgerPage.tsx): filters, loads that every  *)
(* change of a filter starts, and the automatic refresh.                   *)
(*                                                                         *)
(* server is the log: the members of the events, in the order of their     *)
(* times.  A preset of the time range other than "all" ends at the moment  *)
(* it was chosen: until is the length of the log then.  Its beginning, the *)
(* filters by node and type, which are like the one by member, and the     *)
(* search in what is shown are left out.                                   *)
(***************************************************************************)
EXTENDS WebTab

CONSTANTS LogMembers, LogTeams,
          TeamOf,          \* the team of every member
          MaxLog           \* bound on the length of the log

LedgerState ==
  [ team : LogTeams \cup {Nil}, member : LogMembers \cup {Nil},
    until : 0..MaxLog \cup {Nil},                 \* Nil for the preset "all"
    items : SUBSET (1..MaxLog),
    phase : {"idle", "loading", "error", "success"},     \* loadState
    roster : BOOLEAN,                             \* membersEnvelope is there
    auto : BOOLEAN ]                              \* autoRefresh

LoadLog(p) == [op |-> "log", stage |-> "sent", team |-> p.team, member |-> p.member,
               until |-> p.until]

FirstLog(n) == [team |-> Nil, member |-> Nil, until |-> n, items |-> {},
                phase |-> "loading", roster |-> FALSE, auto |-> FALSE]

\* The preset is 24h at first.
LedgerMounted(s) ==
  Mounting("ledger", FirstLog(Len(s)), s,
           SetToBag({LoadLog(FirstLog(Len(s))), Query("roster")}))

-----------------------------------------------------------------------------
\* The effect on load: whatever it depends on has changed, and it runs at once.
Reloading(p) ==
  /\ Room(1)
  /\ page' = [p EXCEPT !.phase = "loading"]
  /\ Ask(LoadLog(p))
  /\ UNCHANGED <<route, server>>

MemberOptions(t) == {m \in LogMembers : page.roster /\ (t = Nil \/ TeamOf[m] = t)}

SelectLogTeam(t) ==
  /\ page.roster /\ t # page.team
  /\ Reloading([page EXCEPT !.team = t, !.member = Nil])

SelectMember(m) ==
  /\ m \in MemberOptions(page.team) \cup {Nil} /\ m # page.member
  /\ Reloading([page EXCEPT !.member = m])

SelectPreset(until) == until # page.until /\ Reloading([page EXCEPT !.until = until])

\* resetFilters keeps until if the preset is 24h already, which the model does not
\* tell from the others.
ResetFilters(until) ==
  /\ page.team # Nil \/ page.member # Nil \/ page.until # until
  /\ until # Nil
  /\ Reloading([page EXCEPT !.team = Nil, !.member = Nil, !.until = until])

\* Refresh, Retry, and the interval of ten seconds.
Refresh == Reloading(page)
AutoRefresh == page.auto /\ Reloading(page)
ToggleAuto ==
  /\ page' = [page EXCEPT !.auto = ~@]
  /\ UNCHANGED <<route, server, wire>>

-----------------------------------------------------------------------------
LogLoaded(r, ok) ==
  /\ r.op = "log" /\ Ends(r, ok)
  /\ page' = IF ok THEN [page EXCEPT !.items = r.items, !.phase = "success"]
                   ELSE [page EXCEPT !.phase = "error"]
  /\ wire' = Settled(r)
  /\ UNCHANGED <<route, server>>

LogRosterLoaded(r, ok) ==
  /\ r.op = "roster" /\ Ends(r, ok)
  /\ page' = [page EXCEPT !.roster = ok]
  /\ wire' = Settled(r)
  /\ UNCHANGED <<route, server>>

MatchingEvents(r) ==
  {i \in DOMAIN server : /\ r.team = Nil \/ TeamOf[server[i]] = r.team
                         /\ r.member = Nil \/ server[i] = r.member
                         /\ r.until = Nil \/ i <= r.until}

ServeLog(r) ==
  /\ r.stage = "sent"
  /\ Reply(r, IF r.op = "log" THEN AnsweredWith(r, [items |-> MatchingEvents(r)]) ELSE Answered(r))
  /\ UNCHANGED <<route, page, server>>

EventHappens(m) ==
  /\ Len(server) < MaxLog
  /\ server' = Append(server, m)
  /\ UNCHANGED <<route, page, wire>>

LedgerNext ==
  \/ \E t \in LogTeams \cup {Nil} : SelectLogTeam(t)
  \/ \E m \in LogMembers \cup {Nil} : SelectMember(m)
  \/ \E u \in {Len(server), Nil} : SelectPreset(u)
  \/ \E u \in {Len(server), page.until} : ResetFilters(u)
  \/ \E m \in LogMembers : EventHappens(m)
  \/ Refresh \/ AutoRefresh \/ ToggleAuto
  \/ \E r \in Open : \/ ServeLog(r)
                     \/ \E ok \in BOOLEAN : LogLoaded(r, ok) \/ LogRosterLoaded(r, ok)

-----------------------------------------------------------------------------
\* The page says "loading" only while a load is open.
LedgerBusyMeansWaiting == page.phase = "loading" => Pending("log") # {}

\* The filters never ask for a member of one team in another, which would show
\* an empty log: a team is chosen while a member is, and the members may arrive
\* in between.
MemberOfTeam ==
  route = "ledger" /\ page.team # Nil /\ page.member # Nil =>
    TeamOf[page.member] = page.team
=============================================================================
