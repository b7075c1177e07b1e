-------------------------- MODULE TerminalSessions --------------------------
(***************************************************************************)
(* The shells of the terminal page (pages/terminal/TerminalPage.tsx): the  *)
(* list beside the terminal, the dialog that launches a shell for a        *)
(* member, Stop, and the input that is followed by a refresh.  What the    *)
(* attached terminal shows is modelled in TerminalPanel; here attaching is *)
(* one call.  The service is the registry of internal/session.             *)
(***************************************************************************)
EXTENDS WebTab

CONSTANTS Members, MaxSessions

\* server is the sequence of the sessions that were created, each with its member
\* and whether it is live; one that has exited is frozen and stays in the registry.
ShellIds == 1..MaxSessions

SessionsState ==
  [ roster : BOOLEAN,                                    \* the roster was read
    sessions : SUBSET ShellIds,                           \* those that are listed
    refreshing : BOOLEAN, closing : BOOLEAN, closingId : ShellIds \cup {Nil},
    modal : BOOLEAN, member : Members \cup {Nil},        \* newSessionData
    attached : ShellIds \cup {Nil}, timer : ShellIds \cup {Nil} ]  \* inputResyncTimer

\* What goes on after the refresh: the finally of a closing, or attaching to a shell.
ListShells(closes, next) == [op |-> "list", stage |-> "sent", closes |-> closes, next |-> next]
ForShell(op, id) == [op |-> op, stage |-> "sent", id |-> id]
ForMember(op, m) == [op |-> op, stage |-> "sent", member |-> m]

SessionsMounted(s) ==
  Mounting("sessions",
           [roster |-> FALSE, sessions |-> {}, refreshing |-> TRUE, closing |-> FALSE,
            closingId |-> Nil, modal |-> FALSE, member |-> Nil, attached |-> Nil, timer |-> Nil],
           s, SetToBag({Query("roster"), ListShells(FALSE, Nil)}))

-----------------------------------------------------------------------------
Turns(p) == page' = p /\ UNCHANGED <<route, server, wire>>

\* refreshSessions
RefreshShells ==
  /\ ~page.modal /\ ~page.refreshing /\ Room(1)
  /\ page' = [page EXCEPT !.refreshing = TRUE]
  /\ Ask(ListShells(FALSE, Nil))
  /\ UNCHANGED <<route, server>>

\* The row of a session, as selectSession attaches to it.
ClickShell(id) ==
  /\ ~page.modal /\ id \in page.sessions /\ Room(1)
  /\ Ask(ForShell("attach", id))
  /\ UNCHANGED <<route, page, server>>

\* A hash of the address that names a session.
OpenHash(id) ==
  /\ id \in DOMAIN server /\ Room(1)
  /\ Ask(ForShell("attach", id))
  /\ UNCHANGED <<route, page, server>>

\* Stop of a row is disabled for the session that the cell names; Terminate Shell
\* of the toolbar for as long as any is being closed.
StopOffered(id) ==
  ~page.modal /\ \/ id \in page.sessions /\ page.closingId # id
                 \/ id = page.attached /\ ~page.closing

CloseShell(id) ==
  /\ StopOffered(id) /\ Room(1)
  /\ page' = [page EXCEPT !.closing = TRUE, !.closingId = id]
  /\ Ask(ForShell("close", id))
  /\ UNCHANGED <<route, server>>

SendLine ==
  /\ ~page.modal /\ page.attached # Nil /\ Room(1)
  /\ Ask(ForShell("input", page.attached))
  /\ UNCHANGED <<route, page, server>>

NewSession == ~page.modal /\ Turns([page EXCEPT !.modal = TRUE])
CancelSession == page.modal /\ Turns([page EXCEPT !.modal = FALSE])
PickMember(m) == page.modal /\ page.roster /\ page.member # m /\ Turns([page EXCEPT !.member = m])

\* The button needs a member and nothing else, and the dialog stays open until
\* the session is there.
CreateShell ==
  /\ page.modal /\ page.member # Nil /\ Room(1)
  /\ Ask(ForMember("resolve", page.member))
  /\ UNCHANGED <<route, page, server>>

-----------------------------------------------------------------------------
RosterRead(r, ok) ==
  /\ r.op = "roster" /\ Ends(r, ok)
  /\ page' = IF ok THEN [page EXCEPT !.roster = TRUE] ELSE page
  /\ wire' = Settled(r)
  /\ UNCHANGED <<route, server>>

\* mapTerminalSession keeps every session that there is, exited ones included.
MappedSessions(all) == DOMAIN all

\* A failure clears the list; the handler that waited for it goes on either way.
ShellsListed(r, ok) ==
  /\ r.op = "list" /\ Ends(r, ok)
  /\ LET p == [page EXCEPT !.sessions = IF ok THEN r.sessions ELSE {},
                           !.refreshing = FALSE]
     IN  page' = IF r.closes THEN [p EXCEPT !.closing = FALSE, !.closingId = Nil] ELSE p
  /\ wire' = IF r.next # Nil THEN BagAdd(Settled(r), ForShell("attach", r.next)) ELSE Settled(r)
  /\ UNCHANGED <<route, server>>

ShellClosed(r, ok) ==
  /\ r.op = "close" /\ Ends(r, ok)
  /\ IF ok THEN /\ page' = [page EXCEPT !.refreshing = TRUE]
                /\ wire' = BagAdd(Settled(r), ListShells(TRUE, Nil))
           ELSE /\ page' = [page EXCEPT !.closing = FALSE, !.closingId = Nil]
                /\ wire' = Settled(r)
  /\ UNCHANGED <<route, server>>

\* resolveOrCreateMemberSession: the session that was found, or another call that
\* creates one.
MemberResolved(r, ok) ==
  /\ r.op = "resolve" /\ Ends(r, ok)
  /\ IF ok /\ r.found = Nil
     THEN wire' = BagAdd(Settled(r), ForMember("create", r.member)) /\ UNCHANGED page
     ELSE IF ok
     THEN /\ page' = [page EXCEPT !.modal = FALSE, !.member = Nil, !.refreshing = TRUE]
          /\ wire' = BagAdd(Settled(r), ListShells(FALSE, r.found))
     ELSE wire' = Settled(r) /\ UNCHANGED page
  /\ UNCHANGED <<route, server>>

ShellCreated(r, ok) ==
  /\ r.op = "create" /\ Ends(r, ok)
  /\ IF ok
     THEN /\ page' = [page EXCEPT !.modal = FALSE, !.member = Nil, !.refreshing = TRUE]
          /\ wire' = BagAdd(Settled(r), ListShells(FALSE, r.made))
     ELSE wire' = Settled(r) /\ UNCHANGED page
  /\ UNCHANGED <<route, server>>

ShellAttached(r, ok) ==
  /\ r.op = "attach" /\ Ends(r, ok)
  /\ page' = IF ok THEN [page EXCEPT !.attached = r.id] ELSE page
  /\ wire' = Settled(r)
  /\ UNCHANGED <<route, server>>

\* A line that was sent sets the timer anew.
LineSent(r, ok) ==
  /\ r.op = "input" /\ Ends(r, ok)
  /\ page' = IF ok THEN [page EXCEPT !.timer = r.id] ELSE page
  /\ wire' = Settled(r)
  /\ UNCHANGED <<route, server>>

ResyncTimer ==
  /\ page.timer # Nil /\ Room(2)
  /\ page' = [page EXCEPT !.timer = Nil, !.refreshing = TRUE]
  /\ wire' = BagAdd(BagAdd(wire, ListShells(FALSE, Nil)), ForShell("attach", page.timer))
  /\ UNCHANGED <<route, server>>

-----------------------------------------------------------------------------
\* memberSessions names the session that was added last for a member; one that
\* has exited is not resolved.
Registered(m) ==
  LET of == {i \in DOMAIN server : server[i].member = m}
  IN  IF of = {} \/ ~server[Max(of)].live THEN Nil ELSE Max(of)

ServeSessions(r) ==
  /\ r.stage = "sent"
  /\ \/ r.op = "roster" /\ Reply(r, Answered(r)) /\ UNCHANGED server
     \/ /\ r.op = "list" /\ UNCHANGED server
        /\ Reply(r, AnsweredWith(r, [sessions |-> MappedSessions(server)]))
     \/ r.op = "resolve" /\ Reply(r, AnsweredWith(r, [found |-> Registered(r.member)])) /\ UNCHANGED server
     \/ /\ r.op = "create" /\ Len(server) < MaxSessions
        /\ server' = Append(server, [member |-> r.member, live |-> TRUE])
        /\ Reply(r, AnsweredWith(r, [made |-> Len(server) + 1]))
     \/ r.op = "attach" /\ Reply(r, Answered(r)) /\ UNCHANGED server
     \/ r.op = "input" /\ server[r.id].live /\ Reply(r, Answered(r)) /\ UNCHANGED server
     \/ /\ r.op = "close"
        /\ server' = [server EXCEPT ![r.id].live = FALSE]
        /\ Reply(r, Answered(r))
  /\ UNCHANGED <<route, page>>

\* The process of a session exits by itself.
ShellExits(id) ==
  /\ id \in DOMAIN server /\ server[id].live
  /\ server' = [server EXCEPT ![id].live = FALSE]
  /\ UNCHANGED <<route, page, wire>>

SessionsNext ==
  \/ RefreshShells \/ SendLine \/ NewSession \/ CancelSession \/ CreateShell \/ ResyncTimer
  \/ \E id \in ShellIds : ClickShell(id) \/ OpenHash(id) \/ CloseShell(id) \/ ShellExits(id)
  \/ \E m \in Members : PickMember(m)
  \/ \E r \in Open : \/ ServeSessions(r)
                     \/ \E ok \in BOOLEAN : \/ RosterRead(r, ok) \/ ShellsListed(r, ok) \/ ShellClosed(r, ok)
                                            \/ MemberResolved(r, ok) \/ ShellCreated(r, ok)
                                            \/ ShellAttached(r, ok) \/ LineSent(r, ok)

-----------------------------------------------------------------------------
\* "Stopping" and "Refreshing" stand for a call that is open, although closings
\* and refreshes overlap and share their cells.
SessionsBusyMeansWaiting ==
  /\ page.refreshing => Pending("list") # {}
  /\ page.closing => \E r \in Open : r.op = "close" \/ (r.op = "list" /\ r.closes)
=============================================================================
