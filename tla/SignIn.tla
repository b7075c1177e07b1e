------------------------------- MODULE SignIn -------------------------------
(***************************************************************************)
(* The session of a tab and the frame around its pages: AuthProvider,      *)
(* LoginPage and auth-store (auth), the guard that keeps a role from the   *)
(* pages it may not open (app/layouts/AppShell.tsx, routes/index.tsx) and  *)
(* the poll of the cluster.  The session is kept in localStorage, so that  *)
(* a reload of the tab finds it.                                           *)
(***************************************************************************)
EXTENDS WebTab

CONSTANTS Accounts,
          SessionRoles,   \* the roles that accounts have (bound)
          Paths           \* the pages that are opened (bound)

AppRoles == {"owner", "supervisor", "assistant", "member"}

\* The pages and who may open them; one that names no roles is open to all.
AppRoutes ==
  LET staff == {"owner", "supervisor", "assistant"}
      leads == {"owner", "supervisor"}
  IN [ dashboard |-> AppRoles, ledger |-> staff, runs |-> staff,
       chat |-> AppRoles, members |-> AppRoles, skills |-> staff,
       taskmap |-> staff, roadmap |-> staff, terminal |-> AppRoles,
       nodes |-> staff, approvals |-> leads, workspaces |-> leads,
       repositories |-> leads, namespaces |-> AppRoles, artifacts |-> leads,
       system |-> leads, settings |-> AppRoles, plugins |-> leads,
       account |-> AppRoles ]

ASSUME SignInAssumption ==
  /\ SessionRoles \subseteq AppRoles /\ Nil \notin Accounts \X SessionRoles
  /\ Paths \subseteq DOMAIN AppRoutes /\ "dashboard" \in Paths

\* server has the role of each account, or Nil while it may not sign in.
Identity == Accounts \X SessionRoles

SignInState ==
  [ status : {"loading", "out", "in"}, session : Identity \cup {Nil},
    stored : Identity \cup {Nil},            \* ok_auth_session of localStorage
    path : Paths, account : Accounts, signing : BOOLEAN, refused : BOOLEAN,
    cluster : BOOLEAN ]

FetchMe(who) == [op |-> "me", stage |-> "sent", account |-> who[1]]
Login(a) == [op |-> "login", stage |-> "sent", account |-> a]

\* AuthProvider mounts with what the tab finds in localStorage, and asks the
\* server about it; the first account is what the form is filled with.
Restoring(p) ==
  [p EXCEPT !.status = IF p.stored = Nil THEN "out" ELSE "loading", !.session = Nil,
            !.signing = FALSE, !.refused = FALSE, !.cluster = FALSE]

SignInMounted(s, a) ==
  Mounting("signin",
           Restoring([status |-> "loading", session |-> Nil, stored |-> Nil, path |-> "dashboard",
                      account |-> a, signing |-> FALSE, refused |-> FALSE, cluster |-> FALSE]),
           s, EmptyBag)

-----------------------------------------------------------------------------
Becomes(p) == page' = p /\ UNCHANGED <<route, server, wire>>

\* The tab is loaded again: what it had open is gone with it.
ReloadTab ==
  /\ page' = Restoring(page)
  /\ wire' = IF page.stored = Nil THEN EmptyBag ELSE SetToBag({FetchMe(page.stored)})
  /\ UNCHANGED <<route, server>>

TypeAccount(a) ==
  page.status = "out" /\ ~page.signing /\ page.account # a /\ Becomes([page EXCEPT !.account = a])

SubmitLogin ==
  /\ page.status = "out" /\ ~page.signing /\ Room(1)
  /\ page' = [page EXCEPT !.signing = TRUE, !.refused = FALSE]
  /\ Ask(Login(page.account))
  /\ UNCHANGED <<route, server>>

\* What the frame has open is answered to nobody.
Logout ==
  /\ page.status = "in"
  /\ page' = [page EXCEPT !.status = "out", !.session = Nil, !.stored = Nil, !.cluster = FALSE]
  /\ wire' = EmptyBag
  /\ UNCHANGED <<route, server>>

\* Any failure of fetchMe, of the network too, ends the session.
MeAnswered(r, ok) ==
  /\ r.op = "me" /\ Ends(r, ok)
  /\ page' = IF ok
             THEN [page EXCEPT !.status = "in", !.session = <<r.account, r.role>>,
                               !.stored = <<r.account, r.role>>]
             ELSE [page EXCEPT !.status = "out", !.stored = Nil]
  /\ wire' = Settled(r)
  /\ UNCHANGED <<route, server>>

LoginAnswered(r, ok) ==
  /\ r.op = "login" /\ Ends(r, ok)
  /\ page' = IF ok
             THEN [page EXCEPT !.status = "in", !.session = <<r.account, r.role>>,
                               !.stored = <<r.account, r.role>>, !.signing = FALSE]
             ELSE [page EXCEPT !.signing = FALSE, !.refused = TRUE]
  /\ wire' = Settled(r)
  /\ UNCHANGED <<route, server>>

-----------------------------------------------------------------------------
CanAccessRoute(role, p) == role \in AppRoutes[p]

\* The first of appRoutes is open to every role.
FirstRouteForRole(role) == "dashboard"

\* The navigation, the command palette and the menu offer what the role may open.
NavigateTo(p) ==
  /\ page.status = "in" /\ p # page.path /\ CanAccessRoute(page.session[2], p)
  /\ Becomes([page EXCEPT !.path = p])

\* The address bar and the history take any path.
TypePath(p) == p # page.path /\ Becomes([page EXCEPT !.path = p])

\* The effect of the frame, after the page has been shown.
RedirectByRole ==
  /\ page.status = "in" /\ ~CanAccessRoute(page.session[2], page.path)
  /\ Becomes([page EXCEPT !.path = FirstRouteForRole(page.session[2])])

\* At once, and every 15 seconds.
RefreshCluster ==
  /\ page.status = "in" /\ Room(1)
  /\ Ask(Query("cluster"))
  /\ UNCHANGED <<route, page, server>>

ClusterRead(r, ok) ==
  /\ r.op = "cluster" /\ Ends(r, ok)
  /\ page' = [page EXCEPT !.cluster = ok]
  /\ wire' = Settled(r)
  /\ UNCHANGED <<route, server>>

-----------------------------------------------------------------------------
ServeSignIn(r) ==
  /\ r.stage = "sent"
  /\ \/ /\ r.op \in {"me", "login"} /\ server[r.account] # Nil
        /\ Reply(r, AnsweredWith(r, [role |-> server[r.account]]))
     \/ r.op = "cluster" /\ Reply(r, Answered(r))
  /\ UNCHANGED <<route, page, server>>

RoleChanges(a) ==
  /\ server' \in {[server EXCEPT ![a] = x] : x \in (SessionRoles \cup {Nil}) \ {server[a]}}
  /\ UNCHANGED <<route, page, wire>>

SignInNext ==
  \/ ReloadTab \/ SubmitLogin \/ Logout \/ RedirectByRole \/ RefreshCluster
  \/ \E a \in Accounts : TypeAccount(a) \/ RoleChanges(a)
  \/ \E p \in Paths : NavigateTo(p) \/ TypePath(p)
  \/ \E r \in Open : \/ ServeSignIn(r)
                     \/ \E ok \in BOOLEAN : MeAnswered(r, ok) \/ LoginAnswered(r, ok) \/ ClusterRead(r, ok)

-----------------------------------------------------------------------------
\* The form is disabled and the session is being restored only while the call
\* is open that will end it.
SignInBusyMeansWaiting ==
  /\ page.signing => Pending("login") # {}
  /\ page.status = "loading" => Pending("me") # {}

\* Whichever way a tab was signed in or out, reloaded or refused, localStorage
\* has the session that the tab shows, with the role it shows, so that the next
\* load restores that one and no other (auth/AuthProvider.tsx:43, 52, 57).
SessionStored ==
  route = "signin" =>
    /\ page.status = "in" => page.session # Nil /\ page.stored = page.session
    /\ page.status = "out" => page.session = Nil /\ page.stored = Nil
=============================================================================
