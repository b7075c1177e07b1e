----------------------------- MODULE SystemPage -----------------------------
(***************************************************************************)
(* The system page (pages/system/SystemPage.tsx): the accounts, which only *)
(* an owner sees, and the memory store by scope.  The health probe and the *)
(* figures of the nodes are left out, and so are the values of entries.    *)
(*                                                                         *)
(* server.accounts maps the members with an account to their roles, and    *)
(* server.memory the scopes to the keys they have.                         *)
(***************************************************************************)
EXTENDS WebTab

CONSTANTS Users, Roles, Scopes, FirstScope, Keys

AccountsKept == UNION {[S -> Roles] : S \in SUBSET Users}

SystemState ==
  [ owner : BOOLEAN,                                  \* canManageUsers
    users : AccountsKept, userBusy : BOOLEAN, newUser : Users \cup {Nil},
    scope : Scopes,                                   \* memoryScope
    entries : SUBSET (Scopes \X Keys),                \* memoryEntries
    loading : BOOLEAN, saving : BOOLEAN, newKey : Keys \cup {Nil} ]

\* handler is refresh, or what the load is the end of: user, put or delete.
LoadUsers(handler) == [op |-> "users", stage |-> "sent", handler |-> handler]
LoadMemory(s, handler) == [op |-> "memory", stage |-> "sent", scope |-> s, handler |-> handler]
ChangeUser(op, u, role) == [op |-> op, stage |-> "sent", user |-> u, role |-> role]
ChangeEntry(op, s, k) == [op |-> op, stage |-> "sent", scope |-> s, key |-> k]

SystemMounted(owner, accounts) ==
  Mounting("system",
           [owner |-> owner, users |-> <<>>, userBusy |-> FALSE, newUser |-> Nil,
            scope |-> FirstScope, entries |-> {}, loading |-> TRUE, saving |-> FALSE,
            newKey |-> Nil],
           [accounts |-> accounts, memory |-> [s \in Scopes |-> {}]],
           SetToBag({LoadMemory(FirstScope, "refresh")}
                      \cup IF owner THEN {LoadUsers("refresh")} ELSE {}))

Handles(p, r) ==
  /\ Room(1) /\ Ask(r)
  /\ page' = p
  /\ UNCHANGED <<route, server>>

-----------------------------------------------------------------------------
(* Accounts.                                                                    *)

RefreshUsers == page.owner /\ Handles(page, LoadUsers("refresh"))

TypeUser(u) ==
  /\ page.owner
  /\ page' = [page EXCEPT !.newUser = u]
  /\ UNCHANGED <<route, server, wire>>

CreateUser(role) ==
  /\ page.owner /\ ~page.userBusy /\ page.newUser # Nil
  /\ Handles([page EXCEPT !.userBusy = TRUE], ChangeUser("createUser", page.newUser, role))

\* Mutant: the selects of the roles are not disabled.
UpdateAnyUser(u, role) ==
  /\ page.owner /\ u \in DOMAIN page.users
  /\ Handles([page EXCEPT !.userBusy = TRUE], ChangeUser("updateUser", u, role))

\* The select of the role; the reset of the password sends the role that is.
UpdateUser(u, role) ==
  /\ page.owner /\ ~page.userBusy /\ u \in DOMAIN page.users
  /\ Handles([page EXCEPT !.userBusy = TRUE], ChangeUser("updateUser", u, role))

\* The account is there: the form is emptied and the accounts are loaded.
UserChanged(r, ok) ==
  /\ r.op \in {"createUser", "updateUser"} /\ Ends(r, ok)
  /\ IF ok
     THEN /\ page' = [page EXCEPT !.newUser = IF r.op = "createUser" THEN Nil ELSE @]
          /\ wire' = BagAdd(Settled(r), LoadUsers("user"))
     ELSE page' = [page EXCEPT !.userBusy = FALSE] /\ wire' = Settled(r)
  /\ UNCHANGED <<route, server>>

\* loadUsers swallows its errors, so its handler goes on.
UsersLoaded(r, ok) ==
  /\ r.op = "users" /\ Ends(r, ok)
  /\ page' = [page EXCEPT !.users = IF ok THEN r.accounts ELSE <<>>,
                          !.userBusy = @ /\ r.handler = "refresh"]
  /\ wire' = Settled(r)
  /\ UNCHANGED <<route, server>>

-----------------------------------------------------------------------------
(* Memory.                                                                  *)

\* loadMemory with the scope of the render its handler was made in.
RefreshMemory == ~page.loading /\ Handles([page EXCEPT !.loading = TRUE], LoadMemory(page.scope, "refresh"))

SelectScope(s) ==
  /\ s # page.scope
  /\ Handles([page EXCEPT !.scope = s, !.loading = TRUE], LoadMemory(s, "refresh"))

TypeKey(k) ==
  /\ page' = [page EXCEPT !.newKey = k]
  /\ UNCHANGED <<route, server, wire>>

\* The button is disabled while saving, the enter key in the value is not.
PutEntry ==
  /\ page.newKey # Nil
  /\ Handles([page EXCEPT !.saving = TRUE], ChangeEntry("put", page.scope, page.newKey))

\* The key of a row that is shown, in the scope that is selected by now.
DeleteEntry(e) ==
  /\ ~page.loading /\ e \in page.entries
  /\ Handles(page, ChangeEntry("delete", page.scope, e[2]))

EntryChanged(r, ok) ==
  /\ r.op \in {"put", "delete"} /\ Ends(r, ok)
  /\ IF ok
     THEN /\ page' = [page EXCEPT !.newKey = IF r.op = "put" THEN Nil ELSE @, !.loading = TRUE]
          /\ wire' = BagAdd(Settled(r), LoadMemory(r.scope, r.op))
     ELSE /\ page' = [page EXCEPT !.saving = @ /\ r.op # "put"]
          /\ wire' = Settled(r)
  /\ UNCHANGED <<route, server>>

\* Mutant: a load that fails leaves the spinner.
MemoryLoadedOrStuck(r, ok) ==
  /\ r.op = "memory" /\ Ends(r, ok)
  /\ page' = [page EXCEPT !.entries = IF ok THEN r.entries ELSE {}, !.loading = @ /\ ~ok,
                          !.saving = @ /\ r.handler # "put"]
  /\ wire' = Settled(r)
  /\ UNCHANGED <<route, server>>

MemoryLoaded(r, ok) ==
  /\ r.op = "memory" /\ Ends(r, ok)
  /\ page' = [page EXCEPT !.entries = IF ok THEN r.entries ELSE {}, !.loading = FALSE,
                          !.saving = @ /\ r.handler # "put"]
  /\ wire' = Settled(r)
  /\ UNCHANGED <<route, server>>

-----------------------------------------------------------------------------
\* account.Service.Create refuses a member that has an account, Update one that
\* has none.
Takes(r) == (r.op = "createUser") # (r.user \in DOMAIN server.accounts)

ServeSystem(r) ==
  /\ r.stage = "sent"
  /\ CASE r.op = "users" ->
            Reply(r, AnsweredWith(r, [accounts |-> server.accounts])) /\ UNCHANGED server
       [] r.op \in {"createUser", "updateUser"} ->
            /\ Takes(r)
            /\ server' = [server EXCEPT !.accounts = With(@, r.user, r.role)]
            /\ Reply(r, Answered(r))
       [] r.op = "memory" ->
            /\ Reply(r, AnsweredWith(r, [entries |-> {r.scope} \X server.memory[r.scope]]))
            /\ UNCHANGED server
       [] r.op = "put" ->
            /\ server' = [server EXCEPT !.memory[r.scope] = @ \cup {r.key}]
            /\ Reply(r, Answered(r))
       [] r.op = "delete" ->
            /\ r.key \in server.memory[r.scope]
            /\ server' = [server EXCEPT !.memory[r.scope] = @ \ {r.key}]
            /\ Reply(r, Answered(r))
  /\ UNCHANGED <<route, page>>

\* The sweep of expired entries.
EntryExpires(s, k) ==
  /\ k \in server.memory[s]
  /\ server' = [server EXCEPT !.memory[s] = @ \ {k}]
  /\ UNCHANGED <<route, page, wire>>

SystemNext ==
  \/ RefreshUsers \/ RefreshMemory \/ PutEntry
  \/ \E u \in Users : TypeUser(u) \/ \E role \in Roles : UpdateUser(u, role)
  \/ \E role \in Roles : CreateUser(role)
  \/ \E s \in Scopes : SelectScope(s) \/ \E k \in Keys : EntryExpires(s, k)
  \/ \E k \in Keys : TypeKey(k)
  \/ \E e \in page.entries : DeleteEntry(e)
  \/ \E r \in Open : \/ ServeSystem(r)
                     \/ \E ok \in BOOLEAN : \/ UserChanged(r, ok) \/ UsersLoaded(r, ok)
                                            \/ EntryChanged(r, ok) \/ MemoryLoaded(r, ok)

-----------------------------------------------------------------------------
UserChain ==
  Pending("createUser") \cup Pending("updateUser") \cup {r \in Pending("users") : r.handler = "user"}

\* The disabled forms and the spinner never wait for nothing, although any load
\* ends the spinner of every other and an entry may be put twice.
SystemBusyMeansWaiting ==
  /\ page.userBusy => UserChain # {}
  /\ page.loading => Pending("memory") # {}
  /\ page.saving => \E r \in Open : r.op = "put" \/ (r.op = "memory" /\ r.handler = "put")

\* No two changes of accounts are under way at once.
SystemNoDoubleSubmit == OneAtMost(UserChain)
=============================================================================
