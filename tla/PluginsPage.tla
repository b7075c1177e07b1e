---------------------------- MODULE PluginsPage ----------------------------
(***************************************************************************)
(* The plugin marketplace (pages/plugins/PluginsPage.tsx) over the service *)
(* of internal/plugin.  A row of the catalogue carries installed but never *)
(* disabled; a row of the installed plugins carries both.  The page shows  *)
(* the row of the catalogue where there is one, as there always is.        *)
(* Search, categories and the view are filters of what is shown.           *)
(***************************************************************************)
EXTENDS WebTab

CONSTANT Plugins     \* the catalogue

\* server maps the installed plugins to whether they are disabled.
Installed == UNION {[S -> BOOLEAN] : S \in SUBSET Plugins}

PluginsState ==
  [ available : [Plugins -> BOOLEAN] \cup {Nil},      \* whether disabled is set
    installed : Installed, loading : BOOLEAN ]

\* Both lists are asked for at once: what of them was read so far.
LoadPlugins == [op |-> "lists", stage |-> "sent", available |-> Nil, installed |-> Nil]
ChangePlugin(op, p) == [op |-> op, stage |-> "sent", plugin |-> p]

PluginsMounted(s) ==
  Mounting("plugins", [available |-> Nil, installed |-> <<>>, loading |-> TRUE], s,
           SetToBag({LoadPlugins}))

-----------------------------------------------------------------------------
CardShown(p) == ~page.loading /\ (page.available # Nil \/ p \in DOMAIN page.installed)
IsInstalled(p) == p \in DOMAIN page.installed
ShownDisabled(p) == IF page.available # Nil THEN page.available[p] ELSE page.installed[p]

\* Install, or else the toggle and Uninstall; none is disabled while another call
\* is under way.
Offered(op, p) ==
  /\ CardShown(p)
  /\ CASE op = "install" -> ~IsInstalled(p)
       [] op = "remove"  -> IsInstalled(p)
       [] op = "enable"  -> IsInstalled(p) /\ ShownDisabled(p)
       [] op = "disable" -> IsInstalled(p) /\ ~ShownDisabled(p)

Click(op, p) ==
  /\ Offered(op, p) /\ Room(1)
  /\ Ask(ChangePlugin(op, p))
  /\ UNCHANGED <<route, page, server>>

\* The handler starts a refresh and does not wait for it.
PluginChanged(r, ok) ==
  /\ r.op \in {"install", "remove", "enable", "disable"} /\ Ends(r, ok)
  /\ IF ok
     THEN wire' = BagAdd(Settled(r), LoadPlugins) /\ page' = [page EXCEPT !.loading = TRUE]
     ELSE wire' = Settled(r) /\ UNCHANGED page
  /\ UNCHANGED <<route, server>>

\* Mutant: a refresh that fails returns before its finally.
PluginsLoadedOrStuck(r, ok) ==
  /\ r.op = "lists" /\ Ends(r, ok)
  /\ page' = IF ok THEN [available |-> r.available, installed |-> r.installed, loading |-> FALSE]
                   ELSE page
  /\ wire' = Settled(r)
  /\ UNCHANGED <<route, server>>

PluginsLoaded(r, ok) ==
  /\ r.op = "lists" /\ Ends(r, ok)
  /\ page' = IF ok THEN [available |-> r.available, installed |-> r.installed, loading |-> FALSE]
                   ELSE [page EXCEPT !.loading = FALSE]
  /\ wire' = Settled(r)
  /\ UNCHANGED <<route, server>>

-----------------------------------------------------------------------------
\* ListAvailable copies the rows of the catalogue, in which nothing is disabled.
ListAvailable == [p \in Plugins |-> FALSE]
ListInstalled == server

BothRead(r) == [r EXCEPT !.stage = IF r.available # Nil /\ r.installed # Nil THEN "ok" ELSE @]

ServePlugins(r) ==
  /\ r.stage = "sent"
  /\ \/ /\ r.op = "lists"
        /\ \/ r.available = Nil /\ Reply(r, BothRead([r EXCEPT !.available = ListAvailable]))
           \/ r.installed = Nil /\ Reply(r, BothRead([r EXCEPT !.installed = ListInstalled]))
        /\ UNCHANGED server
     \/ /\ r.op = "install" /\ r.plugin \notin DOMAIN server
        /\ server' = With(server, r.plugin, FALSE)
        /\ Reply(r, Answered(r))
     \/ /\ r.op = "remove" /\ r.plugin \in DOMAIN server
        /\ server' = Restrict(server, DOMAIN server \ {r.plugin})
        /\ Reply(r, Answered(r))
     \/ /\ r.op \in {"enable", "disable"} /\ r.plugin \in DOMAIN server
        /\ server' = [server EXCEPT ![r.plugin] = r.op = "disable"]
        /\ Reply(r, Answered(r))
  /\ UNCHANGED <<route, page>>

PluginsNext ==
  \/ \E p \in Plugins, op \in {"install", "remove", "enable", "disable"} : Click(op, p)
  \/ \E r \in Open : \/ ServePlugins(r)
                     \/ \E ok \in BOOLEAN : PluginChanged(r, ok) \/ PluginsLoaded(r, ok)

-----------------------------------------------------------------------------
\* The spinner stands for a refresh, although refreshes overlap.
PluginsBusyMeansWaiting == page.loading => Pending("lists") # {}
=============================================================================
