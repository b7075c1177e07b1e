--------------------------- MODULE NamespacesPage ---------------------------
(***************************************************************************)
(* Namespaces (pages/namespaces/NamespacesPage.tsx): the list under its    *)
(* filter, the dialog that creates, the drawer with the detail and its     *)
(* form, archive and restore.  The store and the service are not in the    *)
(* repository, so their calls are modelled from the way the page uses      *)
(* them: a mutation reads the list again before its promise resolves, and  *)
(* a refused archive or restore is told from other failures (conflict).    *)
(* Names and descriptions are left out, and the search with them.          *)
(***************************************************************************)
EXTENDS WebTab

CONSTANTS Namespaces,
          NamespaceFilters      \* bound on the filters that are selected

Statuses == {"active", "archived"}

ASSUME NamespaceFiltersAssumption ==
  NamespaceFilters \subseteq Statuses \cup {"all"} /\ "all" \in NamespaceFilters

ASSUME NamespacesAssumption == Nil \notin {"archive", "restore"} \X {"page", "drawer"}

Registry == UNION {[S -> Statuses] : S \in SUBSET Namespaces}

NamespacesState ==
  [ rows : Registry, loading : BOOLEAN, filter : NamespaceFilters,
    create : {"closed", "open", "busy"},             \* the dialog and its submitting
    drawer : Namespaces \cup {Nil},                  \* detailTargetId and drawerOpen
    detail : (Namespaces \X Statuses) \cup {Nil},    \* store.selectedNamespace
    reading : BOOLEAN, failed : BOOLEAN,             \* store.detailLoadState, detailErrorMessage
    editing : BOOLEAN, saving : BOOLEAN, restoring : BOOLEAN,
    archive : Namespaces \cup {Nil},                 \* archiveTarget
    acting : Namespaces \cup {Nil} ]                 \* actionNamespaceId

\* rows is what the list read, and then the restore or archive it belongs to.
LoadList(filter, after) == [op |-> "list", stage |-> "sent", filter |-> filter, after |-> after]
ReadDetail(n) == [op |-> "detail", stage |-> "sent", id |-> n]
Mutate(op, n, from) ==
  [op |-> op, stage |-> "sent", id |-> n, filter |-> page.filter, from |-> from]

NamespacesMounted(s) ==
  Mounting("namespaces",
           [rows |-> <<>>, loading |-> TRUE, filter |-> "all", create |-> "closed",
            drawer |-> Nil, detail |-> Nil, reading |-> FALSE, failed |-> FALSE, editing |-> FALSE,
            saving |-> FALSE, restoring |-> FALSE, archive |-> Nil, acting |-> Nil],
           s, SetToBag({LoadList("all", Nil)}))

-----------------------------------------------------------------------------
Sets(p) == page' = p /\ UNCHANGED <<route, server, wire>>
Calls(p, r) == Room(1) /\ page' = p /\ Ask(r) /\ UNCHANGED <<route, server>>

\* A modal dialog or the drawer covers what is below it.
Free == page.create = "closed" /\ page.drawer = Nil /\ page.archive = Nil
Listed(n) == Free /\ n \in DOMAIN page.rows

\* The filter is a dependency of the effect that loads the list.
SelectFilter(f) ==
  /\ Free /\ f # page.filter
  /\ Calls([page EXCEPT !.filter = f, !.loading = TRUE], LoadList(f, Nil))

\* (A load that failed is not told from a good one, so it may be retried after any.)
RetryList == Free /\ ~page.loading /\ Calls([page EXCEPT !.loading = TRUE], LoadList(page.filter, Nil))

ShowCreate == Free /\ Sets([page EXCEPT !.create = "open"])

\* Cancel is disabled while the dialog submits, Escape is not.
HideCreate == page.create # "closed" /\ Sets([page EXCEPT !.create = "closed"])

CreateNamespace(n) ==
  page.create = "open" /\ Calls([page EXCEPT !.create = "busy"], Mutate("create", n, Nil))

OpenDetail(n, edit) ==
  /\ Listed(n)
  /\ Calls([page EXCEPT !.drawer = n, !.reading = TRUE, !.failed = FALSE, !.editing = edit],
           ReadDetail(n))

\* retryDetail
RetryDetail ==
  /\ page.drawer # Nil /\ ~page.reading /\ page.failed /\ page.archive = Nil
  /\ Calls([page EXCEPT !.reading = TRUE, !.failed = FALSE, !.editing = FALSE], ReadDetail(page.drawer))

CloseDetail ==
  /\ page.drawer # Nil /\ page.archive = Nil
  /\ Sets([page EXCEPT !.drawer = Nil, !.detail = Nil, !.failed = FALSE])

DetailOffered ==
  page.drawer # Nil /\ ~page.reading /\ ~page.failed /\ page.detail # Nil /\ page.archive = Nil

\* Edit, and Cancel of the form.
ToggleEditing == DetailOffered /\ ~page.saving /\ Sets([page EXCEPT !.editing = ~@])

\* handleSave guards itself, as the form may be submitted twice.
SaveDetail ==
  /\ DetailOffered /\ page.editing /\ ~page.saving
  /\ Calls([page EXCEPT !.saving = TRUE], Mutate("update", page.detail[1], "drawer"))

AskArchive(n) ==
  /\ \/ Listed(n) /\ page.rows[n] = "active"
     \/ DetailOffered /\ ~page.editing /\ page.detail = <<n, "active">>
  /\ Sets([page EXCEPT !.archive = n])

CancelArchive == page.archive # Nil /\ Sets([page EXCEPT !.archive = Nil])

\* ConfirmDialog closes itself after onConfirm.
ConfirmArchive ==
  /\ page.archive # Nil
  /\ Calls([page EXCEPT !.archive = Nil, !.acting = page.archive], Mutate("archive", page.archive, "page"))

RestoreRow(n) ==
  /\ Listed(n) /\ page.rows[n] = "archived"
  /\ Calls([page EXCEPT !.acting = n], Mutate("restore", n, "page"))

\* handleRestore of the drawer around that of the page.
RestoreDetail ==
  /\ DetailOffered /\ ~page.editing /\ ~page.restoring /\ page.detail[2] = "archived"
  /\ Calls([page EXCEPT !.restoring = TRUE, !.acting = page.detail[1]],
           Mutate("restore", page.detail[1], "drawer"))

-----------------------------------------------------------------------------
\* The finally of the handlers of archive (with its target) and restore.
Finally(p, op, from) ==
  [p EXCEPT !.acting = Nil,
            !.archive = IF op = "archive" THEN Nil ELSE @,
            !.restoring = IF from = "drawer" THEN FALSE ELSE @]

ListLoaded(r, ok) ==
  /\ r.op = "list" /\ Ends(r, ok)
  /\ LET p == [page EXCEPT !.loading = FALSE, !.rows = IF ok THEN r.rows ELSE @]
     IN  page' = IF r.after = Nil THEN p ELSE Finally(p, r.after[1], r.after[2])
  /\ wire' = Settled(r)
  /\ UNCHANGED <<route, server>>

\* The effect on the detail clears the flags of the form.
Showing(p, d) ==
  IF d = Nil \/ d = p.detail THEN [p EXCEPT !.detail = d]
  ELSE [p EXCEPT !.detail = d, !.editing = @ /\ p.drawer = d[1],
                 !.saving = FALSE, !.restoring = FALSE]

\* A detail that is not found any more closes the drawer.
DetailRead(r, ok) ==
  /\ r.op = "detail" /\ Ends(r, ok)
  /\ page' = IF ok /\ r.found = Nil THEN [page EXCEPT !.reading = FALSE, !.drawer = Nil]
             ELSE IF ok THEN Showing([page EXCEPT !.reading = FALSE], <<r.id, r.found>>)
             ELSE [page EXCEPT !.reading = FALSE, !.failed = TRUE]
  /\ wire' = Settled(r)
  /\ UNCHANGED <<route, server>>

\* What the answer of the server says of the detail that is shown.
Followed(p, r) ==
  IF p.detail # Nil /\ p.detail[1] = r.id THEN Showing(p, <<r.id, r.status>>) ELSE p

Created(r, ok) ==
  /\ r.op = "create" /\ Ends(r, ok)
  /\ IF ok
     THEN LET p == [page EXCEPT !.rows = r.rows, !.filter = "all", !.create = "closed"]
          IN  IF page.filter = "all" THEN page' = p /\ wire' = Settled(r)
              ELSE /\ page' = [p EXCEPT !.loading = TRUE]
                   /\ wire' = BagAdd(Settled(r), LoadList("all", Nil))
     ELSE /\ page' = [page EXCEPT !.create = IF @ = "busy" THEN "open" ELSE @]
          /\ wire' = Settled(r)
  /\ UNCHANGED <<route, server>>

Updated(r, ok) ==
  /\ r.op = "update" /\ Ends(r, ok)
  /\ page' = IF ok THEN [Followed([page EXCEPT !.rows = r.rows], r)
                           EXCEPT !.editing = FALSE, !.saving = FALSE]
                   ELSE [page EXCEPT !.saving = FALSE]
  /\ wire' = Settled(r)
  /\ UNCHANGED <<route, server>>

StatusChanged(r, ok) ==
  /\ r.op \in {"archive", "restore"} /\ (Ends(r, ok) \/ (ok /\ r.stage = "conflict"))
  /\ IF ok /\ r.stage = "conflict"
     THEN page' = [page EXCEPT !.loading = TRUE]
          /\ wire' = BagAdd(Settled(r), LoadList(r.filter, <<r.op, r.from>>))
     ELSE page' = Finally(IF ok THEN Followed([page EXCEPT !.rows = r.rows], r) ELSE page, r.op, r.from)
          /\ wire' = Settled(r)
  /\ UNCHANGED <<route, server>>

-----------------------------------------------------------------------------
Matching(s, f) == Restrict(s, {n \in DOMAIN s : f \in {"all", s[n]}})

Carried(op, n) ==
  CASE op = "create" -> With(server, n, "active")
    [] op = "update" -> server
    [] op = "archive" -> With(server, n, "archived")
    [] op = "restore" -> With(server, n, "active")

\* A name that is taken, and a status that is there already, are conflicts.
Refused(op, n) ==
  CASE op = "create" -> n \in DOMAIN server
    [] op = "update" -> n \notin DOMAIN server
    [] op = "archive" -> n \in DOMAIN server /\ server[n] = "archived"
    [] op = "restore" -> n \in DOMAIN server /\ server[n] = "active"

ServeNamespaces(r) ==
  /\ r.stage = "sent"
  /\ \/ /\ r.op = "list" /\ UNCHANGED server
        /\ Reply(r, AnsweredWith(r, [rows |-> Matching(server, r.filter)]))
     \/ /\ r.op = "detail" /\ UNCHANGED server
        /\ Reply(r, AnsweredWith(r, [found |-> IF r.id \in DOMAIN server THEN server[r.id] ELSE Nil]))
     \/ /\ r.op \in {"create", "update", "archive", "restore"} /\ ~Refused(r.op, r.id)
        /\ LET s == Carried(r.op, r.id)
               f == IF r.op = "create" THEN "all" ELSE r.filter
           IN  /\ server' = s
               /\ Reply(r, AnsweredWith(r, [rows |-> Matching(s, f), status |-> s[r.id]]))
     \/ /\ r.op \in {"archive", "restore"} /\ Refused(r.op, r.id) /\ UNCHANGED server
        /\ Reply(r, [r EXCEPT !.stage = "conflict"])
  /\ UNCHANGED <<route, page>>

\* Someone else archives or restores.
OthersChange(n) ==
  /\ n \in DOMAIN server
  /\ server' \in {[server EXCEPT ![n] = s] : s \in Statuses \ {server[n]}}
  /\ UNCHANGED <<route, page, wire>>

NamespacesNext ==
  \/ \E f \in NamespaceFilters : SelectFilter(f)
  \/ RetryList \/ ShowCreate \/ HideCreate
  \/ \E n \in Namespaces : \/ CreateNamespace(n) \/ AskArchive(n) \/ RestoreRow(n) \/ OthersChange(n)
                           \/ \E edit \in BOOLEAN : OpenDetail(n, edit)
  \/ CloseDetail \/ RetryDetail \/ ToggleEditing \/ SaveDetail
  \/ CancelArchive \/ ConfirmArchive \/ RestoreDetail
  \/ \E r \in Open : \/ ServeNamespaces(r)
                     \/ \E ok \in BOOLEAN : \/ ListLoaded(r, ok) \/ DetailRead(r, ok) \/ Created(r, ok)
                                            \/ Updated(r, ok) \/ StatusChanged(r, ok)

-----------------------------------------------------------------------------
\* Each spinner stands for a call that is open, although one cell marks the row
\* of any archive or restore, each finally clears the cells of the others, and
\* the drawer moves to another namespace while it saves.
NamespacesBusyMeansWaiting ==
  /\ page.create = "busy" => Pending("create") # {}
  /\ page.saving => Pending("update") # {}
  /\ page.loading => Pending("list") # {}
  /\ page.reading => Pending("detail") # {}
  /\ page.acting # Nil =>
        \E r \in Open : r.op \in {"archive", "restore"} \/ (r.op = "list" /\ r.after # Nil)
  /\ page.restoring =>
        \E r \in Open : \/ r.op = "restore" /\ r.from = "drawer"
                        \/ r.op = "list" /\ r.after = <<"restore", "drawer">>
=============================================================================
