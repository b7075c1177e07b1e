----------------------------- MODULE SkillsPage -----------------------------
(***************************************************************************)
(* The skills (pages/skills/SkillsPage.tsx) against internal/skill, in     *)
(* three parts that share no state, each on a route of its own: the        *)
(* assignment of catalogue skills to AI assistants, the import of a        *)
(* snapshot of such bindings, and the library of skill definitions.        *)
(***************************************************************************)
EXTENDS WebTab

-----------------------------------------------------------------------------
(***************************************************************************)
(* The tab SkillAssignmentsTab with the loads of its page.  server.catalog *)
(* is the skill directory, server.bound the skills bound to each assistant.*)
(* The tab is mounted while it is shown, so that leaving it forgets its    *)
(* draft and its saving flag, while the page keeps what it has loaded.     *)
(* Search, figures and messages are left out.                              *)
(***************************************************************************)
CONSTANTS Assistants, Skills,
          FirstAssistant    \* the first one the roster lists

ASSUME FirstAssistantAssumption == FirstAssistant \in Assistants

Bindings == [Assistants -> SUBSET Skills]
NoBindings == [a \in Assistants |-> {}]

AssignmentsState ==
  [ skills : SUBSET Skills,                     \* the catalogue
    catalog : {"idle", "loading", "error"},     \* loadState
    reloading : BOOLEAN,                        \* reloadingCatalog
    listed : BOOLEAN,                           \* assistantMembers # []
    bindings : Bindings,                        \* skillBindings
    load : {"idle", "loading", "error"},        \* assignmentState
    shown : BOOLEAN,                            \* activeTab is assignments
    selected : Assistants \cup {Nil},           \* selectedAssistantId
    draft : SUBSET Skills,
    saving : BOOLEAN ]

GetCatalog(handler) == [op |-> "catalog", stage |-> "sent", handler |-> handler]
GetBindings(handler) == [op |-> "bindings", stage |-> "sent", handler |-> handler]
Reload == [op |-> "rescan", stage |-> "sent"]
\* handler is save until the tab that saves is unmounted.
PutSkills(a, S) ==
  [op |-> "put", stage |-> "sent", handler |-> "save", member |-> a, skills |-> S]

\* The requests of the save of the tab that is mounted: the save and its reload.
SaveChain == {r \in Open : r.op \in {"put", "bindings"} /\ r.handler = "save"}

AssignmentsMounted(c, b) ==
  Mounting("assignments",
           [skills |-> {}, catalog |-> "loading", reloading |-> FALSE,
            listed |-> FALSE, bindings |-> NoBindings, load |-> "loading",
            shown |-> TRUE, selected |-> Nil, draft |-> {}, saving |-> FALSE],
           [catalog |-> c, bound |-> b],
           SetToBag({GetCatalog("mount"), GetBindings("mount")}))

-----------------------------------------------------------------------------
(* What the tab offers.                                                     *)

\* Until there are assistants and skills the tab shows a card instead.
EditorShown == page.shown /\ page.listed /\ page.skills # {}
SkillSaveOffered == EditorShown /\ page.selected # Nil /\ ~page.saving
CatalogReloadOffered == ~page.reloading /\ page.catalog # "loading"

\* The effects on assistants, bindings and the selection: the selection falls
\* back to the first assistant, and the draft is what the page holds bound.
Synced(p) ==
  LET sel == IF ~p.listed THEN Nil
             ELSE IF p.selected # Nil THEN p.selected ELSE FirstAssistant
  IN [p EXCEPT !.selected = sel,
               !.draft = IF sel = Nil THEN {} ELSE p.bindings[sel]]

SelectAssistant(a) ==
  /\ EditorShown /\ a # page.selected
  /\ page' = Synced([page EXCEPT !.selected = a])
  /\ UNCHANGED <<route, server, wire>>

\* A checkbox, or Clear All.
SetDraft(S) ==
  /\ EditorShown /\ S # page.draft
  /\ \/ \E s \in page.skills : S \in {page.draft \cup {s}, page.draft \ {s}}
     \/ S = {} /\ ~page.saving
  /\ page' = [page EXCEPT !.draft = S]
  /\ UNCHANGED <<route, server, wire>>

\* Leaving the tab unmounts it: a save that is open, or its reload, goes on
\* without it.
LeaveTab ==
  /\ page.shown
  /\ page' = [page EXCEPT !.shown = FALSE, !.selected = Nil, !.draft = {},
                          !.saving = FALSE]
  /\ wire' = Become(wire, [r \in SaveChain |-> [r EXCEPT !.handler = "refresh"]])
  /\ UNCHANGED <<route, server>>

EnterTab ==
  /\ ~page.shown
  /\ page' = Synced([page EXCEPT !.shown = TRUE])
  /\ UNCHANGED <<route, server, wire>>

-----------------------------------------------------------------------------
(* Loads.                                                                   *)

ClickReloadCatalog ==
  /\ CatalogReloadOffered /\ Room(1)
  /\ page' = [page EXCEPT !.reloading = TRUE]
  /\ Ask(Reload)
  /\ UNCHANGED <<route, server>>

CatalogRescanned(r, ok) ==
  /\ r.op = "rescan" /\ Ends(r, ok)
  /\ IF ok THEN /\ page' = [page EXCEPT !.catalog = "loading"]
                /\ wire' = BagAdd(Settled(r), GetCatalog("reload"))
           ELSE /\ page' = [page EXCEPT !.reloading = FALSE]
                /\ wire' = Settled(r)
  /\ UNCHANGED <<route, server>>

CatalogLoaded(r, ok) ==
  /\ r.op = "catalog" /\ Ends(r, ok)
  /\ page' = [page EXCEPT !.skills = IF ok THEN r.catalog ELSE @,
                          !.catalog = IF ok THEN "idle" ELSE "error",
                          !.reloading = @ /\ r.handler # "reload"]
  /\ wire' = Settled(r)
  /\ UNCHANGED <<route, server>>

\* The Refresh button, and the reload after an import on the same page, which
\* ends at any moment whatever this tab is doing.
LoadAssignments ==
  /\ Room(1)
  /\ page' = [page EXCEPT !.load = "loading"]
  /\ Ask(GetBindings("refresh"))
  /\ UNCHANGED <<route, server>>

\* loadAssignments after its awaits.  An assistant whose own request failed
\* counts as one with no skills; without the roster there are no assistants.
AssignmentsLoaded(r, ok) ==
  /\ r.op = "bindings" /\ Ends(r, ok)
  /\ \E failed \in SUBSET Assistants :
       LET b == IF ok THEN [a \in Assistants |->
                              IF a \in failed THEN {} ELSE r.bound[a]]
                      ELSE NoBindings
           p == [page EXCEPT !.listed = ok, !.bindings = b,
                             !.load = IF ok THEN "idle" ELSE "error",
                             !.saving = @ /\ r.handler # "save"]
       IN /\ ok \/ failed = {}
          /\ page' = IF page.shown THEN Synced(p) ELSE p
  /\ wire' = Settled(r)
  /\ UNCHANGED <<route, server>>

-----------------------------------------------------------------------------
(* Saving.                                                                  *)

\* save: what is sent is the part of the draft that the catalogue knows.
ClickSaveSkills ==
  /\ SkillSaveOffered /\ Room(1)
  /\ page' = [page EXCEPT !.saving = TRUE]
  /\ Ask(PutSkills(page.selected, page.draft \cap page.skills))
  /\ UNCHANGED <<route, server>>

\* A save that fails ends the handler; one that succeeds awaits the reload.
SkillsSaved(r, ok) ==
  /\ r.op = "put" /\ Ends(r, ok)
  /\ IF ok THEN /\ page' = [page EXCEPT !.load = "loading"]
                /\ wire' = BagAdd(Settled(r), GetBindings(r.handler))
           ELSE /\ page' = [page EXCEPT !.saving = @ /\ r.handler # "save"]
                /\ wire' = Settled(r)
  /\ UNCHANGED <<route, server>>

-----------------------------------------------------------------------------
(* The backend.                                                             *)

\* ReplaceMemberSkills refuses a list with a skill the catalogue lacks.
Replaceable(S) == S \subseteq server.catalog

ServeAssignments(r) ==
  /\ r.stage = "sent"
  /\ CASE r.op = "catalog"  -> /\ Reply(r, AnsweredWith(r, [catalog |-> server.catalog]))
                               /\ UNCHANGED server
       [] r.op = "bindings" -> /\ Reply(r, AnsweredWith(r, [bound |-> server.bound]))
                               /\ UNCHANGED server
       [] r.op = "rescan"   -> Reply(r, Answered(r)) /\ UNCHANGED server
       [] OTHER -> /\ Replaceable(r.skills)
                   /\ server' = [server EXCEPT !.bound[r.member] = r.skills]
                   /\ Reply(r, Answered(r))
  /\ UNCHANGED <<route, page>>

\* The directory is read again at every call: a file is added or removed.
DirectoryChanges ==
  /\ \E c \in SUBSET Skills : c # server.catalog /\ c # {}
                              /\ server' = [server EXCEPT !.catalog = c]
  /\ UNCHANGED <<route, page, wire>>

AssignmentsNext ==
  \/ \E a \in Assistants : SelectAssistant(a)
  \/ \E S \in SUBSET Skills : SetDraft(S)
  \/ LeaveTab \/ EnterTab
  \/ ClickReloadCatalog \/ LoadAssignments \/ ClickSaveSkills \/ DirectoryChanges
  \/ \E r \in Open :
       \/ ServeAssignments(r)
       \/ \E ok \in BOOLEAN : \/ CatalogRescanned(r, ok) \/ CatalogLoaded(r, ok)
                              \/ AssignmentsLoaded(r, ok) \/ SkillsSaved(r, ok)

-----------------------------------------------------------------------------
\* A button that waits, waits for a request that is open: for every order of
\* answers and failures, and although the tab may be left and entered again
\* while a save is under way.
AssignmentsBusyMeansWaiting ==
  /\ page.saving => SaveChain # {}
  /\ page.reloading => \E r \in Open : \/ r.op = "rescan"
                                       \/ r.op = "catalog" /\ r.handler = "reload"
  /\ page.load = "loading" => Pending("bindings") # {}

-----------------------------------------------------------------------------
(***************************************************************************)
(* The import preview, against ImportSkills.  A file is what it binds:     *)
(* Files maps each file to its bindings.  server.bound is what the         *)
(* assistants have; the catalogue knows every skill but those of Unknown.  *)
(* The export only reads and is left out.                                  *)
(***************************************************************************)
CONSTANTS Files,      \* the snapshots a user may pick
          Pairs,      \* the bindings: an assistant with a skill
          Unknown,    \* those whose skill the catalogue lacks
          Content     \* the bindings of a file, [Files -> SUBSET Pairs]

ASSUME ContentAssumption == Unknown \subseteq Pairs /\ Content \in [Files -> SUBSET Pairs]

\* The result of a validation or of an import: the file it is about, and
\* whether it reports conflicts.
Results == [file : Files, conflicts : BOOLEAN]

ImportState ==
  [ preview : Files \cup {Nil},
    validation : Results \cup {Nil},
    validating : BOOLEAN,                       \* validatingImport
    strategy : {"merge", "replace"},            \* importStrategy
    importing : BOOLEAN ]

Post(strategy, f) ==
  [op |-> "import", stage |-> "sent", strategy |-> strategy, file |-> f]

NoPreview == [preview |-> Nil, validation |-> Nil, validating |-> FALSE,
              strategy |-> "merge", importing |-> FALSE]

ImportMounted(b) == Mounting("import", NoPreview, [bound |-> b], EmptyBag)

-----------------------------------------------------------------------------
\* The buttons of the preview; Apply also waits for a validation.
PreviewOffered == page.preview # Nil /\ ~page.importing /\ ~page.validating
ApplyOffered == PreviewOffered /\ page.validation # Nil

\* onFile: the Import button is never disabled.  The file is read, then shown
\* while the backend validates it.
PickFile(f) ==
  /\ Room(1)
  /\ page' = [page EXCEPT !.preview = f, !.validation = Nil, !.validating = TRUE]
  /\ Ask(Post("validate", f))
  /\ UNCHANGED <<route, server>>

\* A file that is not a snapshot clears the preview.
PickBadFile ==
  /\ page' = [page EXCEPT !.preview = Nil, !.validation = Nil]
  /\ page' # page
  /\ UNCHANGED <<route, server, wire>>

SelectStrategy(s) ==
  /\ PreviewOffered /\ s # page.strategy
  /\ page' = [page EXCEPT !.strategy = s]
  /\ UNCHANGED <<route, server, wire>>

CancelPreview ==
  /\ PreviewOffered
  /\ page' = [page EXCEPT !.preview = Nil, !.validation = Nil, !.strategy = "merge"]
  /\ UNCHANGED <<route, server, wire>>

ApplyImport ==
  /\ ApplyOffered /\ Room(1)
  /\ page' = [page EXCEPT !.importing = TRUE]
  /\ Ask(Post(page.strategy, page.preview))
  /\ UNCHANGED <<route, server>>

\* The validation has been answered: its result is shown with whatever file
\* is previewed now.
Validated(r, ok) ==
  /\ r.op = "import" /\ r.strategy = "validate" /\ Ends(r, ok)
  /\ page' = [page EXCEPT !.validating = FALSE,
                !.validation = IF ok THEN [file |-> r.file, conflicts |-> r.conflicts]
                                     ELSE Nil]
  /\ wire' = Settled(r)
  /\ UNCHANGED <<route, server>>

\* An import with conflicts keeps the preview, one without closes it.
ImportApplied(r, ok) ==
  /\ r.op = "import" /\ r.strategy # "validate" /\ Ends(r, ok)
  /\ page' =
       IF ~ok THEN [page EXCEPT !.importing = FALSE]
       ELSE IF r.conflicts
       THEN [page EXCEPT !.importing = FALSE,
                         !.validation = [file |-> r.file, conflicts |-> TRUE]]
       ELSE [page EXCEPT !.importing = FALSE, !.preview = Nil,
                         !.validation = Nil, !.strategy = "merge"]
  /\ wire' = Settled(r)
  /\ UNCHANGED <<route, server>>

-----------------------------------------------------------------------------
Bound == server.bound
Members(f) == {x[1] : x \in Content[f]}

\* The bindings after an import: replace sets the skills of every member that
\* the file names, merge only adds.
Imported(strategy, f) ==
  LET valid == Content[f] \ Unknown
  IN CASE strategy = "validate" -> Bound
       [] strategy = "merge"    -> Bound \cup valid
       [] strategy = "replace"  -> {x \in Bound : x[1] \notin Members(f)} \cup valid

\* Skills the catalogue lacks and, in a merge, what is bound already.
Conflicts(strategy, f) ==
  \/ Content[f] \cap Unknown # {}
  \/ strategy = "merge" /\ Content[f] \cap Bound # {}

ServeImport(r) ==
  /\ r.stage = "sent"
  /\ server' = [bound |-> Imported(r.strategy, r.file)]
  /\ Reply(r, AnsweredWith(r, [conflicts |-> Conflicts(r.strategy, r.file)]))
  /\ UNCHANGED <<route, page>>

ImportNext ==
  \/ \E f \in Files : PickFile(f)
  \/ PickBadFile \/ CancelPreview \/ ApplyImport
  \/ \E s \in {"merge", "replace"} : SelectStrategy(s)
  \/ \E r \in Open : \/ ServeImport(r)
                     \/ \E ok \in BOOLEAN : Validated(r, ok) \/ ImportApplied(r, ok)

-----------------------------------------------------------------------------
Applying == {r \in Pending("import") : r.strategy # "validate"}

\* The preview is never left disabled with nothing under way.
ImportBusyMeansWaiting ==
  /\ page.importing => Applying # {}
  /\ page.validating => \E r \in Pending("import") : r.strategy = "validate"

\* At most one import is under way, however files are picked meanwhile.
ImportNoDoubleSubmit == OneAtMost(Applying)

-----------------------------------------------------------------------------
(***************************************************************************)
(* The tab AelSkillDefinitionsTab, against the table skill_definitions,    *)
(* which holds a name and version once.  The tab is mounted while it is    *)
(* shown.                                                                  *)
(***************************************************************************)
CONSTANT Definitions     \* a name with its version

LibraryState ==
  [ shown : BOOLEAN,                                 \* activeTab is library
    defs : SUBSET Definitions,
    lib : {"idle", "loading", "error"},              \* libState
    form : BOOLEAN, typed : Definitions \cup {Nil},  \* showForm, form
    saving : BOOLEAN,
    selected : Definitions \cup {Nil} ]

\* live says whether the tab that asked is still mounted.
ListDefs(handler) ==
  [op |-> "defs", stage |-> "sent", handler |-> handler, live |-> TRUE]
Create(d) == [op |-> "create", stage |-> "sent", def |-> d, live |-> TRUE]

FirstLibrary == [shown |-> TRUE, defs |-> {}, lib |-> "loading", form |-> FALSE,
                 typed |-> Nil, saving |-> FALSE, selected |-> Nil]

LibraryMounted(D) ==
  Mounting("library", FirstLibrary, [defs |-> D], SetToBag({ListDefs("mount")}))

-----------------------------------------------------------------------------
LibraryEdits(p) == page' = p /\ UNCHANGED <<route, server, wire>>

\* The list with its buttons, and what is to the right of it.
ListShown == page.shown
FormShown == page.shown /\ page.form

NewDefinition == ListShown /\ LibraryEdits([page EXCEPT !.form = TRUE, !.selected = Nil])

SelectDefinition(d) ==
  /\ ListShown /\ d \in page.defs
  /\ LibraryEdits([page EXCEPT !.selected = d, !.form = FALSE])

CancelForm == FormShown /\ ~page.saving /\ LibraryEdits([page EXCEPT !.form = FALSE])

TypeForm(d) == FormShown /\ LibraryEdits([page EXCEPT !.typed = d])

RetryDefs ==
  /\ ListShown /\ page.lib = "error" /\ Room(1)
  /\ page' = [page EXCEPT !.lib = "loading"]
  /\ Ask(ListDefs("retry"))
  /\ UNCHANGED <<route, server>>

\* Another tab of the page is shown; what this one has open then goes on for a
\* component that is gone.
LeaveLibrary ==
  /\ ListShown
  /\ page' = [page EXCEPT !.shown = FALSE]
  /\ wire' = Detached(wire, {r \in Open : r.live})
  /\ UNCHANGED <<route, server>>

\* Back again, with a first state.
EnterLibrary ==
  /\ ~page.shown /\ Room(1)
  /\ page' = FirstLibrary
  /\ Ask(ListDefs("mount"))
  /\ UNCHANGED <<route, server>>

\* handleCreate; the list is loaded again before the handler ends.
SubmitForm ==
  /\ FormShown /\ page.typed # Nil /\ ~page.saving /\ Room(1)
  /\ page' = [page EXCEPT !.saving = TRUE]
  /\ Ask(Create(page.typed))
  /\ UNCHANGED <<route, server>>

DefinitionCreated(r, ok) ==
  /\ r.op = "create" /\ Ends(r, ok)
  /\ IF ok
     THEN /\ page' = IF r.live THEN [page EXCEPT !.typed = Nil, !.form = FALSE,
                                                !.lib = "loading"]
                               ELSE page
          /\ wire' = BagAdd(Settled(r), [ListDefs("create") EXCEPT !.live = r.live])
     ELSE /\ page' = IF r.live THEN [page EXCEPT !.saving = FALSE] ELSE page
          /\ wire' = Settled(r)
  /\ UNCHANGED <<route, server>>

DefsLoaded(r, ok) ==
  /\ r.op = "defs" /\ Ends(r, ok)
  /\ page' = IF r.live
             THEN [page EXCEPT !.defs = IF ok THEN r.defs ELSE @,
                               !.lib = IF ok THEN "idle" ELSE "error",
                               !.saving = @ /\ r.handler # "create"]
             ELSE page
  /\ wire' = Settled(r)
  /\ UNCHANGED <<route, server>>

\* CreateSkill: the second definition of a name and version is refused.
ServeLibrary(r) ==
  /\ r.stage = "sent"
  /\ IF r.op = "defs"
     THEN Reply(r, AnsweredWith(r, [defs |-> server.defs])) /\ UNCHANGED server
     ELSE /\ r.def \notin server.defs
          /\ server' = [defs |-> server.defs \cup {r.def}]
          /\ Reply(r, Answered(r))
  /\ UNCHANGED <<route, page>>

LibraryNext ==
  \/ \E d \in Definitions : SelectDefinition(d) \/ TypeForm(d)
  \/ NewDefinition \/ CancelForm \/ RetryDefs \/ SubmitForm
  \/ LeaveLibrary \/ EnterLibrary
  \/ \E r \in Open : \/ ServeLibrary(r)
                     \/ \E ok \in BOOLEAN : DefinitionCreated(r, ok) \/ DefsLoaded(r, ok)

-----------------------------------------------------------------------------
\* The requests behind the form of the tab that is mounted.
FormChain == {r \in Open : /\ r.live
                           /\ r.op = "create" \/ r.handler = "create"}

\* The form and the list never wait for nothing, also after the tab was left
\* with a creation under way.
LibraryBusyMeansWaiting ==
  page.shown => /\ page.saving => FormChain # {}
                /\ page.lib = "loading" => \E r \in Pending("defs") : r.live

\* The form that is mounted has one creation under way at most.
LibraryNoDoubleSubmit == OneAtMost(FormChain)

\* A definition the tab has shown as selected exists: no load, however late,
\* selects anything, and definitions are never removed.
SelectedExists ==
  route = "library" /\ page.selected # Nil => page.selected \in server.defs
=============================================================================
