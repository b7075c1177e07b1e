---------------------------- MODULE RoadmapPage -----------------------------
(***************************************************************************)
(* The roadmap and the project data side by side: routes/roadmap-project-  *)
(* data.tsx with features/roadmap-project-data/store.ts, over the documents*)
(* of backend/go/internal/projectdata; and, on a route of its own, the list*)
(* of tasks in the draft of the roadmap.                                   *)
(*                                                                         *)
(* A document is [v, id]: its version and an identity of its content; the  *)
(* document that was never written is Blank.  A panel keeps the document it*)
(* got last (doc), from which its draft was made; of the draft itself only *)
(* its effect on the phase is kept.  The backend answers readOnly false    *)
(* always, so the read-only lock is left out.                              *)
(***************************************************************************)
EXTENDS WebTab

CONSTANTS MaxWrites       \* bound on the writes of all documents

Panels == {"roadmap", "data"}
Blank == [v |-> 0, id |-> 0]
Docs == [v : 0..MaxWrites, id : 0..MaxWrites]

ASSUME RoadmapAssumption == MaxWrites \in Nat /\ Nil \notin Docs

\* bad is parseError (project data only), failed is saveError, asked is
\* reloadRequestedWhileDirty.
PanelState ==
  [ phase : {"loading", "loaded", "dirty", "saving", "error"}, doc : Docs,
    bad : BOOLEAN, failed : BOOLEAN, asked : BOOLEAN ]

RoadmapState == [Panels -> PanelState]

-----------------------------------------------------------------------------
(* The store.                                                               *)

Hydrated(d) == [phase |-> "loaded", doc |-> d, bad |-> FALSE, failed |-> FALSE, asked |-> FALSE]
MarkLoading(s) == [s EXCEPT !.phase = "loading", !.failed = FALSE, !.asked = FALSE]
MarkSaving(s) == [s EXCEPT !.phase = "saving", !.failed = FALSE]
SaveFailed(s) == [s EXCEPT !.phase = "error", !.failed = TRUE, !.asked = FALSE]

\* edited: the draft differs from the document; bad: the text does not parse.
DraftEdited(s, edited, bad) ==
  [s EXCEPT !.bad = bad, !.phase = IF edited \/ bad THEN "dirty" ELSE "loaded",
            !.failed = FALSE, !.asked = FALSE]

\* A new task makes the roadmap dirty whatever the draft is then.
TaskAdded(s) == [s EXCEPT !.phase = "dirty", !.failed = FALSE, !.asked = FALSE]

RequestReload(s) == [s EXCEPT !.asked = TRUE]

\* selectPanelFeedback, in the order of its returns.
ShowsProblem(s) == s.failed \/ s.bad
Busy(s) == s.phase \in {"loading", "saving"}
InputsOffered(s) == ShowsProblem(s) \/ ~Busy(s)
ReloadOffered(s) == ShowsProblem(s) \/ ~Busy(s)
SaveOffered(s) == IF ShowsProblem(s) THEN ~s.bad
                  ELSE ~Busy(s) /\ (s.asked \/ s.phase = "dirty")
ChoiceOffered(s) == s.asked /\ (ShowsProblem(s) \/ ~Busy(s))

-----------------------------------------------------------------------------
(* The page.                                                                *)

LoadAll == [op |-> "load", stage |-> "sent", docs |-> <<>>]

RoadmapMounted ==
  Mounting("roadmap",
           [p \in Panels |-> MarkLoading(Hydrated(Blank))],
           [work |-> [p \in Panels |-> Nil], app |-> [p \in Panels |-> Nil],
            writes |-> 0, writable |-> TRUE, fellBack |-> FALSE],
           SetToBag({LoadAll}))

Edit(p, edited, bad) ==
  /\ InputsOffered(page[p]) /\ ~Busy(page[p])
  /\ bad => p = "data"
  /\ page' = [page EXCEPT ![p] = DraftEdited(@, edited, bad)]
  /\ UNCHANGED <<route, server, wire>>

AppendTask ==
  /\ InputsOffered(page["roadmap"]) /\ ~Busy(page["roadmap"])
  /\ page' = [page EXCEPT !["roadmap"] = TaskAdded(@)]
  /\ UNCHANGED <<route, server, wire>>

LoadBoth(s) ==
  /\ Room(1)
  /\ page' = [p \in Panels |-> MarkLoading(s[p])]
  /\ Ask(LoadAll)

\* A panel that is dirty or in error asks first; then both panels load.
ClickReload(p) ==
  /\ ReloadOffered(page[p])
  /\ IF page[p].phase \in {"dirty", "error"}
     THEN /\ page' = [page EXCEPT ![p] = RequestReload(@)]
          /\ UNCHANGED wire
     ELSE LoadBoth(page)
  /\ UNCHANGED <<route, server>>

KeepDraft(p) ==
  /\ ChoiceOffered(page[p])
  /\ page' = [page EXCEPT ![p].asked = FALSE]
  /\ UNCHANGED <<route, server, wire>>

DiscardAndReload(p) ==
  /\ ChoiceOffered(page[p])
  /\ LoadBoth(page)
  /\ UNCHANGED <<route, server>>

\* The draft and the version it was made from.
ClickSave(p) ==
  /\ SaveOffered(page[p]) /\ Room(1)
  /\ page' = [page EXCEPT ![p] = MarkSaving(@)]
  /\ Ask([op |-> "save", stage |-> "sent", panel |-> p, expected |-> page[p].doc.v,
          over |-> page[p].doc])
  /\ UNCHANGED <<route, server>>

\* Promise.all: both documents, or an error of both panels.
BothLoaded(r, ok) ==
  /\ r.op = "load" /\ Ends(r, ok)
  /\ page' = [p \in Panels |-> IF ok THEN Hydrated(r.docs[p]) ELSE SaveFailed(page[p])]
  /\ wire' = Settled(r)
  /\ UNCHANGED <<route, server>>

DocSaved(r, ok) ==
  /\ r.op = "save" /\ Ends(r, ok)
  /\ page' = [page EXCEPT ![r.panel] = IF ok THEN Hydrated(r.doc) ELSE SaveFailed(@)]
  /\ wire' = Settled(r)
  /\ UNCHANGED <<route, server>>

-----------------------------------------------------------------------------
(* The repository: the file in the workspace, with the file in the          *)
(* application's own directory to fall back to.                             *)

ReadDocument(p) == IF server.work[p] # Nil THEN server.work[p]
                   ELSE IF server.app[p] # Nil THEN server.app[p]
                   ELSE Blank

\* Mutant: the version that was read is written again.
SameVersion(p) == [v |-> ReadDocument(p).v, id |-> server.writes + 1]

NextDoc(p) == [v |-> ReadDocument(p).v + 1, id |-> server.writes + 1]

Written(p) ==
  /\ server.writes < MaxWrites
  /\ server' = IF server.writable
               THEN [server EXCEPT !.work[p] = NextDoc(p), !.writes = @ + 1]
               ELSE [server EXCEPT !.app[p] = NextDoc(p), !.writes = @ + 1,
                                   !.fellBack = TRUE]

\* The write of a version that is not current is refused.
ServeRoadmap(r) ==
  /\ r.stage = "sent"
  /\ \/ /\ r.op = "load"
        /\ \E p \in Panels \ DOMAIN r.docs :
             LET docs == With(r.docs, p, ReadDocument(p))
             IN Reply(r, [r EXCEPT !.docs = docs,
                            !.stage = IF DOMAIN docs = Panels THEN "ok" ELSE @])
        /\ UNCHANGED server
     \/ /\ r.op = "save" /\ r.expected = ReadDocument(r.panel).v
        /\ Written(r.panel)
        /\ Reply(r, AnsweredWith(r, [doc |-> NextDoc(r.panel)]))
  /\ UNCHANGED <<route, page>>

OthersWrite(p) ==
  /\ Written(p)
  /\ UNCHANGED <<route, page, wire>>

\* The workspace becomes read-only, or writable again.
StorageTurns ==
  /\ server' = [server EXCEPT !.writable = ~@]
  /\ UNCHANGED <<route, page, wire>>

RoadmapAnswer(r) == \E ok \in BOOLEAN : BothLoaded(r, ok) \/ DocSaved(r, ok)

RoadmapNext ==
  \/ \E p \in Panels : \/ ClickReload(p) \/ KeepDraft(p) \/ DiscardAndReload(p)
                       \/ ClickSave(p) \/ OthersWrite(p)
                       \/ \E e, b \in BOOLEAN : Edit(p, e, b)
  \/ AppendTask \/ StorageTurns
  \/ \E r \in Open : ServeRoadmap(r) \/ RoadmapAnswer(r)

-----------------------------------------------------------------------------
\* A panel says "loading" or "saving" only while that request is open, however
\* the loads of both panels, their saves and failures overlap.
RoadmapBusyMeansWaiting ==
  \A p \in Panels :
    /\ page[p].phase = "loading" => Pending("load") # {}
    /\ page[p].phase = "saving" => \E r \in Pending("save") : r.panel = p

\* A save that the repository would accept replaces the very document its draft
\* was made from: no write of another user is lost, although a load, a save and
\* edits of both panels overlap (while every write reached the workspace file).
SaveReplacesItsBase ==
  route = "roadmap" =>
    server.fellBack \/
    \A r \in Pending("save") :
      (r.stage = "sent" /\ r.expected = ReadDocument(r.panel).v)
        => r.over = ReadDocument(r.panel)

-----------------------------------------------------------------------------
(***************************************************************************)
(* The list of tasks in the draft of the roadmap (store.ts) and what       *)
(* becomes of it when it is saved and read again.  Titles, statuses,       *)
(* assignees, dates and dependencies are edited with the same operation as *)
(* the pin and do not take part in the order.                              *)
(***************************************************************************)
CONSTANTS TaskIds,        \* naturals, in the order of localeCompare
          MaxNumber       \* bound on the numbers of tasks

ASSUME TasksAssumption == TaskIds \subseteq Nat /\ MaxNumber \in Nat

Tasks == [id : TaskIds, number : 0..MaxNumber, pinned : BOOLEAN]

\* sent is the order in which the list was submitted, until it is edited again.
TasksState == [draft : Seq(Tasks), sent : Seq(TaskIds) \cup {Nil}]

TasksMounted ==
  Mounting("tasks", [draft |-> <<>>, sent |-> Nil], Nil, EmptyBag)

-----------------------------------------------------------------------------
Draft == page.draft
Order(s) == [i \in DOMAIN s |-> s[i].id]

\* compareTasks: pinned first, then by number, then by id.
Before(a, b) ==
  \/ a.pinned /\ ~b.pinned
  \/ a.pinned = b.pinned /\ a.number < b.number
  \/ a.pinned = b.pinned /\ a.number = b.number /\ a.id < b.id

\* Before tells any two tasks apart, so the i-th is the one after i - 1 of them.
SortRoadmapTasks(S) ==
  [i \in 1..Cardinality(S) |-> CHOOSE x \in S : Cardinality({y \in S : Before(y, x)}) = i - 1]

DraftBecomes(s) ==
  /\ page' = [draft |-> s, sent |-> Nil]
  /\ UNCHANGED <<route, server, wire>>

\* addRoadmapTask: the number after the highest, and a random id.
AddRoadmapTask(t) ==
  LET next == Max({Draft[i].number : i \in DOMAIN Draft} \cup {0}) + 1
  IN /\ t \notin ToSet(Order(Draft)) /\ next <= MaxNumber
     /\ DraftBecomes(SortRoadmapTasks(ToSet(Draft)
                 \cup {[id |-> t, number |-> next, pinned |-> FALSE]}))

RemoveRoadmapTask(t) == DraftBecomes(Selected(Draft, {i \in DOMAIN Draft : Draft[i].id # t}))

\* replaceRoadmapTasks with a patch of one task.
PinTask(t) ==
  DraftBecomes(SortRoadmapTasks({IF x.id = t THEN [x EXCEPT !.pinned = ~@] ELSE x
                             : x \in ToSet(Draft)}))

\* reorderRoadmapTask: neighbours swap their numbers, and the list is sorted.
ReorderRoadmapTask(i, j) ==
  /\ {i, j} \subseteq DOMAIN Draft
  /\ DraftBecomes(SortRoadmapTasks(ToSet(
       [Draft EXCEPT ![i].number = Draft[j].number, ![j].number = Draft[i].number])))

-----------------------------------------------------------------------------
\* The backend reads the field order of a task, which the page does not send:
\* every order becomes 0, and the list is sorted by pin, order and id.
Persisted(s) == {[x EXCEPT !.number = 0] : x \in ToSet(s)}

\* The page takes the order it gets as the number.
SaveTasks ==
  /\ page' = [draft |-> SortRoadmapTasks(Persisted(Draft)), sent |-> Order(Draft)]
  /\ UNCHANGED <<route, server, wire>>

TasksNext ==
  \/ \E t \in TaskIds : AddRoadmapTask(t) \/ RemoveRoadmapTask(t) \/ PinTask(t)
  \/ \E i \in DOMAIN Draft : \E j \in {i - 1, i + 1} : ReorderRoadmapTask(i, j)
  \/ SaveTasks

-----------------------------------------------------------------------------
\* After any sequence of edits and saves, the pinned tasks come first, and
\* within the pinned and the other tasks the numbers do not decrease; so the
\* place of a task in the list is the one a reload would give it.
DraftInOrder ==
  route = "tasks" =>
    \A i, j \in DOMAIN Draft : i < j => Before(Draft[i], Draft[j])
=============================================================================
