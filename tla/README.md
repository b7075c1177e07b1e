# open-kraken: a verification project

open-kraken runs AI agents as schedulable resources. A *run* holds *flows*, a flow
holds *steps*; a step is the unit that a scheduler leases, gives to an agent
instance, executes and commits. The Go backend (`backend/go/internal`) keeps all
of that in PostgreSQL, leases steps through etcd (or through an in-memory table
in a single-process deployment), and serves chat, terminals, a task queue and a
realtime feed next to it.

A React front end (`src/web`) shows all of it and is where people act on it.

This directory holds TLA+ models of two halves of the system. One is the part
where a mistake costs most: the execution ledger, the dispatch loop over it, and
the step lease. The other is the front end, page by page, together with the part
of the backend each page talks to: answers that arrive in any order or not at
all, events that are lost or repeated, dialogs that are left with a request under
way, and others who change the same data. The models are checked with TLC and,
where a result should hold for every size of system, proved with TLAPS. Paths
below are relative to `src/backend/go/internal` for the backend and to
`src/web/src` for the front end, unless they start with `src/`.

## 1. The system

| Component | State it keeps | Operations | Speaks to | Hard because |
|---|---|---|---|---|
| Execution ledger, `ael` | tables runs, flows, steps, side_effects | T1 lease mirror and debit, T2 completion, T3 renewal, T4 expiry scan, inserts, cancel, retry rows, finalizers | PostgreSQL | many writers, no lock held across transactions |
| FlowScheduler, `flowscheduler` | in memory: the batch, the step in hand, a keepalive goroutine | tick, `dispatchStep`, `propagateTerminal`, expiry scan | ledger, lease, pool, executor | acts on rows read long ago; every call may fail, the process may die anywhere |
| Step lease, `stepLease` | key per step with a TTL; handles; watchers | Acquire, Keepalive, Release, Watch, expiry | etcd or timers | timers that fire late, handles that have gone stale |
| Agent pool, `runtime/instance` | instances with an FSM, mirrored to a table | Spawn, AcquireIdle, AssignStep, Complete, Terminate, recovery | scheduler, HTTP API | acquisition does not reserve; persistence is asynchronous |
| Task queue, `taskqueue` | tasks with state, attempts, timeouts | enqueue, claim, start, ack, nack, cancel, sweeps | HTTP API, events | read-check-write without a condition |
| Messages, `message` | messages, outbox rows with a claim lease | append, claim due, dispatch, mark sent or failed | terminals, realtime | at-least-once delivery, crash between dispatch and mark |
| Realtime hub, `realtime` | history ring, cursors, subscriber channels | publish, subscribe, replay, resync | web client | a blocking send under a mutex |
| Terminals, `session`, `terminal` | session actors, output buffers, dispatch queue | attach, input, resize, queue, poll | pty, provider CLIs | one command in flight, output interpreted by timing |
| Orchestrator, `orchestration` | none of its own | route a chat message to a terminal | message, terminal | ordering of what it forwards |
| Nodes and presence, `node`, `presence` | heartbeats, placements, statuses | register, heartbeat, sweep | agents on other machines | timeouts against late heartbeats |
| Arm selection, `cws` | arm statistics | Pick, Record | ledger (history) | floating-point scores, concurrent updates |
| LLM execution, `llmexec`, `provider`, `estimator`, `verifier` | none | execute, estimate, verify | providers | slow, failing, expensive |
| SEM, embedder, vector store | records pending / embedded / failed | create, embed, search | a vector store | an outbox of its own |
| Project data, settings, roster, skill, plugin, memory | JSON documents and rows | CRUD | HTTP API | optimistic versions |
| Accounts, authn, authz | tables and tokens | look-ups | HTTP API | - |
| HTTP API and server, `api`, `platform`, `src/backend/go/cmd/server` | rate-limit buckets | routing | everything | - |
| Front end, `src/web`: pages | the React state of the mounted page: what it loaded, what is typed, which dialog is open, what is busy | load, edit, submit, poll | HTTP, websocket | answers out of order, cells shared by handlers that overlap, lists that are stale when acted upon |
| Front end: tab | session, websocket and its timer, notices and toasts | sign in and out, connect, drop, reconnect | HTTP, websocket, localStorage | late events of old sockets, cursors, timers |

How they interact. A client inserts rows over HTTP
(`OpenRun`, `AddFlow`, `AddStep`) and an operator may move a run
(`TransitionRun`). Each server process runs one scheduler, and a deployment may
have several processes. A scheduler polls the pending rows and, row by row:
acquires the lease, possibly lets the selector choose an arm and writes it to
the row, takes an agent instance, mirrors the lease in the ledger and debits the
token estimate (T1), moves run and flow to running, marks the step running,
executes it while a goroutine renews lease and mirror (T3), commits the outcome
(T2), releases the lease, and then either appends a retry row or counts
siblings to finalize the flow and the run. A scanner (T4) puts rows whose
mirrored expiry has passed back to pending. Lease and ledger are two systems:
nothing makes a lease operation and a transaction atomic, and a step may be
terminal, pending or leased by somebody else when a scheduler comes back to it.

A browser tab has one page mounted and one websocket behind it. A page sends
requests when it is mounted, when its user acts, on timers and on events; the code
behind each `await` runs when the answer comes, against whatever the state of the
page is by then. The backend handles a request at some moment in between, mostly
under one mutex per handler (roster, conversations, approvals), sometimes with
separate reads and writes (task queue). Chat messages, notices and terminal
output reach the tab a second way, as events of the hub with a cursor.

What makes each modelled component correct:

- ledger: terminal states absorb (Lemma 5.1 of `ael/fsm.go`); effects, tokens and
  cost exist only with an outcome; budgets are kept; a step in somebody's hands
  can always be taken back; retry chains are well founded.
- scheduler: one executor per step, commits by the holder of the lease, outcomes
  written and billed once, a retry only of what has failed, parents finalized
  with a verdict their children bear out, runs always finalized in the end, no
  lease renewed for a step that is done with, no step lost by a crash.
- lease: who may conclude from its handle that it holds a step does hold it;
  releases are silent; a lapsed lease is cleared.
- task queue: a task that waits has no owner.
- documents: a save replaces the very document its draft was made from.
- settings: a save changes what it was made to change and keeps every other
  section, provider and key; approvals: one decision per server, and it is logged.
- chat: a message is on the screen once; terminals: output without a hole or a
  repetition; websocket: one connection or one timer that opens one.
- every page: nothing stays busy with nothing under way; nothing is submitted
  twice; cells that belong together agree.

`PROJECT.json` lists every hazard of the code that was found, each at its line,
with the properties that would catch it.

## 2. The modules

| Module | Models | Lines of its source |
|---|---|---|
| `ExecutionLedger` | `ael`: the tables and every transaction, issued by arbitrary callers | `ael/{fsm,tx,repository,service,model}.go`, `migrations/001,005` |
| `FlowScheduler` | a fleet of schedulers over that ledger and one lease table; EXTENDS `ExecutionLedger` | `flowscheduler/{loop,scheduler,retry,ledger}.go`, `stepLease/etcd.go` as used |
| `StepLease` | the in-memory lease, its timers and watchers | `stepLease/memory.go` |
| `AttemptChain` | abstract: what dispatch promises about one task | - |
| `ExclusiveLease` | abstract: what the `Lease` interface promises to its clients | `stepLease/lease.go` |
| `ExecutionLedger_proof` | theorems about `ExecutionLedger` | - |
| `FlowScheduler_proof` | theorems about `FlowScheduler`; EXTENDS the one above, whose lemmas it uses | - |
| `StepLease_proof` | theorems about `StepLease` | - |
| `MCLedger`, `MCFlowScheduler` | small instances for TLC; the runs of `StepLease` check that module itself | - |
| `WebTab` | one browser tab: the mounted page, the requests it has open, what a request may come to | `api/http-client.ts` |
| `TaskQueue`, `TaskMapPage`, `TaskCanvas` | the task queue; the controls of the task map; its canvas | `taskqueue/`, `pages/taskmap/TaskMapPage.tsx`, `api/taskqueue.ts` |
| `RoadmapPage`, `RoadmapViews` | the roadmap and project-data documents with both panels, the order of the draft; its list, map and board | `projectdata/repository.go`, `features/roadmap-project-data/`, `routes/roadmap-project-data.tsx` |
| `RunsPage` | the runs, and the detail of one with its dialogs | `pages/runs/RunsPage.tsx`, `api/v2/` |
| `DashboardPage`, `StatusModel` | the dashboard; which status an agent or node is shown with | `pages/dashboard/`, `shared/status-model.ts` |
| `TerminalPanel`, `TerminalSessions` | the output of a terminal; the list of shells | `features/terminal/terminal-store.ts`, `pages/terminal/`, `session/` |
| `SkillsPage`, `PluginsPage` | assignments, import and library of skills; plugins | `pages/skills/`, `pages/plugins/`, `skill/`, `plugin/` |
| `ChatStore`, `ChatPage`, `ChatComposer`, `ChatSidebar` | the store of the chat feature, with the conversations the others know too; messages; composer and attachments; the list | `pages/chat/ChatPage.tsx`, `features/chat/`, `api/http/handlers/conversation.go` |
| `RealtimeSocket`, `TabNotices` | the websocket with the hub's cursor and replay; notices and toasts | `app/providers/AppProviders.tsx`, `realtime/realtime-client.ts`, `realtime/service.go`, `state/notification-store.ts` |
| `MembersPage`, `TeamRoster` | the dialogs that create members; the roster with its teams and everything that shows it | `pages/members/`, `features/members/`, `api/http/handlers/roster.go` |
| `NodesPage` | the fleet of nodes | `pages/nodes/`, `state/nodesStore.ts`, `node/service.go` |
| `NamespacesPage`, `SystemPage`, `SettingsPage`, `LedgerPage`, `ApprovalsPage`, `SignIn` | the page each is named for; accounts and memory; settings and keys; the audit log; decisions; the session | `pages/*/`, `auth/`, `api/http/handlers/` |
| `WebPlan`, `WebTeam` | compositions: a tab that mounts any page of the one half or the other | `routes/index.tsx` |
| `WebTab_proof` | lemmas the three below share: bags of requests, chains of requests, filtered sequences, induction over the members of a finite set | - |
| `WebPlan_proof`, `WebTeam_proof` | theorems about `WebPlan` and `WebTeam`, page by page | - |
| `WebTeamCells_proof` | the cells of the pages of `WebTeam` that belong together; EXTENDS `WebTeam_proof` | - |
| `MCPlan`, `MCTeam` | small instances for TLC | - |

### ExecutionLedger

`runs`, `flows` and `steps` are functions from row identifiers to rows; a row that
has not been inserted is `"absent"`. One action is one database transaction or
one conditional UPDATE, which PostgreSQL makes atomic (T2 runs SERIALIZABLE,
T1 locks the rows it reads). Timestamps, tenants, output
references and reasons are left out; `lease_expires_at` is kept as none / live /
lapsed, because T4 only compares it with the clock. `runs.version` is kept, since
two writers compete on it; `flows.version` is a function of the state, since a
flow never moves to the state it is in. Amounts are natural numbers. T2 is
modelled as written: it subtracts `steps.tokens_used` from the run *after*
having overwritten that column (`Reconciled`). The table constraint
`chk_runs_budget` is part of T2 (`WithinBudget`): a report that would leave the
run over its budget aborts the transaction. `LedgerSpec` lets anybody call any
transaction at any time and caps nothing, so what is shown of it depends on no
caller and on no bound; `MCLedger` adds the caps TLC needs (`BoundedSpec`).

### FlowScheduler

`pc[n]` names the next call scheduler `n` makes that leaves the process. All
code between two such calls is in the action of the first; each call may
succeed, be refused by the state it finds, or fail (`Fault`; a T2 may also commit
and lose its answer). A failing `Spawn` ends in the same state as a failing T1, a
failing `Acquire` in that of a lease held by somebody else, except that the key may
have been put all the same. The errors of `Release` are dropped (`loop.go:74` to `:503`),
and a failing revoke leaves the key (`AbandonedBy`). `todo[n]` is the batch
of the tick with the rows as they were read, and `job[n]` the row in hand, so
everything the code decides from a stale copy is decided from a stale copy here.
`lease` is the key-value table of etcd: a key is free, a scheduler's, or an
`Orphan`'s: nobody renews it and the TTL runs, because its holder has died, its
revoke failed, or the answer of its acquisition was lost. `pulse[n]` is the keepalive
goroutine. `view[n]` is what the finalizer has read before it swaps.
`ListPendingSteps` orders by creation time; steps are numbered in that order.

Switches name what the environment may do: `LeaseLoss` (a lease ends under a live
holder, which `KeepaliveInterval = TTL/3` makes rare and not impossible),
`MirrorLoss` (T3 late or failing), `Refusals` (an instance taken from the pool
is terminated over HTTP before `AssignStep`), `OperatorMoves`, `Late` clients,
`MaxFaults`, `MaxCrashes`. A crash loses the memory of the process; it restarts
as an idle scheduler with the same name.

Not in the model: rewards, verification and metrics (they change no ledger
state), the tenant filter, and the watch events (only counted by the
code). The UCB choice is any arm or none. The executor returns any result.

### StepLease

One action per method of `MemoryLease`, which holds the mutex throughout, with
two exceptions that are split where the code unlocks: `expire` (delete, then
send) and the end of a watch (leave the list, then close the channel). A ticket
stands for the pointer in `Handle.opaque`. A timer is armed, then fires and
becomes a goroutine waiting for the mutex; `Stop` reaches an armed timer only,
and a goroutine knows its step but not its holder. So a late timer may
meet a holder that has been extended, released or replaced.

### The pages

`WebTab` holds what all pages share. `route` is the page that is mounted, `page` the
values of its `useState` and `useRef` cells as one record, `server` what the backend
holds of its subject, and `wire` the bag of open requests; two requests that ask
the same are two copies. JavaScript runs one task at a time, so a handler up to its
first `await`, and the code behind an `await` up to the next, are one action each:
the first sends (`Ask`), the second takes the answer off the wire (`Settled`). A
request is `sent` until the server has carried it out (`Reply`), then `ok` with what
the server read. `Ends(r, ok)` says how it may end for the page: successfully once
it was carried out; with a failure at any time, also after it was carried out,
since a timer or a lost connection hides what the server did. What a closure has
captured (filters, a conversation, a version) is a field of the request. A
dialog or tab that is unmounted with a request under way leaves it with
`live` set to FALSE where the code behind the `await` would still touch something.

Each page module has a state set (`...State`), what mounting does (`...Mounted`), one
action per handler, per code behind an `await` and per effect, the server's part
(`Serve...`), others who change the same data, and a disjunction (`...Next`). Two
pages are never mounted at once, so `WebPlan` and `WebTeam` compose them by
alternation: a tab opens any page on any first state of the backend and
stays on it. A page that is left takes its state along; what it left open still
reaches the server and then sets the state of a component that is gone, which
shows nowhere, so leaving is not modelled further. Files such as `ChatPage.tsx`
(1778 lines) hold parts that share no cell, and these are modules of their own
(messages, composer, list), each on a route of its own.

Where the view is a pure function of the state (filters, searches, expanded rows,
the words of a status) it is an operator, and the properties look at all of its
arguments at once instead of keeping them as state (`HeaderShown`, `VisibleNodes`,
`ListedConversations`, `ResolveAgentStatus`).

The server's part is the handler of the backend: one action where the handler holds
its mutex or makes one statement, two where it does not. `TaskMapPage` splits a
call on a task into the read with its check (`CallReads`) and the write of the whole
row (`CallWrites`); `TeamRoster` splits the creation of a member at the start of its
runtime; `ChatSidebar` splits the saving of a message from the update of its
conversation; `RoadmapPage` has the version check and the fallback file.
`RealtimeSocket` has the hub's ring of events, its cursors and the resync, and each
socket's frames on their way, of which a closed one delivers nothing more. The
store and the service of namespaces are not in the repository; `NamespacesPage`
models them from the way the page calls them (marked external).

### Abstract specifications

`AttemptChain`: a task is a sequence of attempts; the last one may be open, it
settles once and is billed in that same step; only a failed attempt is followed
by another, at most `MaxRetries` times. `FlowScheduler` implements it
(`ImplementsAttemptChain`) with the rows of a retry chain in the order of their
`retry_count` as attempts and the sum of `runs.cost_usd` as bill: pending, leased
and running, T1, T3, T4, leases and crashes are all stuttering steps of an open
attempt.

`ExclusiveLease`: clients hold claims with deadlines; a claim is granted or
extended only while no other client's claim on the step is good. `StepLease`
implements it with the handles clients hold (not the table the service keeps)
as claims.

## 3. The runs

TLC finds the action of every disjunct of the next-state relations firing in
one of the passing runs.

| Run | Instance | Shows |
|---|---|---|
| Ledger | 1 run, 1 flow, 2 steps, budget 2, estimates {0,1}, reports {1,3} | the five ledger properties, under arbitrary callers (the types of the tables are in the `TypeOK` of Fleet) |
| Fleet | 2 schedulers, 2 sibling steps, 1 retry, 1 crash, refusals, no failing calls | one executor, commits by the holder, outcomes frozen, billed once, the flow's verdict is borne out, also by a retry that comes after it |
| Live | 2 schedulers, 2 flows, 3 steps, fairness | the run always ends, with the verdict of its flows |
| CrashLive | 2 schedulers, a step submitted late, 2 retries, budget 2, 2 crashes, fairness | every step ends; `AttemptChain` is implemented; retries only of failed steps, one per step |
| Adverse | 2 schedulers, lease loss, mirror loss, 1 retry, 1 fault (a failing release is one), arm selection, budget 2, an operator who cancels the run | no lease is renewed for a step its scheduler is done with; every step of the fleet is a ledger transaction |
| StepLease | 1 step, 2 clients, 1 watcher, TTL 2, 7 ticks, 3 grants | the contract is implemented, releases are silent, lapsed leases are cleared |
| Plan | every page of `WebPlan`, 2 requests open at once | see below |
| Team | every page of `WebTeam`, 2 requests open at once, 3 sockets | see below |
| LostLease, BudgetFlow, Tokens, WatchEnd | the smallest instance that shows it | see section 5 |

The properties of Plan and Team:

| Property | Says |
|---|---|
| `TypeOK` | the cells of each page keep their types |
| `BusyMeansWaiting` (both) | a spinner or a disabled control always has a request under way that will end it: `controlBusy` of the task map is one cell for all controls, `acting` of the namespaces one for all rows, `closing` of the terminals one for all shells, the roadmap saves and loads two documents at once |
| `NoDoubleSubmit` (both) | no run, flow, step, skill, import, member, batch, team, assignment, account or decision is submitted a second time by the dialog that is sending it. For approvals also `DecidedOnce`: a server decides a request once at most and never one that it started with as decided, the decision it holds is in the audit log, and a decision the page shows is of the start or in that log, although others decide, answers get lost, entries are logged without a decision and the server restarts |
| `WaitingTasksUnheld` | a task that waits has no owner, with stale rows written back by overlapping calls, sweeps and other clients, who claim for any node id, the empty one included |
| `SaveReplacesItsBase` | a save that the repository accepts replaces the document its draft was made from |
| `DeltasFollowOn` | the output of a terminal has no hole and no repetition before a delta, through reattaching, replays and lost frames |
| `MapAddsNoCycle` | the dependency map never closes a cycle, however many dependencies are chosen at once |
| `ChatShowsOnce` | a message is on the screen once, though it comes as an answer, as an event and in a page of messages |
| `SocketKept` | one live socket at most, the one the tab would use, and always a socket or a timer |
| `InviteComplete` | "assistants added" is only said of a batch that was added completely |
| `SaveChangesItsOwn` | a settings save made from what the backend has stores every other section as it is and every other provider with its mode and key; only a key kept below another mode is dropped |
| `CellsAgree` (both) | what each page promises about cells that several handlers write. Plan: edges of the canvas have both ends, one node acts on one task and its scope is a step that is there, the draft is in order, map and list agree on what is blocked, the steps shown and the definition selected exist, the figures of the dashboard add up. Team: a file is attached once, the highlighted choice is in its menu, every conversation that passes the filter is listed once and in the order of the list, the notices are the latest and toasts end, every member is in the teams the roster says, a filter by member is one of its team, the session held is the one stored |
| `ListsShownWhole` | what is shown as lists, groups and figures has every row: each member by role once and by team as often as the groups have it; on the terminal page each shell one row, and a member without a shell as many as the teams list it, all in one group, and the groups add up to the totals; the fleet in all of its views |

Why the bounds are enough to be interesting. Two schedulers are the least that
race, and every race found in the code is between two; a third would only wait.
Two sibling steps are the least for which a finalizer may count too early, or
between a failure and its one retry, which takes the third row of Fleet, and
the third step in a second flow makes the same true of runs. A budget of 2 with
reports of 3 makes T2 abort and T1 refuse in the same behaviour. In StepLease
three grants allow a re-acquisition by each client while an old timer and an old
handle are both outstanding. In Plan and Team two open requests are the least
that overtake each other, and a mutation followed by a reload already makes two; the
dashboard, which sends three at once, has three (`MaxLoads`), and three sockets let
a third be opened while two late ones have still to report (`MaxSockets`). Two files,
shells, definitions, plugins, conversations or messages are the least that can be
mistaken for each other; two assistants but one skill for a binding that is
replaced; two sections, two providers and two saves (`MaxSaves`) for one that undoes
another; two members of which a team may list one twice (`MaxListed`), and two teams
that may share them; three requests of which the server starts with one decided; three
tasks for a cycle that closes through a third; four
conversations where each key of the order decides between two of them; two
preview items with four conversations so that one falls off the notices. One task
and one node suffice for the queue, whose rows do not meet, since the theorem
covers any number, as do those of the other pages (section 4). `MaxWrites`,
`MaxPosts`, `MaxClock`, `MaxOut`,
`MaxPublished`, `MaxEvents`, `MaxMessages`, `MaxInbox`, `MaxCalls`, `MaxLog`,
`MaxLocal`, `MaxDrawn`, `MaxNumber` and `MaxTasks` cap what only grows. The ring of the hub
holds two of three events, so a cursor can fall out of it. Messages of the chat
are symmetric. Counters that only grow are capped in `MCLedger` (`MaxVersion`, `MaxBill`,
`MaxUsed`): its `BoundedSpec` cuts behaviours of `LedgerSpec` short. A fleet ends
by itself once its rows are used up; only operators need a limit, and stop
asking at `MaxVersion` of `FlowScheduler`.
`CHECK_DEADLOCK FALSE` is set where the system may rest: a fleet with nothing
pending, a lease table whose clock has reached its bound, or a page whose user has
used up what the bounds allow. The ledger run
checks deadlock. Schedulers are symmetric in the runs without liveness.

Fairness (`FairSpec`). `Dispatch(n)` is weakly fair: a goroutine that can take a
step takes it; every call has a timeout. `ExpiryScan(n)` is strongly fair: it
and the tick are cases of one Go `select`, which picks among ready cases at
random, so a scanner that is ready again and again gets its turn. The clock is
fair where the code needs it: the TTL of a dead holder's lease runs out, and the
mirror of a lease nobody renews lapses. Clients, operators, crashes, faults and
the loss of a live lease owe nothing. In StepLease only timers and their
goroutines are fair. The pages have no fairness: a request need not end, since those
of `api/v2` have no timer at all and the timer of `http-client.ts` stops once the
headers are in (line 175), so `BusyMeansWaiting` says what can be said, that
something is under way.

Properties. Every property of a passing run is paired with a mutant: a plausible
bug in one definition (marked `Mutant` in the modules) under which TLC finds the
property violated in the same run.

## 4. The proofs

### The ledger

`ExecutionLedger_proof` proves about `LedgerSpec`, for all sets of rows, arms and
effects and all budgets and amounts:

| Theorem | Property |
|---|---|
| `TypeCorrect` | `LedgerTypeOK` |
| `AlwaysRecoverable` | `RecoverableByT4` |
| `EffectsOnlyWithOutcome` | `EffectsNeedOutcome` |
| `NeverOverBudget` | `BudgetRespected` |
| `TerminalStatesAbsorb` | `TerminalAbsorbing` |
| `RetryChainsWellFounded` | `ChainsWellFounded` |

Assumptions: `RowsAssumption` and `AmountAssumption`, which TLC evaluates in
every run of a module that extends the ledger. They say that each flow has a
run, that the null values are no rows, and that amounts are natural numbers.

Argument. The type invariant is not inductive alone: T1, T2 and the retry follow
the foreign keys of a step, so the proof strengthens it to
`Sound == LedgerTypeOK /\ Linked`, where `Linked` says that the flow and run of a
step and the run of a flow are rows (the REFERENCES clauses of the migrations).
`InitSound`, `NextSound` and `AlwaysSound` establish `[]Sound`. Each further
invariant is then preserved step by step, with one lemma per kind of column
(`StepState`, `StepMirror`, `StepOutcome`, `StepArm`, `StepBackToPool`) that says
what a write leaves alone. `BudgetRespected` needs that T1 refuses what the run
cannot afford and that T2 is aborted by the table constraint; neither suffices.
`EffectsNeedOutcome` needs the FSM: only T2 writes effects, it ends in a
terminal state, and no transaction leaves one. `TerminalAbsorbing` is an action
property: `Sound` and a step of `LedgerNext` imply `TerminalKept`; the
bulk update of T4 and the legal from = to moves are its interesting cases.

### The fleet

`FlowScheduler_proof` proves about `Spec` of `FlowScheduler`, for any number of
schedulers, steps and flows, any batch size, and any number of crashes and faults (in
addition to the assumption in the second column, and `SchedulerAssumption`):

| Theorem | Assumes | Property |
|---|---|---|
| `ImplementsLedger` | - | `LedgerSpec` |
| `FleetTypeCorrect` | - | `TypeOK` |
| `LeasesNotLeaked` | - | `NoLeakedLease` |
| `OneExecutorPerStep` | `LeaseLoss = FALSE` | `OneExecutor` |
| `HolderCommits` | `LeaseLoss = FALSE` | `CommitByHolder` |
| `OutcomesFrozen` | `LeaseLoss = FALSE` | `OutcomeFrozen` |
| `RunVerdictsStand` | `OperatorMoves = {}` | `RunVerdictStands` |
| `FlowVerdictsStand` | `Late = {}`, and either `MaxRetries = 0` or `LeaseLoss = FALSE`, `MirrorLoss = FALSE`, `MaxFaults = 0` | `FlowVerdictStands` |
| `StepsBilledOnce` | `LeaseLoss = FALSE`, `Steps` finite | `BilledOnce` |
| `RetriesFollowFailures` | `LeaseLoss = FALSE`, `MirrorLoss = FALSE`, `MaxFaults = 0` | `RetryOfFailed` |
| `ImplementsChain` | the same, `Steps` and `Runs` finite | `ImplementsAttemptChain` |

The assumptions are needed: run LostLease refutes the conclusion of `HolderCommits`
without its assumption; a step submitted to a flow that has finished refutes
`FlowVerdictStands`, as does the retry of a step that has not failed, which the last
three exclude; and an operator who cancels a run refutes `RunVerdictStands`. A second execution under a lost lease bills a step again.
`RetriesFollowFailures` excludes faults because `handleExecutorFailure` drops the error
of its T2 and goes on to `RecordFailure` with a step that has not failed, and late
mirrors because T4 may then return the row to the pool before that T2, which refuses it,
with the same end (section 5). Crashes are allowed in both. `ImplementsChain` speaks of
retries and of bills and needs what these two need.

Argument. `FleetSound == Sound /\ FleetTypeOK /\ Attached` is inductive; `Attached` says
that a scheduler past the tick has a row of the ledger in hand, and that keepalive
goroutines belong to such schedulers. From it `LedgerStep` shows that every step of a
fleet is a ledger transaction or leaves the tables alone. This is `ImplementsLedger`,
which carries the six theorems of the ledger over to the fleet. Most of the twenty
actions of a dispatch do the same thing to leases and locals: lemma `EveryDispatch` sums
them up as `Hop` (one stage further, the same step in hand, no lease touched), with
Tick, Acquire, Release and Finish apart, and `EveryStep` sums up the rest (`Still`). The
proofs about leases argue about these few cases. For `LeasesNotLeaked`, `Tended` says
that a key that is a scheduler's is that of the step it has in hand: each way out of a
dispatch frees it or leaves it to the TTL, and ends the keepalive, whether or not the
revoke succeeds. `Held` says that from Acquire to
Release the lease is the scheduler's; two executors of one step would be one scheduler.
For `OutcomesFrozen`, `Unsettled` says that between T1 and T2 the step in hand has no
outcome: by `OneOutcome` only a T2 or a cancellation ends a step, both are made by its
holder, and both leave these stages. The two verdicts rest on one observation: the
finalizer counts, reads and swaps in three steps, and what it has counted
(`RunCountStands`, `FlowCountStands`) stays true in between because children that are
all terminal do not change and no child is added, but for retries. So what a verdict on a
flow says is `Founded`: other than failed, all its leaves are terminal and give that
verdict; failed, a step of it has failed and all that is open are retries. `FailedAndAlone`
says that a scheduler about to insert a retry has a failed step without one in hand. Such a
step is a leaf and gives its flow no other verdict than failed (`FoundedStays`), so a retry
never comes below a flow that succeeded or was cancelled, also while another scheduler is
between its count and its swap. `FailedAndAlone` follows from what `RetriesFollowFailures`
rests on, and is empty without retries.

`StepsBilledOnce`: `BilledOnce` compares `runs.cost_usd` with a sum over the steps of
the run. With `FleetSound`, `Unsettled` and `EffectsNeedOutcome` it is inductive: a step
of the fleet either leaves the bills alone (`Unbilled`) or is the T2 of a step in hand
(`Billed`), which has no outcome yet and so has cost nothing. The sum then changes by
the cost of that one step (`SumBilled`) or not at all (`SumKept`); the lemmas on sums
say what `MapThenSumSet` returns for a finite set with one member replaced, with an
equal function, and with zeros.

`RetriesFollowFailures`: `RetryDue` says that a scheduler on its way from a failure to
the retry, through the release of the lease, has a failed step in hand that no row
retries yet, and that no other scheduler is on the same way. That the T2 before it did
end the step needs `InHand` (the row is leased or running and its mirror live while it
is dispatched), `Unanswered` (there is a result only after the executor has answered),
and `BudgetRespected` (a T2 that reports nothing is not aborted). A crash between the T2
and the insert loses the retry and harms neither claim.

`ImplementsChain`, the refinement of `AttemptChain`, has three parts. *What a step does*:
`EveryStep` is summed up once more, as what the abstract specification can see of it. A
step of a fleet leaves the state of every row open, or succeeded, or failed, as it was
(`Unmoved`), settles one row and bills it, or adds one row, submitted by a client or as the
retry of a failed one. *What the rows look like*: `Root`, the original step of a retry, is
defined by recursion along `retry_of`, and `ChainsSound` says that `retry_count` falls
along it and that no two rows retry the same one. Then the recursion is
well founded, so `Root` exists (`RootLeads`) and is kept by every step, and the attempts
of a task have the numbers from 0 on, one row each (`OneOfEach`, `AllNumbers`). *How they meet*: the sequence that
`AttemptStates` reads off the rows has one entry per number (`Lines`), so a task whose rows
stay shows what it showed, a settled row changes the last entry, since what follows a row in a
chain has failed before, and a retry appends one. The bill is the sum of `StepsBilledOnce`.

### The step lease

`StepLease_proof` proves about `Spec` of `StepLease`, for any steps, clients, watchers,
TTL and channel capacity (`LeaseAssumption`, `NullAssumption`):

| Theorem | Property |
|---|---|
| `LeaseTypeCorrect` | `TypeOK` |
| `BelieversHold` | `BelieverHolds` |
| `ReleaseIsSilent` | `SilentRelease` |
| `ImplementsExclusiveLease` | `ImplementsContract` |

Argument. `BelieverHolds` is not inductive: a Keepalive must extend the holder and the
handle alike. `LeaseSound` adds `Matched` (a ticket is given to one client for one step,
and while table and handle agree on the ticket they agree on the deadline) and `Emptied`
(a closed table is empty). The refinement then maps Acquire to Grant, Keepalive to
Extend, Release to GiveUp, Clock to Pass, and timers, expiry, watchers and Close to
stuttering: the table has lapsed for everybody before anything is removed from it.

### The pages

`WebPlan_proof` and `WebTeam_proof` prove about `Spec` of `WebPlan` and `WebTeam`, a tab
that opens any page on any first state of the backend, for any sets of tasks, documents,
runs, conversations, sockets, members, keys and so on, and any number of requests open
at once:

| Theorem | Module | Property |
|---|---|---|
| `PlanInvariant` | `WebPlan_proof` | `PlanInv`, which the next seven rest on |
| `WaitingTasksStayUnheld` | `WebPlan_proof` | `WaitingTasksUnheld` |
| `NoWriteIsLost` | `WebPlan_proof` | `SaveReplacesItsBase` |
| `MapStaysAcyclic` | `WebPlan_proof` | `MapAddsNoCycle` |
| `NoPlanPageHangs` | `WebPlan_proof` | `BusyMeansWaiting` of `WebPlan` |
| `NoPlanPageSubmitsTwice` | `WebPlan_proof` | `NoDoubleSubmit` of `WebPlan` |
| `OutputFollowsOn` | `WebPlan_proof` | `DeltasFollowOn` |
| `PlanCellsAgree` | `WebPlan_proof` | `CellsAgree` of `WebPlan`, for finite sets of agents and nodes |
| `TeamInvariant` | `WebTeam_proof` | `TeamInv`, which the next seven rest on |
| `OneConnection` | `WebTeam_proof` | `SocketKept` |
| `MessagesShownOnce` | `WebTeam_proof` | `ChatShowsOnce` |
| `BatchIsInvited` | `WebTeam_proof` | `InviteComplete` |
| `SavesAreSparing` | `WebTeam_proof` | `SaveChangesItsOwn` |
| `NoTeamPageHangs` | `WebTeam_proof` | `BusyMeansWaiting` of `WebTeam` |
| `NoTeamPageSubmitsTwice` | `WebTeam_proof` | `NoDoubleSubmit` of `WebTeam` |
| `TeamCellsAgree` | `WebTeamCells_proof` | `CellsAgree` of `WebTeam` |

Assumptions. The null value is no document, no socket, no agent, no host, no settings,
no decision, no namespace action, no menu and no account (`RoadmapAssumption`,
`SocketAssumption`, `AgentsAssumption`, `HostAssumption`, `ApprovalsAssumption`,
`NamespacesAssumption`, `SettingsAssumption`, `CandidatesAssumption`, `SignInAssumption`);
what is selected first exists (`FirstConvAssumption`, `DefaultTeamAssumption`,
`FirstAssistantAssumption`); what the backend starts with is of the kind it keeps
(`FirstFlowsAssumption`, `FirstFleetAssumption`, `FirstRolesAssumption`), each conversation
once and of a type and with a count that exist (`FirstRoomsAssumption`,
`RoomOfAssumption`), and every member of the first roster is in a team
(`FirstTeamsAssumption`), as `ensureDefaultTeam` of `roster.go` leaves it; the settings of the
start are settings (`FirstSettingsAssumption`); numbers of versions, tasks, clocks, menus and limits are natural
numbers (`TasksAssumption`, `CanvasAssumption`, `NoticesAssumption`, `RosterAssumption`). TLC evaluates all of
them in the runs Plan and Team. Nothing is assumed of the order of answers, of failures, or
of how often anything happens. `PlanCellsAgree` counts agents and nodes and so needs
finitely many of each.

Layout. `PlanInv` and `TeamInv` are conjunctions of one invariant per page, each under
its route. A step of the tab is a step of the page that is mounted, opens a page, or
follows a link (lemmas on routes at the head of each module), so the invariant of a page
is shown twice: its mounting starts it (`...Start`) and its own steps keep it
(`...Kept`), with a lemma per action or kind of action. The properties follow from the
invariants. What `CellsAgree` needs beyond that is in `CellsInv` and `TeamCellsInv`, laid
out alike; that they are inductive uses `PlanInv` and `TeamInv`.

Why the properties are not inductive, and what the invariants add:

- *Waiting and submitting.* `BusyMeansWaiting` relates a cell to the open requests, and
  a step that takes an answer off the wire must know that it was the last one of its
  kind, or that the cell is cleared. Two patterns cover most pages. Where a cell is one
  flag for many requests, the flag implies a request and the code behind the `await`
  clears it, so only requests that leave the flag alone matter. Where a dialog sends one
  request after the other (`createFlow` then `listRunFlows`, the members of a batch, a
  save and the list after it), the requests form a *chain*: at most one is open
  (`OneAtMost`), it is there if and only if the cell says so, and an answer either ends
  the chain or sends its successor (`ChainAsk`, `ChainFollow`, `ChainReply` in
  `WebTab_proof`). Because two requests that ask the same are two copies in a bag, "at
  most one" is about copies as well as members. Nodes have one chain per agent and one
  for the registration; members one per dialog.
- *A request nobody waits for.* A dialog that is closed, or a tab that is left, leaves
  its request with `live = FALSE`. Such a request belongs to no chain; lemmas on
  `Detached` and `Become` show that relabelling merges no two requests that matter.
- *Documents* (`RoadmapInv`). `HeldKnown` says of every document that a panel shows or a
  request carries that its version is not ahead of the repository, and that it is the
  repository's own when the version is the same (`Known`). It holds until an answer has
  come from the fallback file, as the property does; after that the versions say nothing
  (section 5).
- *The queue* (`MapInv`). The rows alone are not inductive, because a call writes a row
  made of what it read earlier; added are that the row each half-finished call carries
  passed the check of that call and has no owner if it waits, whatever the queue holds
  by then. That the owner is the one the page believes in, that a claimed task has one, or
  that a terminal task stays terminal, is not claimed: all three fail (section 5).
- *The dependency map* (`MapStaysAcyclic`). What the map may choose as a dependency of a
  task excludes every task from which that one can be reached (`CreatesCycle`). Each
  choice is excluded against the tasks as they were drawn while several are saved at
  once, which is safe because all new edges leave one task: a cycle would return to it
  through an old path from one of the choices (`ChosenDependencies`), and fewer
  dependencies never reach further (`FewerDependencies`, `ReachShrinks`). The other
  edits of the map give no task a dependency.
- *The chat* (`ChatInv`). `LogsKept`: the backend's logs have each message once, and
  events tell only of logged ones. `SendsKept`: a message is sent by one open request at
  most, which is not logged before and is logged after the backend has carried it out,
  and every list on its way has no repetition. `ScreenKept`: the screen has none either
  and shows as saved only what is logged. `ChatWaits`: what is shown as being sent has
  its request. The event of a message may arrive before or after the answer of its send;
  whichever comes
  second finds the entry of the first by the message and leaves one.
- *The websocket* (`SocketInv`). A socket keeps its number through all that happens to
  it and no two have the same; all that are not closing are the current one; there is a
  current one or a timer.
- *Members* (`MembersInv`). The members a batch asked for are, at each request of its
  chain, in the roster, the one being created, or still to come; the list after the
  batch names only those in the roster.
- *Settings* (`SettingsInv`). A save made from what the backend has (`current`) differs
  from it in one section or for one provider (`Sparing`), and sends every other key as
  untyped, which `mergeProviderAuth` reads as the one that is stored; so what the handler
  has made of it, and has still to write, keeps the rest (`KeepsRest`). Another save that
  is written takes the mark `current` away, also between the read and the write.
- *Approvals* (`ApprovalsInv`). The entries of the process are those of the requests it has
  decided, one each, and a decision in a list, shown or on its way, is of the start or in
  the log (`Agrees`), which only grows: a restart moves its entries to those of nobody.
- *The terminal* (`PanelInv`). While the last chunk on the screen was taken by its number,
  `lastSeq` is that number (`InOrder`). `DeltasFollowOn` alone does not say so, and a delta
  is compared with `lastSeq` only. Snapshots with and without a number, clearing, attaching
  and the filter of the relay each restore it or leave the screen alone.
- *Steps, definitions, fleet* (`StepsInv`, `DefsInv`, `FleetInv`). What is shown comes out
  of an answer, so the invariants say of every answer on its way what the property says of
  the screen: its steps are steps of the flow it was asked for, its definitions are
  on the server. Nothing is ever removed there, so an old answer does no harm. The figures of
  the dashboard then compare sets of known agents and nodes, by cardinality.
- *The canvas* (`CanvasInv`). It is drawn anew from tasks, steps and scope whenever one of
  them changes, and edited in between. The chains that join the tasks of a step have both
  ends drawn (`ChainWithin`), what the user draws joins nodes that are drawn, and deleting a
  node deletes its edges.
- *The draft* (`DraftInv`). The roadmap is in the order of pins, then numbers, then ids;
  each edit sorts again. That a rank exists for every task of a sequence
  is an argument about finite sets (`GreatestExists`).
- *The composer* (`MenusInv`, `FilesInv`). A picked file is in exactly one place: in a loop
  that has it still to read or has read it (the files of two loops are disjoint), in the
  draft, in one message on its way, or posted. `AttachedOnce` says so; the invariant adds which
  files were picked, so that a new one has no place yet, and that a failing send, a removal
  and a switch of the conversation, which move files between places, leave no copy behind.
- *The list of conversations* (`SidebarInv`). The items hold each conversation once, and so
  do the lists and the new conversations that are still on their way. What is shown is
  sorted (`ArrangedIs`: the order is total and stable, so each place has one item) and then
  split; the second section leaves out what the first one has, by its ids, and so has
  nothing pinned and nothing unread, which is what orders the two against each other.
- *The notices* (`NoticesInv`). `Naming`: each item is a conversation with the time of its
  last event, and a conversation that is not shown had its event before all that are, of
  which there are then as many as fit. It holds across the update, the sort (`Precedes` is
  a strict order and equal times keep their places) and the cut, by one lemma each.
  `ToastsInv`: the one toast without a timer is that of the summary, which is read once.
- *The roster* (`RosterInv`). A member is in a team, or is one of those that a deleted or
  replaced team list, or the lack of any team, has left in none (`stray`, section 5). The groups that the pages
  show are then read off the teams: `PlacedIsShown` follows a member through
  `expandTeamsResponse` and `normalizeTeamsAndMembers`.
- *The session* (`SessionInv`). The session is the stored one while signed in, there is none
  otherwise, and nothing is stored once signed out; at most one login is under way, and it
  ends in the account it was asked for.

Proving changed the model in a few places. `RosterLoaded` of `MembersPage` was a CASE
whose guards overlapped, so that a definition chosen for TLC's first match said nothing
to the provers; its guards now exclude each other as the early returns of the code do.
`ChatPage.Used` was written `UNION A \cup B`, which the tools read in two ways; it is
parenthesized. `SelectSeq` is opaque to the provers, so pages that filter a list use
`Selected` of `WebTab`, whose lemmas are in `WebTab_proof`; the sorts of the notices, the
conversations and the roadmap are stated by the place each item takes (`Sorted`,
`Arranged`, `SortRoadmapTasks`) instead of with `SortSeq`, and the unread total is a recursive function (`TotalUnread`) in
place of a fold.

Induction. The library's induction theorems take an operator as a parameter and cannot
be used here. `SetInduction` says the same of a set of natural numbers; it follows from
the well-foundedness of their order, which the library states without such a parameter.
With it the sums of `FlowScheduler_proof` and the filtered sequences of `WebTab_proof`
are treated by the length of what is summed or filtered.

### What is only model-checked

- The liveness properties (`RunsSettle`, `StepsSettle`, `LapseCleared`), since fairness
  and ENABLED are out of the provers' reach.
- `ListsShownWhole`: sums over groups, filters applied to filters, and lists flattened into
  one another, each computed from the data by folds. What they return for every input is an
  induction over data. The rows they are computed from are those of `RosterInv`,
  and of `NodesInv` as far as it goes.
- `TypeOK` of `WebPlan` and `WebTeam`. The invariants contain the types the other theorems
  need. Its first conjunct bounds the bag of open requests by `MaxOpen`, a bound of the
  model and not of the code, on which no proof rests.

`TokensReconciled`, `FlowsSettle` and `NoSendAfterClose` are violated (section 5).

## 5. Where the code and its documents disagree

Each of these has a run in which TLC finds the counterexample.

- **LostLease.** `stepLease/lease.go:14-15`: "The holder must abort execution
  immediately and must not commit T2." The keepalive goroutine learns that
  the lease has gone (`flowscheduler/loop.go:447-456`), logs it and returns;
  `dispatchStep` goes on to T2.
- **BudgetFlow.** `ael/service.go:232-233`: a flow is finalized "when every Step
  under it is terminal". The budget path of `dispatchStep`
  (`flowscheduler/loop.go:92-103`) cancels the step and returns without
  propagating; if it was the last one the flow stays open.
- **Tokens.** `flowscheduler/executor.go:25-26`: reported tokens "reconcile the
  Run's tokens_used debit". T2 overwrites `steps.tokens_used` before it reads it
  back (`ael/tx.go:162-201`), and the estimate of T1 was never in that column, so
  the estimate is not given back.
- **WatchEnd.** `stepLease/memory.go:158-166` sends events after unlocking, while
  the end of a watch closes the channel (`:123`): a send on a closed channel,
  which panics.

Seen while modelling and not kept as runs, in the backend:

- between the T2 that fails a step and the insert of its retry, two transactions, a
  sibling's scheduler may count and finalize the flow as failed, and the retry then
  runs under it, although `flowscheduler/loop.go:401-402` has the caller skip propagation
  "so the still-pending retry keeps the Flow alive". `FlowVerdictStands` admits this one
  case, which Fleet reaches, and excludes every other;
- a release that fails is neither logged nor repeated (`flowscheduler/loop.go:105` and ten
  more), so the step, if T4 returns it, waits until the TTL of the key has run out;
- a second T2 of a terminal step is legal (`ael/fsm.go:132` accepts from = to),
  rewrites tokens and output and bills again, which takes a lost lease and two
  executions: `OutcomeFrozen` and `BilledOnce` fail once `LeaseLoss` is TRUE;
- `handleExecutorFailure` (`flowscheduler/loop.go:390`) drops the error of the T2
  and retries a step that is still running: `RetryOfFailed` fails with one fault;
- an `EnsureFlowRunning` that fails is never repeated once the step has
  succeeded, and a pending flow has no legal move to succeeded;
- the pending steps of a cancelled run are still executed;
- a lease that lapses and is re-acquired before its timer runs is never
  announced to watchers (`stepLease/memory.go:42-55`);
- a crash or a lost answer after T2 leaves the flow open: only the scheduler
  that ends a step finalizes its parents;
- calls on the task queue overwrite each other (`taskqueue/service.go:113-284`): a task
  that was cancelled may be running again, attempts may exceed their limit, and Nack
  looks at the owner alone, so a terminal task may become retrying although
  `taskqueue/model.go:116-118` gives terminal states no successor;
- `ClaimByID` takes any node id, the empty one included (`taskqueue/service.go:113`): the
  task is then claimed and has no owner, and a start from the page, for the node chosen
  there, is refused;
- approvals are in memory and their audit log is not (`api/http/handlers/approval.go:19`,
  `:40-43`): after a restart a request is decided again, possibly the other way, and both
  decisions are in the log; the requests it starts with as decided (`:177-178`) have no
  entry; an entry whose decision was not stored stays (`:131-139`);
- the settings handler reads and writes under separate locks (`settings.go:61`, `:67`), so
  of two saves that overlap there the later write brings back what the earlier replaced, a
  key that was just stored included; sections that a body leaves out become zero, sounds
  off among them, though `Get` starts with sounds on (`settings/service.go:61`);
- `message/outbox.go` marks a failed delivery failed (180), which `ClaimDue` (118) never
  selects, so the retry the row schedules does not happen;
- `realtime/service.go:58` sends on a bounded channel under the hub's mutex; and a
  relay is stopped before its successor subscribes (`api/http/handlers/realtime.go:53`),
  which loses the events in between;
- `api/http/handlers/roster.go`: a member whose team is deleted while it is being created
  goes to the first team (`:591`); one whose team is deleted later, whose team list is
  replaced, or for whom there is no team at all vanishes from every page (`TeamRoster`
  counts it as stray); a team takes its list as given, duplicates and members of other
  teams included (`:673`, `:708`); a write that cannot be persisted answers 500 and stays in
  memory;
- `readDocument` of `projectdata/repository.go:110-122` takes a file that cannot be read for
  one that is not there (not modelled).

And in the front end. Each is what the code does, and the module of the page does the
same, so the properties above hold in spite of it:

- *The older answer wins.* Loads overlap (mount, poll, event, after a change) and the last
  answer to arrive is shown: runs, audit log, dashboard, nodes, plugins, members,
  terminals, memory, namespaces, roadmap canvas.
- *One flag, several handlers.* `controlBusy`, `acting`, `closingSession`, `userBusy` and
  `memoryLoading` are cleared by the first that ends while another is under way; the
  buttons of plugins, of adding tasks and of creating shells look at no flag, so a
  double click acts twice (`pages/terminal/TerminalPage.tsx:437-472` may open two shells
  of one member).
- *Dialogs left with a request under way.* Escape closes a waiting dialog; opened again, its
  flag is fresh and it may send a second time, and the first answer closes it
  (`RunsPage.tsx`, `NamespacesPage.tsx:640-643`). The dialogs of `MembersPage.tsx` stay
  mounted, so their `loading` persists and forbids that; the first answer closes them too. A `listRunFlows` that
  fails after `createFlow` (`RunsPage.tsx:424`) invites a second flow.
- *A failure read as nothing.* A failed member-skills request counts as no skills and a
  save then replaces what was there (`SkillsPage.tsx:868`); failed settings count as empty
  (`MembersPage.tsx:1470`), and a save before the first load of the settings sends its own
  section or provider alone, so the other sections become zero and the other providers go
  (`SettingsPage.tsx:181`). A save made after an older answer undoes the saves in between,
  and any save drops a key that is kept below a mode other than `api_key`
  (`api/http/handlers/settings.go:98-102`).
- *The wrong subject.* After a switch of the memory scope the old entries are shown and
  Delete acts on the new scope (`SystemPage.tsx:177-187`); a draft and a file still being
  read follow the user to another conversation; a failed send loses both.
- *Realtime.* Attaching does not reset the output (`docs/backend/realtime-contract.md:96`), a
  snapshot without a sequence leaves the panel's number behind
  (`pages/terminal/terminal-runtime.ts:177`), the handshake cursor skips the backlog
  (`docs/backend/realtime-contract.md:139`), a resync the server asks for is ignored but for
  the terminal, and node events have no family and never arrive.
- *One member, several rows.* The terminal page makes a row of every entry of the roster,
  which `member-page-model.ts:220-226` flattens from the teams, so a member without a shell
  that is in two teams, or listed twice, is shown twice, in the group of its first team and
  under the same React key (`TerminalPage.tsx:299-312`).
- *Views that differ.* The roadmap's list looks at no cycle where its map does
  (`RoadmapTaskCard.tsx:174-190`), and a deleted dependency blocks in the map and not in the list;
  the row of an agent on the nodes page is busy by its tasks and its detail by
  `resolveAgentStatus`; a node of unlimited size counts as four places in the header.
- *Documents.* The order field of a roadmap task is not kept
  (`docs/persistence/roadmap-project-data.md:82`), and the fallback file may answer with an
  older version (`:22`). `status-model.ts:49-56` calls the runtime authoritative, while a
  terminal in error wins.

## 6. What is not modelled

Partly modelled, with the rest left out:

- *Ledger*: an abort of a SERIALIZABLE transaction (`40001`) is a failing call, and so
  appears only where `MaxFaults` admits one; CrashLive, Live and Fleet have none.
- *Session*: `SignIn` is one tab; the storage it keeps its session in is shared by all tabs
  of the browser (`auth/auth-store.ts`).
- *Roster and dialogs*: the deletion of a member by another client is in `TeamRoster` and not in
  what `MembersPage` has of the server.
- *Task queue*: attempts, priorities, the choice of `ClaimNext`, idempotency keys, and
  the agent a claim takes.
- *Hub*: its mutex and the bounded channels of subscribers, so neither the deadlock of
  `Publish` nor the eviction of slow readers.
- *Message outbox*: the claims with their lease, dispatch, mark sent or failed; the chat
  only sees that a delivery may fail later.
- *Terminals*: the queue of commands, buffering of input, text filters and what is
  concluded from the output.
- *Agent pool*: the FSM of an instance, `AcquireIdle` that does not reserve, the persistence
  behind the mutex; a scheduler only sees an assignment accepted or refused.
- *Nodes and presence*: heartbeats and sweeps; the pages take any status at any time.
- *Pages*: texts, layouts, positions, dates, costs, charts, and fields that only filter what
  is shown; where a module leaves out a cell, its header says so.

Left out for good: translations, theme, shared widgets and static pages (account,
artifacts, repositories, workspaces), deployment, the migration importer, the CLI and node
agent (process I/O), DTOs and routing, text heuristics on terminal output,
authentication tokens, external providers and stores, floating-point scores as numbers.

Worth doing next: the agent pool composed with the fleet in place of `Refusals`; the
outbox with its claims; the hub with its channels; the figures and groups of
`ListsShownWhole`, of which single parts (the views of the fleet, the groups of the shells)
need no more than lemmas on filtered sequences.
