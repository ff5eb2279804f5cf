# Working Memory: a verification project

Working Memory keeps the context of long-running work (workstreams, topics,
agents, notes, messages between agents) as documents of a local database that
people and agents share. One daemon, the *control plane*, owns the database and
serves it over HTTP and MCP; desktops, agents and host-task runners are its
clients. This directory holds TLA+ models of the parts of that system in which
order, failure and time decide whether it is correct, the TLC configurations
that check them, and theorems about them checked by TLAPS.

Paths below are relative to the repository.

## 1. Inventory

### The parts, their state and how they meet

| part | state it keeps | operations | meets |
| --- | --- | --- | --- |
| document store (`control-plane/src/store.ts`) | resources, their versions, relations, names, dedupe keys, reminders, tombstones | put, batch, delete, restore, reminder sweep, migrations | called by every tool; tells the change feed of each commit |
| change feed (`documentChangeFeed.ts`) | newest version heard of, a window of changes, parked polls | changed, snapshot, wait, close | listener of the store; polled by `shared/controlPlaneClient.ts` |
| tool queue (`toolQueue.ts`) | limits, a queue, active calls, timers | run, pump, expire, cancel, configure, close | wraps every MCP tool call of `server.ts` |
| host task broker (`hostTasks.ts`) | apps, runners, grants, jobs | request, approve, claim, result, fail, read, acknowledge, revoke, cleanup | apps ask, a runner in the desktop executes, a person approves |
| lockfile (`lockfile.ts`, `daemon.ts`) | one file holding a pid | acquire, reclaim, release | competing daemon processes |
| autosave queue (`desktop-ui/src/renderer/documentSaveQueue.ts`) | per document: a patch, a timer, a running save | schedule, flush, flushAll, clear | edits in `App.svelte`; saves over IPC |
| live view (`renderer/documentChanges.ts`, `App.svelte`) | open tabs, a pending change, reads in flight, the Active rail | change, refresh, read, switch of environment | the change feed through the main process, and the autosave queue |
| MCP sessions and the client's connection (`mcpSessions.ts`, `/mcp` of `server.ts`, `shared/controlPlaneClient.ts`) | open sessions; one shared connection, the sessions it knows to be stale | handshake, call, retry, idle expiry, DELETE, shutdown | puts every call through the tool queue |
| host scripts (`hostScripts.ts`) | a definition and its versions, execution grants, owner jobs | publish, withdraw, request, approve, claim, complete, revoke, sweep | admin window, external apps, the runner in the desktop |
| instance access and OAuth (`instanceAccess.ts`, `instanceOAuth.ts`) | requests, clients with permissions, tokens | request, edit, approve, claim, renew, revoke, exchange a code | decides what a client may read or run of host scripts |
| embedding indexer (`embeddingIndexer.ts`, `topicEmbeddings.ts`) | index rows with a content hash and version, vectors, a timer and a call under way | configure, tick, next work, submit, search | embedding host service (`embeddingHostService.ts`) |
| topic and workstream tools (`kinds/topic`, `kinds/workstream`) | none of their own | create, update, close a tree, transfer, reorder | batches of the store |

`PROJECT.json` lists these and the remaining components (diagnostics, search,
chat, updater, data tier, launchers, panels), each with its status and, when it
is not modelled, the reason.

The control plane is one process with one thread. The database interface is
synchronous, so a handler is atomic up to its first `await`, and an action of a
control-plane module is such a stretch of code. The renderer is also
single-threaded: an action of `SaveQueue` or `LiveView` is what runs between
two awaits. Only `LockFile` has several processes on one resource, and there an
action is one system call.

### What is hard, and what makes each part correct

* **Change feed.** A watcher must be told of every committed version although
  the window is bounded, polls time out or are lost, and the daemon restarts
  with an empty window and with writes nobody was told of. Correct: a cursor
  never passes a change without that change, or a reset, being in the answer;
  and what is written is eventually told.
* **Autosave.** Edits race with saves, failures, timers and a flush before the
  window leaves an environment. Correct: a field is never silently lost or
  undone by an older value, "saved" means stored, and leaving means everything
  is stored, unless the switch is asked for while signed out.
* **Live view.** Answers of reads arrive after the question has become
  pointless. Correct: no document of another environment, no overwritten draft,
  no older version over a newer one, and in the end what is shown is current.
* **Tool queue.** Limits change under load, deadlines pass while timers are
  late, pumps nest. Correct: first come first started, never above the limit,
  never after the deadline, and never asleep with work to do.
* **Host tasks.** Grants, apps and runners are revoked while jobs are leased;
  attempts end after they were replaced; four deadlines bound each other.
  Correct: nothing survives a revocation, only the holder of the current lease
  may answer, a result is released only under a valid grant, and jobs end.
* **Lockfile.** Two starters and a crashed holder. Correct: one daemon.
* **Tool calls.** Sessions expire, quotas refuse new ones, answers are lost and
  the daemon restarts while calls wait or run. Correct: a write is executed at
  most once, and what was answered as not executed has not run.
* **Host scripts and access.** Definitions are replaced, permissions edited and
  clients revoked between a request and its use. Correct: only what the owner
  published and approved runs, once; a revoked client stays out; a read-only
  client stays read-only.
* **Embedding index.** Documents change while vectors are computed, and the
  indexer is stopped or given another host in the middle of a call. Correct: a
  vector in use belongs to the document as it is, a search is whole or refused, a
  stopped indexer stores nothing, and in the end all is indexed.
* **Topic trees.** Trees are shared, partly deleted, partly elsewhere. Correct:
  closing one closes what only it leads to, moving one does not tear it, and
  nobody overwrites what he has not read.
* **Documents.** Deletion, restore and edits around messages. Correct: every
  live message stays valid, so that it can be edited again; senders stay live and
  names of agents unique, however agents are created; due reminders are raised.

`PROJECT.json` "hazards" lists each hard spot at its line with the properties
that cover it.

## 2. Modules

| module | models | state ↔ code |
| --- | --- | --- |
| `ChangeNotification` | what a watcher is promised (abstract) | a cursor per watcher, what it has been told, the documents' versions |
| `ChangeFeed` | `documentChangeFeed.ts`, the version stamping of `store.ts`, `GET /changes` of `server.ts`, the watch loop of `controlPlaneClient.ts` | `history`, `version` as in the code; `since`, `watch`, `answer` are the loop's cursor, where its request is and what it brings back |
| `ChangeFeedProofs` | theorems | |
| `SaveQueue` | `documentSaveQueue.ts` with the callbacks `App.svelte` gives it | `entry`, `patch`, `timer`, `queued`, `saving` are the fields of an entry; `flush` says who called `flushAll`, `awaits`, `latest` are its local state; `signedIn` is `instanceConnection.authenticated` |
| `LiveView` | `documentChanges.ts` and the handlers of `App.svelte`; EXTENDS `SaveQueue`, whose steps it composes with its own | `pending`, `armed`, `loop`, `epoch` are the change queue; `fetch`, `railFetch` are reads in flight; `shown`, `origin`, `deferred` are the tabs; `generation`, `window` say how far a switch of environments has come |
| `LiveViewProofs` | theorems about `SaveQueue` alone and composed with the window | |
| `ToolQueue` | `toolQueue.ts` | `waiting`, `state`, `remaining` (deadline), `blocked` (heap), `ticker` |
| `McpSessions`, `MCMcpSessions` | `mcpSessions.ts`, POST and DELETE `/mcp`, the client's connection; EXTENDS `ToolQueue`, whose calls are the requests sent | `open`, `shut` are the daemon's sessions; `connection`, `asked`, `stale`, `closing` the client's; `stage` of an operation, `at`, `via`, `broken` of a request |
| `McpSessionsProofs` | theorems about the queue and the sessions over it | |
| `HostTasks`, `MCHostTasks` | `hostTasks.ts` | `job`, `grant` are the rows; `requested`, `claimed`, `read` remember what a property needs |
| `HostTasksProofs` | theorems | |
| `LockFile` | `lockfile.ts` | the file and a program counter per process |
| `DocumentStore`, `MCDocumentStore` | message, agent and reminder rules of `store.ts`, `agentMessageReminders.ts`, `agentMessageMigration.ts` | `state`, `name`, `spec`, `due`, `attention` |
| `DocumentStoreProofs` | theorems | |
| `TopicTree`, `MCTopicTree` | the topic, workstream and generic document tools on the versioned writes and batches of `store.ts` | `state`, `spec`, `version` of a document, `counter` of the store; `copy` is what a client has read |
| `TopicTreeProofs` | theorems | |
| `HostScripts` | `hostScripts.ts`, with the desktop's loop that claims and executes jobs | `task` (published and latest version), `grant` and `job` rows, `caller` and `standing` of clients; `runner` is the desktop's `run()`, `ran` counts processes started |
| `InstanceAccess`, `MCInstanceAccess` | `instanceAccess.ts`, `instanceOAuth.ts`; EXTENDS `HostScripts`, so that a client's permissions and its jobs are checked together | `request` (with its OAuth flow), `access`, `permitted`, `oauth` are the rows; a request's `basis` remembers what a property needs |
| `InstanceAccessProofs` | theorems about both | |
| `EmbeddingIndex` | `topicEmbeddings.ts`, `embeddingIndexer.ts`, `embeddingHostService.ts` | `row` is the index, `settings`, `features` what the tools read, `indexer` the fields of the indexer with the running tick's work, `request` the calls to the host, `search` one semantic search, `worker` the work an external indexer holds |
| `EmbeddingIndexProofs` | theorems | |

`ChangeFeed` *implements* `ChangeNotification`: `Promise == INSTANCE
ChangeNotification WITH cursor <- since`, and `Promise!Spec` is both a PROPERTY
of a run and a theorem. Watchers are independent given the feed, which is why
the run needs only one; the theorem is for any number.

A definition that ends in a phrase such as `...Unchecked`, `...OffByOne`,
`...Uncounted` and has a comment "faulty" is not part of any specification. It
is a plausible mistake in the definition after it; put in its place, it makes
the property named in `PROJECT.json` "mutants" fail. Every checked property has
one.

### Abstractions to know about

* `ChangeFeed`: a version is a number, a document's content is its version. The
  bounds are `MaxVersion`, `HistoryLimit` and `MaxFaults`; the last counts
  exits, lost requests and time-outs of requests together.
* `SaveQueue`: a field's value is the number of the edit that wrote it, so that
  "older" can be said. A failed save may or may not have been committed. As in
  the code, a document whose save has failed holds `flushAll` up with an error
  until it is edited again. The session may end and begin again at any time. A
  switch asked for while signed out clears the queue without a flush
  (`App.svelte:1558`). Of several `flushAll` at a time one is followed, that of a
  switch before any other: what a second one adds is that timers fire early, which
  they may anyway. A flush begun while signed out is not followed either, for the
  same reason; the one of signing in again is in `LiveView`.
* `LiveView`: the main process's watch is a cursor that jumps to the newest
  version, resets, or runs no more. A switch is three steps, between which
  everything else goes on: the reset of the window, the answer of the main process
  with the other environment, and the sign-in there with the loading of the
  workspace; the last may come much later, from the connection screen, and also
  follows the loss of a session without a switch. The awaits of
  `loadAuthenticatedWorkspace` itself are one step: tabs restored from older reads
  are made up for by the reset with which the watch then begins, and reads of that
  stretch are given up when it is overtaken. A switch the main process cannot make
  leaves the window as the reset left it; going back to the environment left, without
  a switch, is not modelled from there. A lost session takes from the bound on errors.
  `EventuallyFresh` speaks of windows with a watch: while signed out there is none,
  nor after a sign-in whose flush throws (see Observations). Not modelled: the
  answers of `mutate()` (`App.svelte:2076`–`2092`), which replace the open document
  without comparing versions, and the refreshes after a transfer or reparenting
  (2164, 2235).
* `ToolQueue`: time is a countdown per call; a timer may fire late, which is why
  `remaining` reaches 0 before `TimerFires`. The heap is a flag read once per
  pump. A settings change the version check rejects does nothing and is left out.
* `McpSessions`: one desktop client. The rate window, the heap and the total
  quota may refuse a handshake at any time (`ConnectFails`); idle time is left
  open, so a session may expire whenever nothing of it is under way. The policy is constant.
  Left out: authentication, cancel signals, the event log, heap reports and
  collections (which close sessions only through the idle sweep), disposing of
  the client. As in the code, a call that waits when its session is deleted
  still runs, with nobody to answer. A call of `ToolQueue` that is cancelled
  before it is queued does not occur here.
* `TopicTree`: titles, bodies, topic types, positions, labels and the rules about
  the Inbox are left out; whether a message's reference forbids a deletion is
  `DocumentStore`'s matter. A batch takes one number, where the code counts up per
  document: versions of one document only are ever compared. A dry run changes nothing and is left out.
* `InstanceAccess`: a credential is the standing of its client; deadlines pass at
  any time. Left out: identity sessions of desktops, client registration,
  redirect checks. `HostScripts`: one script; definition, parameters and
  artifacts are data, and only the hash of a definition is told apart.
* `EmbeddingIndex`: a text is the title and body that are hashed and embedded,
  and its own hash; vectors are the text they were computed from. A version is
  only ever compared with the current one, so a copy carries whether its version
  is current. The order in which documents come up for work is left open.
* `HostTasks`: one capability with one (the shortest) rate limit; payloads,
  fixtures and the registration of identities are left out; execution is
  enabled. A request sweeps in the dispatcher and again in the route with
  nothing in between: one sweep here. Only provisioned apps can hold jobs: the
  credential of an app linked to an instance client is a marker no bearer token
  matches (`instanceAccess.ts:280`–`285`).
* `DocumentStore`: a message refers to topics by its field `topics` and to others
  by relations; both are `refs`, told apart by the kind of the target. Expected
  versions and batches are `TopicTree`'s; attention raised by people is left out.
  The store starts without agents, but for the reserved System Import agent of a
  store with migrated alerts; every other agent is created by a client. An `Alert`
  without a sender commits twice, first the reserved agent if it is missing, then the
  message, which may be refused: these are `EnsureSystemImportAgent` and
  `CreateMessage`. Names stand for their normalized keys.

## 3. Runs

| run | module, bounds | what it shows |
| --- | --- | --- |
| `change_feed` | 2 documents, 1 watcher, window of 2, 5 versions, 2 faults | `NoSilentMiss`: whatever a watcher has been told is complete up to its cursor; `Notifies`: refinement of `ChangeNotification`; `EventuallyTold` |
| `save_queue` | 2 documents, 1 field, 2 edits, 2 failures, any number of sign-outs and switches | `NoEditLost`, `CleanMeansStored`, `LeavingLosesNothing`, `EventuallySettled` |
| `live_view` | 1 document, 1 edit, 2 reads at a time, 1 outside write, 1 error (a failed read, a lost watch or a lost session), 1 switch, fairness | `OwnEnvironment`, `DraftKept`, `NeverBackwards`, `EventuallyFresh` |
| `live_view_rail` | 1 document, no edit, 1 outside write | expected violation, see Findings |
| `tool_calls` | a read and a write of up to 2 requests each, 1 session at a time, 2 in all, 1 fault, two settings to alternate between | over all of it `AtMostOnce`, `RefusedNotRun`; of the queue `FirstComeFirstStarted`, `NoLateStart`, `WithinLimits`, `Resumes` |
| `host_tasks` | 1 app, 2 runners, 2 grants, 2 jobs, 1 identity, 2 attempts, times 2/1/2, fairness | `RevocationHolds`, `DeadlinesNest`, `Fenced`, `ReleasedOnlyWhileGranted`; `JobsEnd`: every job ends, whoever falls silent |
| `lock_file` | 2 processes | expected violation, see Findings |
| `document_store` | 2 topics, 2 agents and the reserved one, 3 messages (1 that may be migrated), 2 names and the reserved one, 1 key, 6 message contents | `MessagesStayValid`, `NamesUnique`, `RemindersRaised` |
| `topic_tree` | 4 topics, 2 workstreams, 1 reading client, trees up to 3, 3 writes, 2 initial trees | `VersionNamesContent`, `FocusWithinMembers`, `OnlyExclusiveClosed`, `MovesWhole` |
| `instance_access` | 1 caller beside the owner, 2 requests, 2 versions, 2 grants, 1 job | `OnlyPublishedRuns`, `RunsOnce`, `HandedOutOnlyWhileApproved`, `RenewalsAreCurrent`, `ReadOnlyStaysReadOnly`, `RevokedStaysOut` |
| `instance_access_run` | smaller | expected violation, see Findings |
| `embedding_index` | 2 documents, 2 texts, 2 repairs in a call, 2 writes, 2 changes of settings or features, 1 search, 1 fault, fairness | `NoStaleVectors`, `AnswersAreWhole`, `StopsWhenTold`, `EventuallyIndexed` |

Type invariants say more than types where the code relies on it: `TaskTypeOK`, which is
checked too, contains the two unique indexes of the jobs table (a transaction
that broke one would roll back), `QueueTypeOK` that the ticker is armed exactly
while a call waits, `ViewTypeOK` that a round's reads are in flight only while the
round runs. All of them are proved (section 4). Each was a part of a run while its
module was written and proved; only `TaskTypeOK` stays in a configuration,
as the others say nothing that deserves a run of its own.

The largest runs, `instance_access`, `host_tasks` and `embedding_index`, have
between one and two and a half million states, `tool_calls`, `topic_tree` and
`live_view` between half and three quarters of a million, `document_store` and
`save_queue` about a hundred thousand; the first six take one to
three minutes with two workers, the others less than one.

**Why the bounds are enough to meet the cases.** The feed's window of 2 overflows
at the third version, so windows that replay, that reset, and that begin exactly
at the cursor all occur, as do batches cut by the window; two faults allow a
restart with a lost request. Two edits and two failures let a failed patch be
merged under a newer one and fail again; the saves of a lost session fail beside
that bound. In `live_view` no save fails but those of a deleted document or of a lost
session, the two cases with a step of the window behind them. An outside write, the window's own save and a read error let
an older read be answered after a newer one. Four requests with a limit lowered
from 2 to 1 leave calls waiting in front of, behind and among those that run; a
second session and one fault let a call be repeated after its session expired,
after its answer was lost, or after a restart.
The initial trees of `topic_tree` have a topic
shared with a parent outside the tree, two ways to one topic, and a part outside the
source; three writes make a cycle of them, go over the limit, or delete or move a
part and then act on the rest. Two requests let
a renewal be open while another is claimed; two versions let a grant outlive its
definition; two documents with two texts let a vector come back for a text that
has changed and changed back. Two jobs with two grants and two runners let a grant be revoked under one job
and not the other and an attempt be replaced by another runner or the same one;
the job time exceeds the lease, so leases expire inside jobs. Three messages give
a chain and a cycle of references and a contested dedupe key; two agents with two
names let a name be taken, given up by a renaming or a deletion, taken by the other,
and asked back by a restore. Two repairs in a call of the embedding index (20 in the
code) let one call repair a row and then hand out work, or reach its limit.

Deadlock is checked in every passing run but those of `LiveView` and `TopicTree`, whose writes run out,
`InstanceAccess`, whose requests, grants and versions do, and `EmbeddingIndex`, whose
indexer does nothing while it is halted or switched off, and stays so when the bound on
changes is used up: they really stop. `LockFile` models one-shot processes.

### Fairness

* `ChangeFeed!FairSpec`: the client's loop polls, takes answers and retries until
  it is stopped; a request to a daemon that is down fails; a daemon that has
  closed its feed exits and is started again. Nothing makes anyone write, a fault
  happen or a poll time out.
* `SaveQueue!FairSaveSpec`: timers fire, a save is sent, committed and answered
  (while signed out, refused), and awaiting code resumes. Nothing makes a user edit,
  leave or sign in, and no other failure is fair.
* `LiveView!FairSpec`: the same, and that change events are delivered, the
  queue's timer fires and reads are answered. What one promise does after the other
  (a save, a read, a round of the loop, a refresh of the rail) shares one condition.
* `ToolQueue!Fairness`, also in `McpSessions!FairSSpec`: only the ticker and the deadline timers, which the code arms with
  `setInterval` and `setTimeout`. Running calls need not finish.
* `HostTasks!FairSpec`: time passes and the server's maintenance timer
  (`server.ts:1180`) sweeps. No app, runner or person need act.
* `EmbeddingIndex!FairSpec`: timers fire, awaiting code resumes, the host service
  takes and answers what it is sent, and a control plane that stopped is started
  again. Nothing makes documents change or settings switch, and no failure is
  fair. Calls fail only as often as the bound says, which the conclusion of
  `EventuallyIndexed` needs: a host that always fails indexes nothing.
* `DocumentStore!FairSpec`: the daemon's reminder timer (`server.ts:1190`).

### Findings

* **`lock_file`.** `lockfile.ts:5`–`6` says a second daemon is refused. Between
  reading the dead holder and removing the file (`lockfile.ts:117`), another
  starter can have removed it and created its own, which is then removed: both
  run. The file's content, too, is written after the file exists, so a reader
  may take a starting daemon for a stale one. The run
  says nothing of what two daemons would then do to the database.
* **`live_view_rail`.** `README.md:1062`–`1064` says the desktop follows changes
  live. `App.svelte:1443` skips a refresh of the Active rail while one is in
  flight; when that one was read before the change and nothing changes
  afterwards, the rail stays as it was.
* **`instance_access_run`.** `README.md:1814`–`1815` says that removing Run
  cancels a client's jobs and grants and that giving it back does not restore them.
  `instanceAccess.ts:173` does so only when the request that is claimed asks for
  Run: a renewal edited to exclude Run leaves the grants, which work again as soon
  as Run is given back.

### Observations

Met while modelling, in the models as the code has them, and contradicted by no
text of the repository:

* Parents may form a cycle, although each `ws-topic-update` looks for one: by
  `wm-document-update`, which does not, or by deleting a topic, reparenting
  another and restoring it. Closing such a tree is then refused.
* Once a parent or workstream of a topic is deleted, every `ws-topic-update` of
  the topic is refused until the reference is replaced. A child with a deleted
  second parent is skipped by a close without shared descendants.
* A call that fails on an old connection resets the *current* one
  (`controlPlaneClient.ts:1265`, `1307`), so other calls on the new session end
  with it; one refused call (503) closes the session under the others.
* `revokeToken` leaves a client's requests and grants to the next sweep; the row of
  a revoked caller is not revived by a later use of it.
* Signing in again awaits `flushAll` before it loads the workspace
  (`App.svelte:1288`). A save that failed while signed out is not tried again, so the
  flush throws at once: the watch that ended with the session is not started again,
  nothing shows an error, and the poll sees a window that is signed in and without
  one. The live view stands still until the document is edited and a later sign-in,
  switch or restart loads the workspace.
* An answer of the embedding host other than 409 and 503, or vectors the schema
  refuses, halt the indexer for all documents until it is configured again
  (`embeddingIndexer.ts:176`, `181`); one document the host cannot embed is enough.

## 4. Proofs

All theorems hold for every value of the constants allowed by the named
assumptions next to their declarations (finite or positive bounds, disjoint
kinds). Constants such as `MaxFaults` bound the checks; the theorems do not
depend on how large they are.

* **`ChangeFeedProofs`.** `FeedInvariant`: the inductive invariant `FeedInv` adds
  to `TypeOK` and `NoSilentMiss` what they rest on: the feed never passes the
  store and is level with it while it listens (*VersionOrder*), the window holds
  consecutive versions that end at the feed's (*HistoryContiguous*), every
  document whose newest version lies in the window is in it with that version
  (*HistoryComplete*), an answer on its way leads from the watcher's cursor to the
  answer's version without a gap (*AnswersBridge*), and nobody has seen what was
  not written (*SeenBound*). `NoSilentMiss` alone is not inductive: it says nothing of an answer on
  its way. `TypeCorrect` and `NothingMissed` follow; `Implements` shows the refinement
  of `ChangeNotification`: deliveries map to its steps and the rest to its
  writes or stutters.
* **`LiveViewProofs`.** Its first half is about `SaveQueue` alone. `SaveInvariant`
  is the type invariant with three parts:
  *Newest* (the newest edit of a field is in the patch, in the call, or stored),
  *Carried* (a save that is not running carries nothing, and what a committed save
  carries is in the store), *DirtyMeansEntry* (a document has an entry exactly
  while it is not clean). `EditsKept`, `CleanIsStored` and `LeavingIsSafe` follow;
  the last is an action property of leaving an environment: a switch made while signed
  in, or asked for then and reached after the session has ended, finds all edits
  stored, because `flushAll` returns only to an empty queue. The one step it does not
  speak of is the switch asked for while signed out. The second half is
  about the window, whose steps contain those of the queue: each keeps `SaveInv`
  (`WindowKeepsEdits`), also the save that is rejected because its document was deleted.
  `ViewInvariant` adds that a tab shows no version beyond the store's and only of
  the selected environment (*TabPart*), that the answer of a running save is no
  older than its tab (*SavePart*, which is what a read answered meanwhile could
  break), and that a read of the selected environment brings no version beyond the
  store's (*CallPart*); a switch makes all earlier calls ones of an older
  generation, about which nothing is claimed. Between the reset of a switch and the
  sign-in no tab is open, nothing is to be saved and every call in flight is of an
  older generation (*WindowPart*), so the versions of the store may begin anew there.
  `TabsShowTheirEnvironment`,
  `DraftsAreKept`, `TabsNeverGoBack` follow.
* **`McpSessionsProofs`.** The queue is proved about where it is used, on the steps
  of the daemon and its client. `PumpStep` says once what any pump does to any queue: calls are
  removed as a prefix or by name, what is started is in time and within the limit
  (`SlotsCounted`, on cardinalities, which is why `Calls` is assumed finite), and what
  stays keeps its order. Each operation of the queue is then a change followed by a
  pump, and each step of a session one of those or none. From it `OrderHolds`,
  `NothingStartsLate`, `LimitsHold` follow without an invariant beyond the queue's
  shape (each waiting call is in it once). `RefusalsAreFinal` and `WritesRunOnce` need two parts
  more: what has not reached the queue has not run (*OnlyQueuedRun*), and the second
  request of a write follows a first that was answered as having found no session
  (*RequestsFollow*). `AtMostOnce` alone is not inductive: it does not say why a second request exists.
* **`HostTasksProofs`.** `TaskInvariant` states the safety of the broker one row at a
  time (*RowSound*, *Bound*, *Live*: against itself, its grant, and the apps and
  runners there are), so that each operation is shown to leave or make sound rows
  and the sweep is one lemma about one row. The unique indexes are the only part
  about two rows. `TaskTypeCorrect`, `RevocationsHold`, `DeadlinesAreNested`, `LeasesFence`,
  `ReleasesAreGranted` follow; the last is an action property and rests on the sweep
  in front of each request, which the invariant alone would not give. That the
  earliest of several deadlines exists (`LeastIs`) is the one use of well-founded induction.
* **`InstanceAccessProofs`.** About `InstanceAccess` with `HostScripts` below it.
  `AccessInvariant` has a part for each: *ScriptInv* (an open job is published and
  under a standing grant, grants that stand are for the published definition, what the
  desktop has in hand was claimed and is not started yet) and *ClientInv* (an
  outstanding request has the level and the permissions of its client). A step of
  access touches the scripts only by withdrawing what a client holds or by a run the
  client asks for, a step of the scripts touches the clients not at all. The safety properties of the run follow, two of them
  (`HandedOutApproved`, `RevokedClientsStayOut`) as action properties: an expired
  grant or revoked client may have an open job until the sweep that precedes
  every claim, so no invariant says what the claim itself guarantees.
* **`DocumentStoreProofs`.** `StoreInvariant` is itself made of what it
  proves: validity of messages needs live senders and unique names, and those
  need the deletion guard, so the conjunction is inductive and no part is alone.
  Agents begin to exist by `NewAgentKeeps`, whether a client or an alert creates them.
  `ReferencesStayValid`, `SendersAreLive`, `AgentNamesUnique` follow.
* **`EmbeddingIndexProofs`.** `IndexInvariant`: beside types and `NoStaleVectors`,
  the work of the tick and of an external worker shows the document as it is
  as long as its version is current (*TrueCopy*), so that a submission that comes
  late stores nothing stale; and a tick that was not aborted is one the settings
  still allow (*TickAllowed*). `VectorsAreCurrent`, `SearchesAreWhole` (a search is
  answered with current vectors of every document or not at all) and
  `IndexerStops` follow, the last two as action properties.
* **`TopicTreeProofs`.** `TreeInvariant` adds to the types that a copy with the
  version that is stored shows what is stored, even of a deleted document
  (*CopiesTrue*). What makes it inductive is a part of the types: no copy has a
  version beyond the store's counter, so a write, which takes the next, leaves every
  earlier copy of the document out of date. `StampedStep` shows once that a step which
  stamps all it changes keeps the invariant; each tool is then reduced to it.
  `TreeTypeCorrect`, `NothingUnseenReplaced` and `FocusStaysWithin` follow. What
  closing and moving a tree do rests on two facts about what a set of edges leads
  to: it is closed under them (`ReachedIsClosed`) and lies in every closed set with the
  root (`ReachedIsLeast`). By the first no child is left behind (`MovedTreesStayWhole`); by both, what
  a close leaves open is exactly what has a way up past the root
  (`ClosedTreesAreExclusive`), whereas a single pass over parents would not be.

Every invariant and action property of a passing run is stated by a theorem. The
assumptions that are not mere bounds: identifiers are never the value that stands
for none, which the code's generated ids ensure (`HostTasks`, `HostScripts`,
`TopicTree`); kinds of documents are disjoint; the calls ever made are
finitely many, the settings positive (`diagnosticContract.ts:4`–`6` refuses others); the contents of an
initial tree and of edits are ones the tools accept.

Only model-checked: the liveness properties `EventuallyTold`, `EventuallySettled`,
`EventuallyFresh`, `Resumes`, `JobsEnd`, `RemindersRaised` and `EventuallyIndexed`
(TLAPS has no ENABLED). `LockFile` has no theorem: what one would state is false,
as its run shows, and the same goes for the properties of the two other runs that expect a
violation. No module uses RECURSIVE operators.

## 5. Plan

1. done: the feed, autosave, the live view, the tool queue, host tasks, the
   lock, message validity; proofs for feed, autosave and documents.
2. done: versioned writes, batches and the tools on trees (`TopicTree`), tool
   calls end to end (`McpSessions`), `HostScripts` and `InstanceAccess`,
   `EmbeddingIndex`; proofs for the index and for topic trees.
3. done, proofs: the window with its queue (`LiveView`), the tool queue and
   sessions, host tasks, scripts and access, what closing and moving a tree do.
4. next, proofs: refinements of abstract promises for parts that have only
   invariants so far, a register per document for autosave (what is stored is what was
   edited) and an at-most-once service for tool calls.
5. later, in the model: `LiveView` with the answers of `mutate()`.

## 6. Not modelled

Left out for good: pure projections for display, ranking of search results,
model-driven behaviour of the chat agent, orchestration of containers and downloads,
operating-system integration. They keep no protocol state that
the modelled parts do not already show, or are outside the repository's control.
