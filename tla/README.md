# Spacesly: a TLA+ model of its task execution

Spacesly is a desktop application (Tauri: a Rust backend, a Svelte renderer)
that runs AI agents, chat turns and AI edits as durable *Task Sessions*. A
session is queued in SQLite, claimed by a Scheduler under a lease and a fencing
token, executed by a pool of five worker threads, and its result is staged in an
outbox and projected into the execution store before the session ends. Around
this core are the runtimes that do the work (OpenCode servers, child processes,
MCP and OpenShift connectors) and the editor with its files, snapshots and
language servers.

This directory holds the specifications of those parts, the TLC runs that check
them on small instances and the theorems TLAPS proves for every instance.

## Inventory

Paths are below `src/src-tauri/src` unless they name `src/lib` or `+page.svelte`
(`src/src/routes`).

| Component | State | Operations | What makes it correct |
|---|---|---|---|
| Scheduler store, `infrastructure/scheduler_store.rs` | tables of sessions, attempts, completions, events, owners; sequences | enqueue, resume, cancel, claim, renew, append event, bind runtime, resolve, stage, record error, mark, finalize, reject, recover, abandon, remove | the tables agree; one live attempt per session; fences are unique; ownership is exclusive; capacity; cancellation wins; results are kept |
| its bindings and authority | governance, manifests, grants, envelopes | bind once, compare, decode, revalidate | every attempt runs under what the first one bound; what a command accepts every later reader takes |
| its event journal | events, per-session sequence, replay type | append, classify, page | gap free, in the order of attempts; readers miss nothing |
| Execution engine, `application/execution_engine.rs` | `active`, worker slots, cancellation tokens, `projection_in_flight`, channels | commands, dispatch, renew, finish, retry, project, shutdown | workers return to idle; one driver per session; outcomes survive store errors; every session ends |
| Execution store, `infrastructure/execution_store.rs` | runs with revisions, step leases, conversations, receipts | save, claim step, finish step, append, prune, project | what is marked is published; once, at its place; no lost update |
| Executors, `application/*_task_executor.rs` | none of their own | bind, run, validate, stream, classify | nothing is done after the assignment was lost; streams are whole |
| OpenCode runtime, `infrastructure/ai_worker.rs` | pools of servers and sessions, a child process with its reader | start, reuse, evict, stream, cancel | one server per key; limits; no process is left behind |
| Direct runs, `infrastructure/ai_run.rs`, `lib.rs` | runs, tokens, reserved entries (two registries) | prepare, reserve, execute, cancel, finish | no two agents in one folder; limits; the registries agree |
| OpenShift connector, `infrastructure/ocp` | circuit breaker (three locks), approval, discovery cache | answer a call, retry, allow, record | one trial at a time; one change per approval |
| its configuration | draft, last-known-good, credentials, environment | save, rotate, preflight, mark, promote, delete | a draft that is marked was tested; the connector uses the cluster that was tested |
| MCP sessions and tools, `infrastructure/{mcp,tool_broker,task_tools}.rs` | connection cache | acquire, expire, call, fail, close | a late failure does not end another's connection; tools stop with their assignment |
| Recovery snapshots, `infrastructure/recovery_store.rs`, `+page.svelte` | snapshots per workspace, timers, syncs | type, sync, switch, restore, prune | unsaved text is recoverable |
| Waiters and replay, `src/lib/*TaskSessions.ts`, `taskSessionReplay.ts` | cursor, hint, timer | watch, page, wait, time out | the waiter tells what became of the session |
| Files, `infrastructure/files.rs`, `src/lib/editorDocument.ts` | root with revision, document, version | open, read, save, reload, switch | a save replaces what its document is based on, in its folder |
| Language servers, `infrastructure/lsp.rs` | open documents, pending requests | sync, close, request, answer, time out | the server has the text differences are made from; answers reach their caller |
| Search, Git, formatting, terminals, watcher, shell, secrets, Jira, caches, UI | registries of child processes, single files | one system call or process each | mostly I/O |

How they interact: the renderer calls the engine through commands (a channel,
with a reply timeout); the Scheduler thread alone calls claim, renew, resolve and
the outbox operations; worker threads call the store themselves to append events
and to bind governance, manifest and OpenCode session; the projection thread
writes the execution store, a second database. Nothing prevents a second process:
several Schedulers may share one database, and `cancel`, `enqueue` or `recover` of
another process may come between any two steps of this one. Executors start
runtimes, and runtimes start tool servers and connectors: processes that learn of
the end of an assignment only by asking the store.

What is hard: fences that outlive their lease; leases in wall-clock time renewed
by a monotonic timer; two tables that name the same assignment; results that
travel through an outbox between two databases; store errors at every call;
crashes anywhere; cancellation, which is a row, an atomic flag and an outcome;
state that is checked under one lock or in one command and used under another;
and renderers, servers and child processes whose answers come late.
`PROJECT.json` lists the hazards with their lines.

## Modules

| Module | Models |
|---|---|
| `SchedulerStore` | the store: one action per transaction |
| `TaskLifecycle` | the abstract promise: the life of a session, without owners, leases or tables |
| `SchedulerLifecycle` | the refinement mapping from the first to the second |
| `ExecutionEngine` | one process over the store: Scheduler loop, workers, projector, crash and restart |
| `ExecutionStore` | the second database: one operator per transaction |
| `CompletionPipeline` | both databases with several projectors, the renderer and direct runs |
| `TaskEnvelopes` | what commands, router, executors, resolver and store each demand of an envelope |
| `SessionBindings` | Rules, Skills and manifests of a session over its attempts |
| `AgentAttempts` | executor, runtime and tool servers of the attempts of an agent session |
| `PromptAttempts` | an attempt of a chat or edit session and its stream of events |
| `JournalReaders` | the replay type, the migration, and the readers that page the trace |
| `SessionWatch` | a waiter of the renderer against a session that goes on |
| `DirectRuns` | runs outside the Scheduler, with their two registries |
| `AgentProcess` | one supervised child process, its reader thread and its pipe |
| `OpenCodeTasks` | the pool of OpenCode servers and the sessions remembered for later |
| `McpSessions` | the cache of MCP connections |
| `ClusterTools` | the tools of the OpenShift connector: their requests, and the class of each answer |
| `ClusterIdentity` | which cluster and identity a form, a preflight and a connector work out |
| `OcpConnector` | the connector process: breaker, retries, approval |
| `OcpConfiguration` | the connector's files and the commands that write them |
| `WorkspaceFiles` | a document, its file in each folder, and late reads and saves |
| `RecoverySnapshots` | snapshots of unsaved text |
| `LanguageServers` | a document and the requests of one language server |
| `SchedulerStoreProofs`, `ExecutionEngineProofs`, `CompletionPipelineProofs` | theorems about the modules they are named after, and their proofs |
| `AttemptProofs` | of `TaskEnvelopes`, `SessionBindings` and `AgentAttempts` |
| `JournalProofs` | of `SessionWatch`, `PromptAttempts` and `JournalReaders` |
| `RuntimeProofs` | of `DirectRuns`, `OpenCodeTasks`, `McpSessions` and `AgentProcess` |
| `ConnectorProofs` | of `ClusterIdentity`, `OcpConfiguration` and `OcpConnector` |
| `EditorProofs` | of `WorkspaceFiles`, `RecoverySnapshots` and `LanguageServers` |
| `MCSchedulerStore`, `MCExecutionEngine`, `MCPipeline`, `MCSessionBindings`, `MCComponents` | instances for TLC |

`ExecutionEngine` and `CompletionPipeline` extend `SchedulerStore`: they take its
operations as they are, and add who calls them when. That they are steps of the
store holds by construction and is claimed nowhere as a result. `OcpConnector` and
`ClusterIdentity` extend `ClusterTools`, and `OcpConfiguration` extends
`ClusterIdentity`. `MCComponents` puts the components that share no state with the
Scheduler side by side.

A definition whose comment begins with "Mutant" changes the definition that
follows it the way a bug could. It is no part of any specification: it shows that
a property can fail, see `mutants` in `PROJECT.json`.

### SchedulerStore

Each public operation is one `BEGIN IMMEDIATE` transaction, so each is one
action. `session`, `attempt` and `completion` are the three tables as functions
of the session (and attempt number); `now` is `now_millis()`. Callers are left
out on purpose: any operation may be called at any time with any fence that was
ever issued, which covers delayed messages, workers that outlived their lease
and other processes. A refused call changes nothing and is no step.

A request keeps its kind and its three ownership keys; `Overlap` compares what the
partial unique indexes and the claim query compare. An error text keeps only
whether it asks for an approval, because resume and continue depend on it. A
claim is the whole transaction: recover what expired, count capacity, choose the
oldest eligible session, insert the attempt. Finding nothing to claim still
commits the recovery (`RecoverExpired`). `journal` is the attempt of the newest
event of a session.

The clock moves anywhere in `0..MaxNow` in one step: `SystemTime` is not monotonic.

### TaskLifecycle

Per session: its state, the number of assignments granted, the outcome being
committed. It says that a session that succeeded or was cancelled never runs
again, that an accepted cancellation ends in Cancelled only, that every
assignment has the next token, and that a staged result is published as staged or
the session is Blocked. One step may move several sessions, since a claim also
recovers. `EverySessionLives` in `SchedulerLifecycle` is the refinement.

### ExecutionEngine

`phase` and `todo` are the program counter of the Scheduler thread: a message is
handled, leases may be renewed, pending outcomes retried, the outbox looked at,
idle workers given work. Each call of the store is a step of its own, so a worker,
the projector, another process, the clock or a crash comes between any two. Every
call may also fail, and then the step is the code's error branch: a failed
resolution keeps the outcome for a retry, a failed renewal cancels the token, a
failed finalization is left for the next pass.

The slot of a worker (`WorkerSlot.snapshot`) is the Scheduler's view; `inbox` and
`finished` are the channels, and the head of `inbox` is what the thread executes.
A cancelled worker reports Cancelled whatever its executor returned, and a
panicking one reports a failure (`catch_unwind`), so a slot never becomes Stopped
while the engine runs. `Crash` loses all memory and keeps the store; `Start`
registers a new owner. A worker that lingers after `Shutdown` is left out: its
fence was abandoned, and `SchedulerStore` allows whatever such a fence may do.
A backoff that has not passed is a retry that fails, and any idle worker and any
due row may be chosen first.

`TimelyRenewal` is the assumption the code makes silently: the clock does not
pass the lease of a tracked assignment before the Scheduler renews it. Leases are
30 s and renewed every 10 s, but the first is wall-clock time and the second
monotonic, and the store may be busy for 5 s per call. Runs say whether they
assume it.

### ExecutionStore and CompletionPipeline

`ExecutionStore` has a row per run with its revision, the one step
`worker.execute`, conversations as sequences of message ids, and the receipts of
projections. `CompletionPipeline` gives each process one projector that takes a
staged result, projects it, marks it and finalizes or rejects it, each a step of
its own in one of the two databases, with a possible end of the process between
any two. The renderer keeps a copy of a run (`copy`) and saves over it; direct
runs claim and finish the step themselves; conversations grow and are pruned.
Texts are left out: a result is known by its projection id.

### TaskEnvelopes, SessionBindings

An envelope is judged by six parties, none of which sees what another checked:
the command that submits it, the router, the executor, the resolver with the
check of what it resolved, and the store at staging and at recovery.
`TaskEnvelopes` states each of these judgements as a predicate; there is no state.
A field is a text or `Blank`, which stands for missing, empty or not canonical. An
envelope the store could not stage would be retried for ever and hold its worker,
and an outbox row that cannot be decoded would hide the others: the theorem
`AcceptedSessionsRun` shows that no accepted envelope is one.

`SessionBindings` follows one session: the Rules and Skills the first attempt
resolves and binds, the manifest each attempt compares with the first one's, and
between attempts a user who changes settings, opens folders, restarts and resumes
with a new envelope. Digests are equality. The workspace revision counts in
memory and begins again with each process, so two roots of different processes
may have the same revision; the model has that.

### AgentAttempts and PromptAttempts

Several attempts of one agent session may be alive at once, as threads,
OpenCode processes and tool servers that nobody ended. The model has the order of
resolution and bindings, and the check a tool server makes before each call,
separately from the call. The workspace tools answer one call before they read the
next; the proxy of a connector (`mcp.rs:93`) checks a call and writes it to the
connector's pipe without waiting for an answer, so several may be in the pipe when the
assignment ends, and the connector carries them out. `StaleToolsStop` counts, at the
end of an attempt, the calls let through by then, and says that no more than those are
ever begun: the check refuses all later ones. A session that is recovered keeps its envelope and its
approval; one that is resumed gets a new envelope. `PromptAttempts` has the stream
of a model, which is kept back until the answer is there, then compacted and
written. A chat fails when an external tool failed, even if the model answered;
and the digest of a prompt is checked only by the executor, not when it is
submitted.

### JournalReaders and SessionWatch

`JournalReaders` has processes of an earlier version, which append events without
the replay type, the trigger and the one-time migration of this version (one
`IMMEDIATE` transaction), and the console, whose pages come late while it shows
another session (its generation guard). Reading a page is one step with asking
for it, because nothing else can tell them apart; its arrival is another. An event
is known by its number, which orders pages and entries, so a page is a set of
numbers: the first `TraceLimit` of those the query selects (`FirstOf`), merged with
what is shown and cut to the latest ones (`LastOf`). The state of tool calls is a
fold over the journal, as in `TaskToolState::from_events`. The coverage of a prompt
session is always "partial".

A waiter of `SessionWatch` reads pages, snapshot and result in calls of their own; of
a page it keeps the attempt of the last candidate and of the last end (`Projected`).
Three things it does are what the code does and are excepted by name in
`WaitersTellTheEnd`: a candidate of an earlier attempt makes it report an error
and hides an approval request (`agentTaskSessions.ts:618`); a session cancelled
while queued bears no fence, so its end is not recognised (615); and a waiter
started again from the last event after a resume that timed out
(`+page.svelte:8053`) waits for an end it has passed. A resume between the
terminal snapshot and `getResult` is excepted as well.

### DirectRuns, AgentProcess, OpenCodeTasks

`DirectRuns` has the two registries (`AiRunRegistry` of `ai_run.rs` and
`AgentRunRegistry` of `ai_worker.rs`) as variables of their own and each command as steps between their locks.
`AgentProcess` has the child, a helper that may leave the group, give up the output
and outlive it, the pipe, the reader thread and the supervisor, in both functions:
`run_cancellable_jsonl_command`, which kills the group of a child that exited, and
`run_monitored_command`, which does not, so that a helper that redirected its output
survives a call that succeeded. The reader ends when nobody holds the pipe, and may
fail; one function ends the call when a line exceeds `output_limit`, the other drops
the rest and says so. `CallsLeaveNothing` states for each function and end of a call
which processes are left and which lines the output has. `OpenCodeTasks` has the lookup of a server
under the lock of the pool, the start under a second lock with the pool unlocked,
eviction at the limit, and servers whose process ends by itself.

### The OpenShift connector

`ClusterTools` gives each tool its sequence of requests and each answer its class;
`OcpConnector` serves one call after the other with them, behind the breaker; since
a connector answers one call at a time, the breaker's fields, each under a lock of
its own, are read and written in one step. `OcpConfiguration` interleaves the
commands that write the files: saves, rotations, deletions, and a preflight that
tests the form and afterwards marks, and promotes, whatever draft is on disk.
`ClusterIdentity` has the two functions that work out the cluster, from the form
and from the stored environment, and what a preflight asks for.

### The editor

`WorkspaceFiles` has one document and its file in two folders, with saves in their
steps (ask, check, rename, apply), other programs that write, reloads, and switches
of folder. `RecoverySnapshots` has the timer, the queue of syncs, syncs that are
given up and carried out later, the switch of folders in its steps, pruning, restart
and restoration. Each call of a switch or of a restoration may fail: a failed switch
leaves the documents open with their snapshots cleared, and a failed listing leaves
snapshots whose documents are not open, in both cases with no sync due; a text over
`RECOVERY_MAX_CONTENT_BYTES` is left out of a sync that succeeds. Such a folder is
`uncertain` until the next sync, and `UnsavedTextIsKept` says what is kept of the
others. `LanguageServers` has the calls that sync a document, under the locks
they hold, and requests whose answers come after their 45 seconds.

## Runs

| Run | Instance | Shows |
|---|---|---|
| `store_session` | 1 session, 2 schedulers, 3 attempts, 2 OpenCode identities, agent runs with two run ids | types, agreement of the tables, outbox, cancellation, journal order, runtime binding, kept results, inert attempts |
| `store_shared` | 3 sessions, 2 schedulers, 2 slots, 2 attempts | capacity, exclusive ownership, and the refinement of `TaskLifecycle` when one step moves several sessions |
| `engine_timely` | 2 sessions, 2 workers, 2 owners, renewal in time | workers and assignments are in step; one driver |
| `engine_suspend` | 1 session, 2 workers, 2 owners, the clock passes leases | tracked attempts, projections, pending outcomes, and results of their own worker |
| `engine_live` | 1 session, 1 owner, 2 workers, fairness, renewal in time | workers return to idle, cancellations end, results are published |
| `engine_leak` | the same, the clock passes a lease | a violation: see the findings |
| `pipeline_crash` | 1 session of any kind, 2 processes, 2 attempts | what is marked is published, at its place, and never goes back |
| `pipeline_live` | an agent and a chat session of one conversation, 1 process, fairness | staged results are published or rejected, or conflict |
| `pipeline_stale` | 1 process | a violation: see the findings |
| `components` | sixteen components side by side | the property of each, below |
| `approval_reused` | 2 attempts | a violation: see the findings |
| `resume_refused` | 2 attempts | a violation: see the findings |

The run `components` holds, each in a state space of its own: agent and prompt
runs (`RegistriesAgree`), processes (`CallsLeaveNothing`), OpenCode servers
(`ServersShared`), MCP connections (`ConnectionsAreKept`), attempts
(`StaleToolsStop`), the connector (`BackendSpared`) and its configuration
(`MarkedDraftsWereTested`), waiters (`WaitersTellTheEnd`), files
(`SavesReplaceTheirBase`), snapshots (`UnsavedTextIsKept`), documents and requests of
language servers (`ServerHoldsOpenedText`, `AnswersFindTheirCaller`), prompts
(`StreamsAreWhole`), bindings (`AttemptsShareGovernance`) and readers
(`ReadersSeeTheJournal`). Since they share no state, their product would show
nothing their sum does not.

Bounds. Two attempts are the least that make a fence old, and three let an attempt
be interrupted, resumed and repeated with results in between. `MaxSequence` counts
enqueues and resumes. `MaxNow` of 2 with a lease of 1 or 2 distinguishes a live
lease, one at its last moment and an expired one, and lets the clock return. Two
owners are two processes, or one that crashed and its successor. Two sessions are
what an ownership conflict or a wrong slot needs; capacity needs one session more
than the limit. Two of these would multiply, so two runs have a constraint:
`PairOrPool` takes two sessions of any kind through their attempts under one owner,
or three without a conversation at their first attempt under two; and
`OneLongOrTwoShort` takes one session through attempts and restarts, or two at once
under one owner.

In `components`: three runs and two places in the pool make an eviction; three MCP
calls of two keys at a limit of one make a connection that is replaced under a
caller; `Threshold` and `Attempts` are the code's 3; a page of two events and
journals of up to eight make several pages; two tabs, texts, syncs and folders are
what makes one of them late. `MaxLines`, `MaxStreamed`, `MaxRequests` and
`MaxMessages` let something be written while something else waits; an `OutputLimit`
below `MaxLines` lets the output be cut, two calls in the pipe of a connector
(`MaxCalls`) outlive their assignment together, and one of two texts is `Oversized`.

Symmetry is used for sessions and owners of the store, where no property is
temporal over one of them by name. `components` numbers calls and keys instead and
begins with one canonical folder, so that initial states which differ only in
which is which are one; and it gives one session of the readers a journal, the
other being there to be looked at instead (`OneJournal`). Deadlock checking is off
in every run: the bounds end every behaviour, and an engine with nothing to do
waits for ever.

Fairness of `engine_live` and `engine_leak`: the Scheduler thread keeps running
(WF of its loop); executors return, which their timeouts ensure (WF per worker); a
message is received at some time since `mpsc` is first in, first out (SF per
worker); and a store call that is retried for ever, or a projection, does not fail
for ever (SF). Of `pipeline_live`: a projector keeps running and is started again
when it ended (WF), and none of its steps fails for ever (SF per step, and for
taking each session, since the outbox is served in the order of due times).
Nothing is assumed of clients, other processes, crashes or the clock. The other
components have no liveness stated: their calls have timeouts of their own, whose
passing is a step that may be taken at any time.

## Findings

`engine_leak`: when a lease runs out before the renewal timer fires, the
Scheduler's own dispatch recovers and claims the session again. `active.insert`
replaces the entry of the first attempt without cancelling it or freeing its
worker; the first worker's report is then dropped because its fence is not the one
in `active`, and when the second ends, `try_resolve_completion` frees the first
slot that names the session, whichever it is. One of the two slots stays Running
for a session that ended, although its thread is idle, until the application ends.
The store stays correct (`engine_suspend`), but the pool loses a worker each time.
The module comment of `execution_engine.rs` says that workers "return to idle until
the engine is dropped" and `WorkerState::Running` that the worker "owns exactly
one running Task Session".

`pipeline_stale`: a projected or finished result completes the step of a run but
leaves the run's revision as it was, so a save of the renderer that read the run
before is accepted and sets the step back to running. The message of that very
check says "is stale ... Reload before saving".

`approval_reused`: whether an approval was used is a flag in the memory of one
connector process, and every attempt starts a connector with the session's
approval. A session that is assigned again after its lease ran out sends the
approved change again, although the connector says that mutations are never
repeated under the same approval.

`resume_refused`: the renderer begins a new execution run for every continuation
and puts its id into the envelope of the resume; the manifest of the next attempt
is compared with the first one's, run id included, and refused. The README of the
repository promises that a resume after an approval is the same task.

Found while modelling, in the models as the code has them, and stated by no
document to be otherwise:

- `execute_ai_worker_task` returns early at several places between `lib.rs:588` and
  `:657` without releasing the reservation of a direct agent run, and the renderer,
  which sets `backendExecutionStarted` before the call (`+page.svelte:7911`), then
  does not release it either (`:8439`). Four such calls refuse every later agent
  run (`ai_worker.rs:141`).
- A call the open breaker refuses is an error that `serve_stdio` records as a
  failure, so it opens the window anew. The snapshot the settings show keeps how
  much of the window was left when it was written, and is restored as if that were
  still left (`breaker.rs:184`), although its comment says that a window that has
  passed is seen as half open (172).
- An approval is consumed before the arguments of the call are validated.
  `ocp_get_*` lists of one kind take errors of the API and garbled bodies as an
  empty list, so the probes of a preflight accept a server in trouble.
  `delete_managed_pod` reads and then deletes without a precondition. The rotation
  of `audit.ndjson` can lose entries. `errors.rs` calls TLS errors eligible for
  retry; they are not.
- A preflight promotes the draft that is on disk, which may be one that was saved
  meanwhile and not tested; only the mark compares checksums. Drafts saved from
  the settings always carry a display name (`OcpConnectorSettings.svelte:197`),
  whereas `ocp_preflight` builds its spec without one (`lib.rs`), and the checksum
  covers the name: such a draft is never marked. A kubeconfig without a user is
  refused by the preflight although the connector would use the stored token.
- The start of an MCP server is not shared by calls that come later than the first
  two: the lock of its key leaves the map as soon as it is held (`mcp.rs:907`;
  `docs/progress-report.md:47` says initialization is coalesced).
- A shell command whose second check of authority fails with an error leaves its
  process running (`shell.rs:119`).
- A monitored call that succeeds leaves the helpers that redirected their output
  (`ai_worker.rs:1454`), and a line that cannot be read ends the other kind of call
  with its child running (1353).
- A switch of folders that fails after it has cleared the snapshots
  (`+page.svelte:2162`) leaves unsaved text without a snapshot until the next change;
  so does a text over the limit (2595), of which no notice tells.
- Editor: a reload overwrites what is typed while it reads (`+page.svelte:3437`); a
  reopened document adopts the version of a save by its path (`:3095`); a sync
  captured in one folder may be stored under the next.
- Language servers: a sync that blocks on a full pipe holds the locks its reader
  needs; a close is told to the server after the lock is released, so it may come
  after a later sync; a reopened tab begins at revision 0 and is ignored as old;
  a request of the server with the number of one of the client's takes its place.

## Proofs

TLAPS proves the following for all sets of sessions, owners, texts, folders and so
on, and for all bounds, from the named assumptions of the modules only.

| Module | Theorem | Property |
|---|---|---|
| `SchedulerStoreProofs` | `TypeCorrect` | `TypeOK` |
| | `AssignmentAgrees` | `AssignmentConsistent` |
| | `OutboxAgrees` | `OutboxConsistent` |
| | `TokensGrow` | `TokensIncrease` |
| | `CancellationWins` | `CancelWins` |
| | `OwnershipIsExclusive` | `ExclusiveOwnership` |
| | `JournalInOrder` | `JournalFollowsAttempts` |
| | `RuntimeIsKept` | `RuntimeBoundOnce` |
| | `ResultsAreKept` | `StagedResultKept` |
| | `EndsAreFinal` | `EndedAttemptsAreInert` |
| | `CapacityHolds` | `CapacityBound` |
| | `StoreImplementsLifecycle` | `EverySessionLives` |
| `ExecutionEngineProofs` | `EngineKeepsTheStore` | what is proved of the store |
| | `ProjectionsAreOfStagedResults` | `ProjectionInFlightIsStaged` |
| | `LiveAttemptsAreTracked` | `LiveAttemptsTracked` |
| | `ResultsAreTheirWorkers` | `ResultOfItsOwnWorker` |
| | `PendingOutcomesAreKept` | `PendingOutcomeKept` |
| | `BusyWorkersAreTracked` | `BusyWorkersReturn`, given `TimelyRenewal` |
| | `SessionsHaveOneDriver` | `OneDriver`, given `TimelyRenewal` |
| `CompletionPipelineProofs` | `ProjectedArePublished` | `ProjectedIsPublished` |
| | `AnswersBehindQuestions` | `AnswersFollowTheirQuestion` |
| | `ResultsGoForward` | `ResultsMoveForward` |
| | `SuccessIsPublished` | stated by the theorem |
| `AttemptProofs` | `GovernanceIsShared` | `AttemptsShareGovernance` |
| | `StaleToolsAreStopped` | `StaleToolsStop` |
| | `AcceptedSessionsRun`, `RunsUseWhatWasGranted`, `ResolvedTasksMatch` | stated by the theorems |
| `JournalProofs` | `WaitersAreTold` | `WaitersTellTheEnd` |
| | `StreamsStayWhole` | `StreamsAreWhole` |
| | `ReadersSeeJournals` | `ReadersSeeTheJournal` |
| `RuntimeProofs` | `RegistriesStayAgreed` | `RegistriesAgree` |
| | `ServersAreShared` | `ServersShared` |
| | `ConnectionsStay` | `ConnectionsAreKept` |
| | `ProcessesLeaveNothing` | `CallsLeaveNothing` |
| `ConnectorProofs` | `ConnectorUsesTestedCluster` | stated by the theorem |
| | `MarksMeanTested` | `MarkedDraftsWereTested` |
| | `ServerIsSpared` | `BackendSpared` |
| `EditorProofs` | `SavesStayAtHome` | `SavesReplaceTheirBase` |
| | `UnsavedTextSurvives` | `UnsavedTextIsKept` |
| | `ServerHasOpenedText` | `ServerHoldsOpenedText` |
| | `AnswersReachWhoAsked` | `AnswersFindTheirCaller` |

Every safety property that a passing run checks has its theorem.

The assumptions are that bounds are numbers, that sets of identifiers the code tells
apart by their form are disjoint (the ids of chat messages and of projected results,
`MessagesAssumption`; the runs of agents, edits and chats, `DirectAssumption`), that
markers for "nothing" are no value of the set they extend, and that a request names
rows there are (`RequestsNameRows`). TLC evaluates each of them on every run of a
module that has it. Two theorems about the engine assume `TimelyRenewal` and say so.

**The store.** Every table is a function of the session, and an operation relates
the rows of one session only, so the inductive invariant `IInv` is a predicate
`RowInv` of one session's rows: their types; attempts numbered without a gap,
attempt `n` under token `n` (`Numbered`); the agreement of the two tables
(`AssignmentRows`); the outbox (`OutboxRows`); and a request wherever there is a
session (`RequestRows`). None of them is inductive alone: that recovery keeps the
tables in agreement needs that no other attempt of the session runs; that staging
meets an empty outbox needs the agreement; that a claim uses a fresh token needs
that the counted attempts are all there are. There is one lemma per operation and
one for recovery (`RecoverInv`), which a claim reuses on the tables as recovery
leaves them.

Exclusive ownership relates two sessions and is proved inductive under `IInv`: a
claim establishes it from the candidate query, and nothing else makes a session
active. Four action properties follow from one predicate of a step of one session,
`Continues` (`JournalGrows`, `RuntimeStays`, `ResultStays`, `EndsStay`), shown for each
operation. The capacity needs cardinalities: `Counted` says that the running
attempts are a finite set no larger than the limit, a claim adds one to a set it
has counted, and recovery takes from it; so the set of sessions may be infinite.
The refinement is proved per session and then for all (`Lives`): every step lets a
session rest, be granted, stage, publish or leave, which are the steps of
`TaskLifecycle`.

**The engine.** Its state is typed by `EShape`, and `Visits` ties `todo` to what the
loop will still look at; `EInv` is both. A step is one of five kinds towards the
store: it leaves attempts and results alone (`QuietStep`), claims, sends, marks or
ends an attempt; the lemmas about the store's operations give what each does.
`Owned` and `AllTracked` say that what runs under this owner is in `active`, since
only a claim starts attempts and the entry is kept until the store has ended the
attempt or the lease has passed. `OnePlace` says that a fence is in one inbox, one
report or one pending outcome, so a report can only end what its own worker
executed. `WorkersInStep`, which needs `TimelyRenewal`, adds that tracked assignments
are live, that every fence in a worker's hands is shown by its slot and that a
session is shown once; without the assumption it is false, as `engine_leak` shows.

**The pipeline.** It takes its steps on the scheduler's database from `SchedulerStore`,
so `IInv` holds in it too; `PInv` adds what connects the two
databases. What is marked is in the execution store (`MarkedPublished`) because what a
projector holds is of a session that still has the same task, and is published before
the projector believes it projected (`HeldOfSessions`): the projector reads, projects
and marks in transactions of their own, between which its lease may pass and another
process may do the same. `Published` is kept by every operation on the second database:
receipts are only added, and a message is lost only with its conversation. For the place
of an answer, `AnswersKnown` says of every stored answer, whoever's it is, that it stands
behind the head its session has, and `IdsUnique` that no id is there twice; an insertion
moves messages, and the message before an answer moves with it. That a step's result only
moves on needs that every receipt is of an attempt there was and that every result shown
has one (`ReceiptsOfAttempts`). `SuccessIsPublished` puts both databases together: a
session leaves its commit as succeeded only by the finalization of a marked result
(`OnlyFinalizing`), which is therefore published.

**One session.** Governance: what an attempt has resolved is what is bound or nothing is
bound yet (`ResolvedInv`), and a runtime was given what is bound (`RanInv`). Stale tools:
once an attempt is over, what its servers hold is what is left of the calls they had let
through by its end, since an attempt that is over is not authorized again (`StaleInv`). The envelopes are
theorems about operators, by cases.

**The journal.** A waiter (`WatchInv`): what it holds is what the events between its start
and its cursor say, page after page (`Holds`); a session's record agrees with its last
event (`Consistent`); and once the waiter has found the session ended with all events
seen, nothing moves but by a resume (`Follows`). The stream of a chat (`StreamInv`) is
compacted by a fold whose parts always tell what was streamed (`Faithful`): the text
gathered, the last usage, and whether a tool failed. The readers (`ReadersInv`): an event
has its own type as its index or, until the migration, none, is of an attempt that began,
and an attempt has each stage once (`JournalInv`); at most one page on its way will be
taken by the console, and it goes on where the console is (`Fits`). What was read stays
true because a journal only grows and the migration changes no type. That a complete
trace has both stages of every attempt is a counting argument: its stage events inject
into the pairs of attempts and stages, so as many of them as pairs are all the pairs.
`FoldLeft` and `FlattenSeq` are recursive functions of the library; that their unfolding
exists is proved by induction on numbers (`Unfolds`, `Learns`, `Joins`; `Induction` is
about a set of numbers and follows from their well-foundedness), and from it what they
make of a sequence with one element more.

**The runtimes.** The registries agree between any of their locks because each place of a
call says what its two entries are (`Agreed`), and because every entry, working or not,
has its folder and its place in the limit (`EntriesApart`, `EntriesLimited`); the counter
of edits counts refused ones too (`EditsCounted`). A pool of servers starts one at a time,
and while it does there is room for it and none of its key (`OneStarts`, `RoomForStart`).
What the connection table and the calls name was started by a call (`McpInv`), so that a
call that fails late removes its own connection or nothing. Of a child process, the group
is dead at each place where the supervisor believes it is (`GroupEnds`), and the lines
delivered, in the channel and in the pipe are those written, in order, except those the
reader dropped when the output was full (`LinesInOrder`).

**The connector.** The cluster's identity is by cases of the form. Configuration: the
preflights that may still mark have tested what they would mark (`LatePreflightsTested`).
The breaker: a call that is served while the failures are at the threshold is the trial,
and a window whose trial reached the server is open again or still has its trial
(`Sound`, `CallIsTrial`); a change is the last request of its tool, and its approval was
used up before the first (`Orderly`, `ChangeIsApproved`).

**The editor.** Files: documents, saves and reads carry the folder they are of
(`AllAtHome`), and a save that was checked is of its document's folder (`CheckedAtHome`).
Snapshots: when no timer is set, the last sync under way carries what is unsaved
(`LastSyncTells`); a folder that was left keeps nothing, or is uncertain
(`LeftFoldersEmpty`); and during a switch every sync under way is one that was sent in it, which leaves the
folder uncertain (`SwitchesClean`).
Language servers: what a call writes is made from the text recorded when it took the
lock, which one call has at a time (`DocumentInv`); and whatever is on its way to a caller
has the id of the request it is about (`RequestInv`).

Only model-checked: liveness under fairness (`WorkersReturnToIdle`, `CancellingEnds`,
`CommittingEnds`, `CommittingEndsOrConflicts`), which is out of the prover's reach. The
four properties that runs find violated have no theorem.

## Not modelled

The text of prompts, plans, results, diffs, kubeconfigs and tool arguments; the
formats of the providers; JSON protocols with child processes; notifications to
the renderer, health records and performance counters; the reply timeouts of
client calls, which give up waiting and change nothing; decoding errors of rows
another version wrote. Search, Git and formatting are one child process per
command; terminals are synchronous commands on the main thread, so nothing comes
between their steps; the file watcher forwards what it is told; secrets, Jira,
caches and settings are single files or REST calls of one writer each. The user
interface is modelled where it decides something of the above: saves, syncs,
waiters, continuations and releases of runs.

Three hazards have no property: an expired attempt whose envelope cannot be
decoded makes every recovery fail, which a test pins as intended; refused calls
that keep the breaker open; and direct runs that keep their reservation. The
models contain the last two, and nothing in the repository promises otherwise.

## Plan

1. The engine's theorems carried over to the pipeline, whose projectors are those of
   several engines.
2. The composition of `SessionBindings` and `AgentAttempts` with the store's attempts
   in place of their own reduced ones.
3. The registry of terminals and the watcher, if they come to run on threads.
