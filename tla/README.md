# AgentDebugX: models, checks and proofs

TLA+ models of the parts of AgentDebugX in which several processes, threads or
machines work on the same state, TLC runs that check them on small instances,
and TLAPS proofs that carry the most important results to every instance.
Paths below are relative to `src/agentdebug/` of the repository unless they
start with `integrations/`.

Contents: [the system](#1-the-system) ·
[the modules](#2-the-modules) ·
[the runs](#3-the-runs) ·
[fairness](#4-fairness) ·
[the proofs](#5-the-proofs) ·
[disagreements found](#6-where-code-and-documentation-disagree) ·
[what is left out](#7-what-is-not-modelled) ·
[the plan](#8-plan)

## 1. The system

AgentDebugX captures the trajectories of coding agents, diagnoses failed ones,
lets people discuss the diagnosis and reruns the agent from a chosen point.

### Inventory

| component | state it keeps | operations | talks to |
|---|---|---|---|
| **capture service** `capture/` | `capture.sqlite3`: receipts, traces, sessions; `traces/NNNN.json` and `session.json` beside it | `handle` of a hook notification, `capture reconcile`, list and status | the host's transcript (another program writes it), other hooks of the same session |
| **live runner service** `rerun/http_service.py` | jobs, idempotency keys, a lock, a thread pool; all in memory | submit, status, trajectory, cancel; `execute` on a pool thread | HTTP clients, the application's callback |
| **HTTP rerun executor** `rerun/executors/http_live.py` | where one call of `run()` is, its attempts and its deadline | `run`, `_request`, `cancel` | the service above, over HTTP |
| **GUI episodic memory** `gui/memory/episode_memory.py` | one JSON file | add, delete, read, list, creation, `--reset-memory` | all workers of the GUI pipeline, through `flock` |
| GUI lesson memory `gui/memory/lesson_memory.py`, `gui/utils/lock.py` | buckets of lessons behind a read/write lock with writer priority | add, delete, read, list, dump, merge through a language model | threads of one process |
| GUI pipeline `gui/pipeline/` | a result file for each task, a summary index | run all tasks in a pool, skip those that exist, resume | episodic and lesson memory |
| evolving taxonomy `gui/evolving/` | the taxonomy, an audit trail | evolve, resume | files |
| discussion store and routes `inspect/ui/discussion_store.py`, `routes.py` | SQLite: sessions with a version, messages with a sequence | create, append, delete, send (append, ask a model, append) | browser windows |
| branch and case stores `inspect/ui/branch_store.py` | JSONL files behind a lock of the process | append, delete by rewriting | the threads of one server process |
| UI manager `inspect/ui/manager.py` | a state file, a file lock, a server process | start, reuse, stop | other commands, the port |
| workbench `workbench/` | manifests of runs | create, update, bind to a session | the UI manager, the command line |
| GUI logger `gui/utils/logger.py` | a queue and a worker thread for each logger, handles of files counted in the class | log, bind, unbind, close | files shared by loggers |
| attribution `diagnose/attribute/attribution.py` | nothing that lasts | an ensemble of backends, each asking a model, merged into one ranking | language models |
| capture consent `capture/config.py` | `capture.json` | enable, disable by platform | the hooks |
| dsh plugin `integrations/dsh-agentdebugx/` | a table of open requests to a bridge process | request, abort, time out, restart the bridge | a child process |
| trace stores, schema, ingest, diagnose, batch, hub, command line, host integrations | files or nothing | conversions, heuristics, prompts | language models, remote repositories |

`PROJECT.json` lists every component with what is modelled of it.

### What is hard

* **Capture** has no daemon. Each hook is a process that the host may kill at
  its timeout, several run at once, the transcript grows under them and may end
  in half a record, and a command replays receipts of hooks that may still be
  alive. A run of `handle` is seven or more transactions, and what was read in
  one is used in a later one. Files are written inside a transaction that may
  still be rolled back.
* **The runner service** answers calls on one set of threads and runs jobs on
  another. Some fields are read without the lock. The cancel event is set
  outside the lock. Idempotency is checked in one critical section and taken in
  another.
* **The executor** repeats a request whose answer is late although the service
  may still be working on it, gives up on a deadline, and must still cancel.
* **The episodic store** truncates the file before it asks for the lock and
  lets Python's buffer go out after the lock is released, so the lock does not
  cover what it is meant to; and read-modify-write takes two locks.
* **The lesson memory** pops lessons before the model that merges them is asked,
  one rule after the other, and reads again while it holds the read lock.
* **The pipeline, the evolving taxonomy and the JSONL stores** write files in
  place and decide at the next start what to keep of what a kill left.
* **The discussion** is changed by several windows while a model is being asked
  about it; requests are repeated under the same id.
* **The workbench** shares one server among processes that find it through a
  state file, and any of them may be killed while it starts it.
* **The Harness plugin** reads lines of a process that may have died, for
  requests that may have timed out, and serves that process's calls to a model
  while it waits for it.

### What makes each component correct

* Capture: a hook that answered success left no finished response behind; the
  session row names the newest trace; nothing is stored twice; files show at
  least what the database holds; every receipt is settled in the end.
* Runner service: no job runs twice, ends twice, or starts after its cancel;
  none is stranded; an answered cancel holds; each ends if the callback does.
* Executor: it returns only its own result, ends whatever the network does, and
  leaves no job running that it could have cancelled.
* Episodic memory: while changes take turns, what `add` returned is found until
  somebody removes it, a list is complete, a broken file never passes for a
  shorter store.
* Lesson memory: readers and writers exclude each other, no wakeup is lost (a
  second read may still deadlock), and merging keeps every episode referred to.
* Pipeline: the summary says what the result files say, and each analysed task
  is in the index and in the store.
* Discussion: an answered question is there with its answer; whoever names the
  current version has seen the current messages.
* Branch stores: the files hold what was appended and not deleted.
* Workbench and UI manager: a manifest refers to nothing that is not stored; a
  UI the workbench started, if given out, serves the store of the run it is given
  for.
* Evolving: the audit trail is one chain of taxonomies, and resuming continues
  from its end.
* Plugin: each open request is being worked for or about to be failed, and a
  settled diagnosis spends no more tokens.
* Logger: closing loses nothing of what was logged to a file shared with others.
* Attribution: the halves shown to the model are the halves searched, and the
  merge keeps first the row that all backends put first.

`PROJECT.json` lists the hazards, each at the line where it bites, with the
properties that cover it, or the reason why none does.

## 2. The modules

```
Transcript ── Capture ──┬── MCCapture                 TraceLog: what Capture
                        └── CaptureProofs               implements
RunnerService ──┬── MCRunner                          JobLifecycle: what
                ├── RunnerProofs ─────────┐             RunnerService implements
                └── HttpRerun ──┬── MCHttpRerun
                                └── HttpRerunProofs
EpisodicMemory ──┬── MCEpisodicMemory ─┐
                 └── MemoryProofs      │
RWLock ── LessonMemory ── MemoryProofs │
Pipeline ──────────┬── MCPipeline      │
EvolvingTaxonomy ──┼── GuiProofs       ├── MCGui
BlockLogger ───────┘                   │
Attribution ── AttributionProofs ──────┘
Discussion ────────┐
BranchStore ───────┼── InspectorProofs ┐
  └ MCBranchStore  │                   ├── MCInspector
Workbench ─────────┘                   │
DshBridge ── BridgeProofs ─────────────┘
```

`GuiProofs` proves about the pipeline, the taxonomy and the loggers,
`MemoryProofs` about the lock, the lessons and the episodic store,
`InspectorProofs` about the discussion, the files and the workbench; each in a
part of its own.

`MCGui` and `MCInspector` hold several components that share no state. The
variable `part` picks the one an instance exercises, and its steps leave the
others alone, so a run checks each of them on its own and their state spaces
add up instead of multiplying.

An action is one access to shared state with the local code around it. A
definition whose comment begins with `Mutant:` is not part of a model: it is a
plausible mistake in the definition that follows, kept to show that a run
would notice it.

### Transcript and Capture (`capture/`)

`Transcript` says what is kept of a transcript. A transcript is a sequence of
record kinds: a prompt, a response, a response that runs AgentDebugX itself,
and noise. `Kept` is `prepare_for_capture` with the hosts' normalisation: the
prompt that fired a UserPromptSubmit hook is dropped, and a turn that runs
AgentDebugX is left out as a whole. Truncation, redaction and payload parsing
are not modelled. Both hosts stamp each record, so an event is its index.

`Capture` models one session. `transcript`/`tail` are the host's file;
`receipts`, `traces` and `session` are the three tables; `files` and `index`
are `traces/NNNN.json` and the trace list of `session.json`; `writer` is
SQLite's write lock. A receipt id is the notification with the version of the
transcript (`receipt_id_for`), a boundary the notification with the last
complete record (`boundary_id_for`), and hashes are taken to be injective.

| action | code |
|---|---|
| `Notify`, `Begin` | `handle` up to the `stat` that gives the receipt its version |
| `LoadSession`, `CheckReplayable` | `load_session`, `has_replayable_receipts`, the early returns |
| `BeginReceipt` | `begin_receipt`: insert or ignore, and read back |
| `TakeSnapshot`, `SnapshotFails` | `read_complete_jsonl`; the deadline of SessionEnd |
| `DecideBoundary` | `load_boundary_receipt`, the checks for no-ops |
| `NoOp` | `commit_no_op` |
| `OpenCommit`, `WriteIndex`, `CloseCommit` | `commit_capture` under BEGIN IMMEDIATE: the file, `session.json`, the commit |
| `Reconcile` | `reconcile_prior_receipts` |
| `MarkFailed`, `Busy` | the `except` branches of `handle`; `busy_timeout` |
| `Crash` | a kill: the transaction is rolled back, the files stay |
| `ListReplayable`, `Replay`, `MarkReconciled`, `MarkBusy` | `capture reconcile` |

A transaction that touches only the database is one action, because SQLite
serialises it. `commit_capture` is three, because its files are visible to
others before it commits. The command replays in the order of `observed_at`;
the model allows any order. A transcript that cannot be read is a fault that
passes (`SnapshotFails`); one that stays malformed for good is not modelled.
A failure before the receipt exists changes no state and has no action.
Whether SessionEnd meets its deadline is nondeterministic.

`TraceLog` is what a reader of the database relies on: a log that only grows at
its end and never holds a trace twice, and a head that names the last one.

### RunnerService, JobLifecycle (`rerun/http_service.py`)

`jobs` and `submissions` are the two dictionaries; `queue` and `worker` are the
`ThreadPoolExecutor` (external, a FIFO queue and `max_concurrency` threads);
`lock` is the service's lock; `calls` are the requests being served.

| action | code |
|---|---|
| `SubmitCheck`, `SubmitReject`, `SubmitRegister`, `Enqueue` | `submit`: first critical section, validation, second critical section, `pool.submit` |
| `Get`, `ReadStatus` | `get_job` under the lock; `status_payload` without it |
| `FetchStatus`, `FetchResult` | `trajectory`: two reads without the lock |
| `SetCancel`, `SettleCancel` | `cancel`: the event, then the critical section |
| `Take`, `Start`, `Succeed`, `StoreResult`, `Fail` | `execute` |
| `Restart` | the process is killed or shut down; its successor knows no job |

A critical section is one action where nothing unlocked can see into it. The
end of `execute` is two: `status` is written before `result`, both under the
lock, and unlocked readers see the first without the second. A job of a former
process is `"gone"`. Authorisation, payloads, capabilities, `ended_at` and
`error` are left out. `JobLifecycle` is the promise of RUNNER_SPEC.md that a
client polls against.

### HttpRerun (`rerun/executors/http_live.py`)

Composes clients with the service: it extends `RunnerService`, adds `client`,
and drives the service's own `Arrive` and `Reply`. A submission id is drawn by
each call of `run()`, so a key stands for one call. A request or its answer may
be lost (`SendFails`, `TimesOut`); the service goes on with what it received,
and a late answer is dropped. `Lost` is `_request`'s retry, `Failed` the way
out of `run()`: nothing to cancel before a run id is known, one cancel after,
and an error of the cancel is swallowed. `Interrupt` is a KeyboardInterrupt. A
POST that is lost or interrupted may leave a job nobody knows of: the code has
no way to cancel it, and no property claims otherwise. The property
`ServiceSpec` says that the composition is a behaviour of `RunnerService`, so
what is proved of the service holds in it.

### EpisodicMemory (`gui/memory/episode_memory.py`)

The file is a sequence of parts (its opening, the pieces of each record, its
end), written at an offset, because truncation, a lock and a buffer that do not
cover each other let two writers interleave inside it. `Text` writes a store out
record by record, `Readable` and `Parse` take well-formed text only, as
`json.load` does. Both are recursive functions, so that they can be proved about. Operations: `Construct` (looks for the
file; creation is a later step), `Add`, `Delete`, `List` (`read` and `list`),
`Reset` (which takes no lock); then `OpenToWrite` (truncates), `Dump` (under
the exclusive lock, any prefix reaches the file), `Unlock`, `CloseFile` (the
rest of the buffer). An operation whose read fails raises and changes nothing.
`Kill` kills one process. `Founder`, `Writer` and `Resetter` say who may do
what. `kept` and `overlapped` are histories: what is to be found, and whether two
changes were ever under way at once, from the look at the file or the read they
start with to the close. The properties are about stores whose changes took
turns, whoever made them; overlapping ones lose records (section 6). It is the
POSIX branch; the Windows branch locks with
`msvcrt` and behaves differently. Reading is one action.

### RWLock, LessonMemory (`gui/utils/lock.py`, `gui/memory/lesson_memory.py`)

`RWLock` is the lock alone: `readers`, `writing` and `waiting` are its two
counters and its flag, `at` is where each thread is. What a method does between
two waits is one action, since it holds the mutex of the condition
(`AcquireRead`, `AcquireWrite`, `RetryWrite` after a wakeup, `ReleaseRead`,
`ReleaseWrite`). `Nested` threads may read again while they read, as `dump`
does.

`LessonMemory` puts the store behind it. A lesson is an id and the episodes it
was distilled from (`episodic_refs`), `queued` is the bucket of `MapMergeRule`.
`Begin` is a call that asks for the lock; `Insert`, `Fire` and `Merge` are `add`
up to the database, each rule, and the model that writes the replacement;
`MergeFails`, and the second case of `Insert` and of `Update`, are failures of
the model or of the database. `acked`, `dropped` and `spoilt` are histories:
episodes whose `add` returned, that callers gave up, and that failures took.
Retrieval and the injector only read (`Get`).

### Pipeline (`gui/pipeline/`, `gui/__main__.py`)

One trial directory over several runs: `results` are the result files, `index`
the lines of the summary index, `episodes` the store, `summary` what the last
run wrote. A file that is being written is `Torn`. `Take` is `process_task` up
to the analysis, with `--skip-existing`; `Analyse` and `SaveResult` are
`run_rca` and `save_rca_result`; `ReadIndex`, `OpenIndex`, `WriteIndex` are
`_upsert_summary_index`; `OpenEpisodes` and `WriteEpisodes` the addition to the
store; `KillPipeline` a kill. `FromMain` picks the copy of the pipeline behind
`python -m agentdebug.gui`, which differs from the package in where it puts
results and in one missing argument.

### EvolvingTaxonomy (`gui/evolving/`)

A taxonomy is a set of codes, each with the case that defined it last. `trail`
is `audit_trail.jsonl`, in which a crash may leave an entry without the end of
its line or cut short (`CrashEvolving`, `Appended`); `perCase` are the result
files. `Applied` is what `apply_op` may lead to; the model may propose any
operation. `StartEvolving` is a fresh start or `--resume`, which takes the
taxonomy after the last line and the cases of all lines.

### BlockLogger (`gui/utils/logger.py`)

Each logger has a queue, a worker thread and one thread that binds, unbinds and
closes; the file's handle, its count and its buffer are shared through the class.
`WriteText` puts a message into the buffer, from which any part may go to the
file; `IdleTick`, `FlushFile` and `EndTick` are the worker's flush when nothing
is queued; closing the handle flushes it (`Flushed`), which `Release` does with
the last reference only. `Join`, `PutStop`, `TakeFiles`, `Release` are the steps
of `_close`. `owed` is a history: messages logged to a logger that was bound and
stays so until it is closed.

### Attribution (`diagnose/attribute/attribution.py`)

One call of `EnsembleAttributor.attribute`. A trajectory is `events` many events,
each with a `step_index` that it may share with others or not have; `root` is the
one to blame, `findings` and `errors` what the detectors and the events say of
it. What a backend blames, and the key under which the merge adds up, is a `Row`:
an event and its step. `work` is what the backend in turn is doing, `reported` the list
`per_backend`, `verdict` what is returned or raised. Each answer of the model is
an action, and so is its failure (`CallRaises` and its retry, `NoAnswer`).
`Mid` and `ShownAsUpper` are the two computations of the middle in
`_find_error_in_segment_recursive` and `_probe_segment`. `Ranking` is both
merges; their product of doubts is kept in integers on a common scale, and
every backend weighs the same, which is the default. The sorts are `FirstOf`,
the first elements of a set in an order, with the order each `sort` has, down to
the position that a stable sort falls back on; the confidence by which
`counterfactual` settles equal probabilities is a choice (`Turns`).
Confidences are tenths; prompts and corrected actions are left out.

### Discussion (`inspect/ui/discussion_store.py`, `routes.py`)

One discussion: `exists` and `version` are its session row, `messages` its rows.
`window` is what each client shows. A `Window` is a browser with its forms, an
`Editor` any other user of the store. `LoadSession` and `LoadMessages` are one
GET in two reads. `request` is a POST of a message in the route's steps:
`ReadPrior`, `AppendQuestion`, `ReadSession`, then the model, `AppendAnswer`,
`ReplyTo`, or `HandlerFails` at any of them. `SendAgain` repeats a request under
the same id. `AppendMessage` is the store's transaction with its idempotency and
its check of the version. Changes by editors are bounded by `MaxVersion`.

### BranchStore (`inspect/ui/branch_store.py`, `routes.py`)

Two JSONL files and the requests on them, in one server process, which may be
killed and started again. A file is the set of records its lines hold, whether
its last line was cut short, and which record, if any, lacks only its newline
(`KillServer` leaves either: `CutShort`, `Unended`); the order of
records and the lines that are no JSON change nothing, since both readers search
by id and skip what does not parse. Records that cannot be read back are those
of a line that the next append continues, and those whose text holds a separator such
as U+2028, which `json.dumps(ensure_ascii=False)` writes raw and
`str.splitlines` ends a line at (`Readable`, `Ended`, `Lost`, `Texts`). `ReadToPatch` and
`WritePatched` are the two accesses of a PATCH; the other requests make one.
`overlapped` remembers whether a PATCH overlapped a change, `garbled` which
records could not be read back.

### Workbench (`workbench/`, `inspect/ui/manager.py`)

`manifest` is what each run's manifest says and where it lies, `traces` and
`reports` are what is stored. `Create` … `Complete` and `FailRun` are
`execute_run` in the order of its writes; `BindSession` moves the manifest.
`TakeStartLock` … `AwaitReady` are `ensure_ui`: the lock, the lookup and the
read of the manifest, the reuse of a server, its start, the state file before
and after it is ready. `child` is the server each process has started: starting,
serving, `late` (it came up only after its starter had let go of the lock) or
gone. `listener` is who has bound each port, which may be a program that is no
part of the workbench (`StrangerComes`); whoever it is answers the probe.
`uiState` is the state file. A port that `_free_port` found free may be taken
before the child binds it (`ServerFails`). `KillProcess` releases the lock and
leaves the server.

### DshBridge (`integrations/dsh-agentdebugx/`)

The host is one event loop: `SendRequest`, `GiveUp` (timer, abort or failed
write), `ExitSeen`, `ModelEnds` and `CloseBridge` are callbacks; `Accept` is a
line of output, and `turn` holds the loop until the lines that came together
are accepted (`EndTurn`), when promises that were settled give their routes
back. The bridge is one thread: `Read` serves a request or a reply, `AskModel`
waits inside a diagnosis for a reply and serves requests meanwhile, so
diagnoses nest on `stack`. `via` is the table of open requests, `routes` the
tokens that may call the model.

## 3. The runs

The largest are `inspector` (1.5 million states) and `gui` (1.9 million), each
about two minutes with two workers. Bounds are constants of the
configurations.

| run | instance | result |
|---|---|---|
| `lifecycle` | one hook at a time over four events, three kinds of transcript with noise and runs of AgentDebugX, a torn tail, a kill | `AnsweredIsStored`, `ConsecutiveTracesDiffer` hold |
| `race` | a hook and a hook or `capture reconcile` at once, two notifications, a kill | `SessionNamesNewestTrace`, `ProgressIsBacked`, `CommittedIsStored`, `FilesMirrorStore`, and the refinement `StoreIsALog` hold |
| `recovery` | one process, two events, a kill, a fault, a torn tail; the command is run again while there is work | `EveryReceiptIsSettled` holds |
| `lost` | two Stop hooks | `AnsweredIsStored` is violated |
| `runner_service` | two jobs, keys, calls and threads, a restart (symmetric) | `QueuedIsPending`, `CancelIsBinding`, the refinement `LifeSpec` hold |
| `runner_live` | two jobs, one thread | `EveryJobEnds`, `CancelledJobLeavesQueue` hold |
| `rerun_client` | one client with a retry, two calls, one thread, a restart | `SucceededIsFetchable`, `ReturnedIsOwnResult`, `RaisedIsCancelled`, `ServiceSpec`, `EveryClientEnds` hold |
| `rerun_duplicate` | one client, a retried POST | `OneRolloutPerSubmission` is violated |
| `gui` | lesson memory: three threads, one reading twice, both rules, three lessons, a failure. Pipeline: two tasks, one worker, two runs, a kill. Taxonomy: three cases, two codes, three runs, a crash. Episodic store: two processes that create, change and read it, three records of two lengths, a kill. Loggers: two on one file, two messages. Attribution: three ensembles, up to eight events, two of one step | `WriterIsAlone`, `SleepersHaveAWaker`, `AddedStaysReferred`; `SummaryMatchesResults`, `AnalysedIsRecorded`; `TrailIsAChain`, `AuditedHasResult`; `AddedIsKept`, `StoreIsExact`, `ListIsComplete`; `ClosedLoggerLosesNothing`; `BisectFindsRoot`, `BisectIsLogarithmic`, `AgreedIsFirst` hold |
| `skips` | the pipeline of `gui/__main__.py`, two workers, two runs | `SkippedWhenAsked` is violated |
| `inspector` | discussion: a window, an editor, two questions, pages of two messages. Files: two threads, two traces, two records, texts that break a line, a kill. Workbench: two runs on two stores, a viewer, two ports, a kill, a server that exits, a stranger. Plugin: two deep diagnoses and a capture, two processes | `AnsweredIsInDiscussion`, `SameVersionSameMessages`, `AskedOnCurrentMessages`; `StoresAreExact`; `ManifestIsBacked`, `GivenUiServesRun`; `RequestIsUnderWay`, `OnlyLentRoutesAreUsed` hold |
| `dropped` | two threads, one trace, two records | `AppendedIsKept` is violated |

Why these bounds are enough to be interesting:

* *Capture.* Three records hold a turn and the start of another, a turn with a
  run of AgentDebugX, or a response after noise: each way in which counts of
  events and last ids can mislead the duplicate check. Two notifications are
  the least with which an older snapshot overtakes a newer. With a kill or a
  fault, two are also enough for a receipt to be left, found by a later hook or
  the command, and settled; the lifecycle run has three. The race run
  has one kind of event, Stop; the proofs cover every set of them, and the
  lifecycle run the others one at a time. `AnsweredIsStored` is checked
  without races only: with them it fails (`lost`). `ConsecutiveTracesDiffer`
  likewise is a property of hooks that do not overlap.
* *Runner.* Two jobs, calls and threads make every pair of handlers, and every
  handler with every step of `execute`, meet on one job. The live run keeps one
  thread so that a job can wait behind another that never ends.
* *Executor.* One retry with two calls lets a late call overlap its repetition.
* *Episodes.* Records of different length let a short text be written over a
  long one, which is what makes leftovers visible. With two processes that do
  everything, each can be killed in a change and the other find what it left. A
  store whose changes overlapped is not followed any further, since nothing is
  claimed of it.
* *Lessons.* A reader that reads twice, a writer and a third thread are the
  cycle `dump` can close, and one that it cannot. Three lessons with a threshold
  of two let a rule fire on what another rule has replaced.
* *Pipeline and taxonomy.* Two runs over two tasks let a run meet what a killed
  one left for each of them; three starts let a resumed run be resumed.
* *Discussion.* Two questions with their answers do not fit on a page of two,
  and a deletion gives a sequence out again between them.
* *Workbench.* Two stores on two ports let a port come back with the other
  store while a state file names it. One stranger can take the port of a state
  file, or the one that a child is about to bind.
* *Plugin.* Three requests let one diagnosis run inside another and a third
  request arrive there; the second process outlives the first.
* *Loggers.* Two loggers are what it takes for one to close while the other keeps
  the handle, with two messages one of which may still be in the buffer.
* *Attribution.* Eight events have segments of even and odd size down to two;
  short trajectories have two events of one step, an event without a step, and a
  finding of no event (`Indices`), which is where rows and steps differ;
  `LastPlace` is the code's 10**9; three backends with rankings of different length and a budget of two let each
  kind of ranking be alone, first and cut off.

`CHECK_DEADLOCK FALSE` is set where the system may really stop: the host of
Capture may write nothing more, a client may be done, all runs of a pipeline may
be over, and in the lesson memory the second read of `dump` may block a writer
for ever (see below). The runner checks for deadlock and has none.

Symmetry is used where the cfg says so and only for constants no definition
tells apart: in `inspector` the requests and the ports, in the runner runs everything but for
liveness, which is checked without it.

## 4. Fairness

* Capture: `FairSpec` says that a hook that was started runs on
  (`WF(Handle(p))`) until it is killed: the operating system schedules it. The
  host owes nothing. `RecoverySpec` adds that somebody runs `capture reconcile`
  again as long as it has work. That is an assumption about users and not about
  the code: nothing schedules the command, and without it a receipt left by the
  last hook of a project stays pending.
* Runner service: handlers and pool threads are scheduled. That the
  application's callback returns is *not* assumed of the service;
  `EveryJobEnds` has it as a premise (`CallbackReturns`), and
  `CancelledJobLeavesQueue` holds without it.
* Executor: only the client itself moves and its clock ticks. Nothing is
  assumed of the service or the network; `EveryClientEnds` still holds, since
  each request times out and attempts are bounded.

The other modules state safety and assume no fairness. Where one might expect
liveness the code does not give it: a reader that reads twice can be blocked
for ever, a logger whose worker died is never closed, a diagnosis whose reply
was dropped waits until its request times out. `SleepersHaveAWaker` and
`RequestIsUnderWay` are about the rest: that no wakeup is lost as long as no
second read sleeps, and that no request is forgotten.

## 5. The proofs

The modules named `…Proofs` hold for every value of the constants. They rest on
the named assumptions of the modules they prove about: bounds are naturals,
`None` and its like are no other value, the sets counted with are finite. Three
theorems have one process or one worker as a hypothesis and say so; without it
what they state is false, as the runs or sections 3 and 6 say. Those about the
episodic store and the branch files are about histories without overlapping
changes (`overlapped`), which is a part of the property.

**Capture** (`Invariance`). The safety properties are not inductive alone. That
`session.json` mirrors the store after `CloseCommit` needs to know what was
written before it, and that nobody wrote in between. `IInv` adds `LockHeld`
(the write lock is held exactly between `OpenCommit` and `CloseCommit`),
`InFlight` (the holder's trace is not stored yet, its file is there under the
next number, and at the end the index is the stored list and that trace) and
`Notified`. Most steps leave the tables and files alone and are dispatched by
one lemma (`NoCommit`); `OpenCommit`, `WriteIndex`, `CloseCommit`, `NoOp` and
`Crash` have steps of their own. From it follow `TypeCorrect`,
`SessionIsCurrent`, `CommittedIsKept` and
`FilesFollowStore`. `Refinement` shows that `CloseCommit` is `TraceLog`'s
`Capture` and every other step a stutter. `ProgressIsAlwaysBacked` is about any
number of hooks at once: the size in the session row and the boundaries that
receipts have taken never go beyond what is stored. `SharedInv` carries it: what
a hook has read is a beginning of the transcript as it is now, what it saw in
the session row is still backed, and one about to record a no-op has found all
of it covered (`SharedHookOK`).

`AnsweredIsStoredAlone` and `ConsecutiveTracesDifferAlone` assume one process
(`Proc = {p}`), because with two the run `lost` refutes the first; kills,
replays, torn tails and transcripts of any length stay. `SoloInv` says up to
which length the store holds all responses that last (`Covered`), and that each
record of progress speaks only of such lengths: the session row, every boundary,
every receipt that is settled, and the answer of a hook (`HookOK`). That stays
true while the transcript grows because what is kept of the first n records
does not depend on what follows them (`KeptIsStable`), but for a turn that
becomes a run of AgentDebugX, which only takes responses away
(`LastingLasted`). No induction over transcripts is needed.

**Runner** (`Invariance`). That a job never ends twice needs to know that it is
never in two places. `IInv` says so (`RunsOnce`: with one call about to enqueue
it, once in the queue, or with one thread), ties each thread's place to its
job's status (`WorkersOwnJobs`), and each handler's place to what it has seen
(`CallsOwnJobs`). `Refinement` maps `SubmitRegister`, `SetCancel`, `Start`,
`SettleCancel`, `Succeed`, `Fail` and `Restart` to the actions of
`JobLifecycle` and the rest to stutters. `CancelHolds` and `NoJobIsStranded`
strengthen `IInv` once more.

**Executor** (`HttpRerunProofs`). The state of a client is tied to the service
by `HInv`: what a call was answered is true of its job (`CallInv`), the job of a
client is its own and as far as the client was told (`Owns`), the call it waits
for is the one it made (`Linked`), and a fetch that got past the lock of
`get_job` finds the result (`Fetches`). It needs the invariant of the service,
which in turn needs that the clients ask only what the service expects:
`UsesService` and `NextIInv` give both in one induction. Hence
`ServiceUsedAsSpecified`: through lost requests, repetitions and restarts the
clients drive the service only as its specification allows, so the theorems
above hold for them; and `FetchFindsResult`, `OwnResultReturned`,
`NothingRunsOn` for what they were told, return and leave behind.

**Lock and lessons** (`MemoryProofs`). `LockInv` says what the counters count
(`Counted`: `readers` is the number of threads that hold the lock plus those
that hold it twice, `waiting` those that sleep to write or were woken) and that
whoever sleeps sleeps for a reason that is still there (`SleepsForAReason`).
Mutual exclusion follows from the first, and that sleepers have a waker from the
second. `LessonUsesLock` shows that the store uses the lock as specified, so
both hold in it. `AddedStaysReferredHolds` rests on `LessonInv`: an episode whose
addition returned is referred to by a stored lesson, by a lesson that the one
thread that writes has popped, or is in one of the two histories (`Accounted`).

**Episodic store** (`MemoryProofs`). The three theorems are for any processes that
create, change and read the store, records of any length and any number of kills,
as long as no two changes overlapped. `SharedInv` says that then there is one
process with `StoreInv(p)`, and when it rests any other may take its place
(`TurnsAreTaken`). `StoreInv` says that the file is always the beginning
of the text of a store that has all that was kept (`FileHasKept`), and how far
p is with it (`FileIsWritten`, `WriterKnows`). What makes that enough
is `ReadBack`: no proper beginning of a text can be read, since its end is
nowhere else in it, and the whole of it parses to the records it was made of. A
reader that meets a change therefore fails or sees a whole store, never a shorter
one, although the lock covers neither the truncation nor the last of the buffer.
`TextIs` and `ParseIs` are inductions along the text, from `NaturalsFrom` (the
well-foundedness of the naturals); `StepsExist` gives the recursive functions
their values. `MemoryTypeOKHolds` adds that no store has a record twice.

**Taxonomy** (`GuiProofs`). The chain needs to know what a running driver
knows of the trail (`DriverKnows`): its taxonomy is the one the trail ends with,
and each case the trail names is behind it or in its list of cases done. That
is what makes a fork or a second entry of a case impossible.

**Pipeline** (`GuiProofs`). `SummaryMatchesResultsHolds` is for any pool, tags,
runs and kills, and for both copies of the code. `PipelineInv` says that no two
workers have the same task or one that was settled (`WorkerOK`), so that a
result file has one writer in a run and an entry that was made stays true of its
file (`EntryOK`). `AnalysedIsRecordedHolds` assumes one worker; with two, lines
are lost. `RecordedOK` follows a line through the rewriting of the index and of
the store: it is in the file, or in what the worker holds of it while the file
is empty (`InIndex`, `InStore`). A kill in between ends the run, and what is
claimed is claimed of runs that reached their end.

**Loggers** (`GuiProofs`). `ClosedLoggerLosesNothingHolds` needs the count of the
shared handle to be exact (`CountOK`: it is the number of loggers that hold a
reference, in their list or in the hands of the thread that unbinds), so that no
logger closes it under another, and the queue to be (`QueueOK`: unfinished tasks
are those queued and the one in the worker's hands), so that `join` returns only
when all was given to the handle. `OwedOK` ties both: a message that is owed and
neither written nor buffered waits in the queue or with a worker that knows the
files; and what is buffered has a handle that is open (`BufferStep`), since
closing it flushes it.

**Discussion** (`InspectorProofs`). All three theorems rest on versions that
rise with each change: what a window shows under the current version is current
(`WindowOK`), and a question that was written has the version it was sent under
behind it (`RequestOK`), so it cannot be written again. That an answer is after
its question rests on `NextSequence` being above all sequences there are.

**Branch and case files** (`InspectorProofs`). `StoresAreExactHolds` is for any
threads, traces, texts and kills of the one process: as long as no PATCH overlapped a change, what a
PATCH holds in memory is the file as it is but for its evaluation (`PatchOK`),
so writing it back changes that one record; and a record that cannot be read
back takes no other with it.

**Plugin** (`BridgeProofs`). `BridgeInv` says of each open request and the process
it was written to that it is in its input, on its stack, in its output, or that
the exit of the process is still to be seen (`PendingIsWorkedFor`). Each step
moves it on: what is read is served or nested, what is finished is answered,
and death makes the process unseen. `LentIsPending` says that between turns no
route is lent to a settled promise, which is `OnlyLentRoutesAreUsedHolds`.

**Workbench** (`InspectorProofs`). `RunOK` ties what is stored to where
`execute_run` is. `StateFileOK` says that a server of the workbench that came up
in time and listens on the port the state file names serves the store it names
(`Passes`), and `StarterOK` the same of the port of a child that is being started,
because the only process past the start-up lock removes the file before it
starts another server; `ListenerOK` that whoever has bound a port is up.

**Attribution** (`AttributionProofs`). `SegmentHasRoot`: as long as the model
named the right half each time, the event to blame is in the segment that is
left. `Halves` shows that both computations of the middle agree and neither
half is empty, for segments of every size. `BisectIsLogarithmicHolds` adds that
the distance between the ends, times two to the number of questions asked, stays
below the number of events (`SegmentHalved`). What `PowerOfTwo` computes is
proved from the well-foundedness of the naturals (`NaturalsFrom`,
`PowerOfTwoIs`), because the library's theorems on recursive functions cannot be
instantiated here.

`AgreedIsFirstHolds` is about the merge. A Borda ranking keeps first the row that
all backends put first only if no backend names a row twice: one named again
further down would get points again. That is what `NamingInv` carries:
`IsRanking` of every report (`AllRank`) and of what the backend in turn has
collected, which is disjoint from the events it still has to ask about
(`NamesOnce`), each of them once. It rests on the candidates of
`counterfactual` being distinct (`CandidatesAre`: a finding that also recorded
an error is taken once) and on the sorts losing and doubling nothing
(`FirstOfIs`, `ByRescueRanks`, `SpectrumRanks`). `FirstOf` counts what comes
before an element; that the counts are 0, 1, 2, ... is a counting argument (an
injection between sets of one size is onto), and `FirstOfSorts` says that the
result is in the order and nothing left out comes before it. Then the first of
a ranking of n gets n points from it and every other row at most n - 1
(`FirstGetsMost`), so the agreed row gets the most in total (`SumGrows`,
`AgreedGetsMost`) and is the one that nothing comes before (`AgreedTops`), the
tie-breaks included.

Left to TLC: all liveness (the prover has no ENABLED), `EveryReceiptIsSettled`,
`EveryJobEnds`, `CancelledJobLeavesQueue` and `EveryClientEnds`. The four
properties that a run refutes have no theorem; every other property of the runs
has one.

## 6. Where code and documentation disagree

These have a run that ends in a counterexample; `PROJECT.json` quotes the lines.

* `lost`: a hook with an *older* snapshot reconciles away the pending receipt of
  a newer one, which then answers `captured` and stores nothing.
* `rerun_duplicate`: two POSTs of one key in flight create two rollouts.
* `skips`: the pipeline of `gui/__main__.py` passes one argument too few, and
  takes over existing results although `--skip-existing` was not given.
* `dropped`: a PATCH of a branch reads and writes back under two acquisitions of
  the lock, and a branch a rerun appended in between is gone.

What else was met while modelling, and is visible in the modules:

* Capture. `capture/repository.py:186` writes a trace's file before the
  transaction commits, so a hook killed in between leaves a file whose number is
  used again, against "An existing file is never rewritten". A hook whose commit
  went through and whose reconciliation finds the database busy marks its
  committed receipt failed (`capture/service.py:335`); if an older snapshot is
  committed meanwhile, no replay can settle it: receipts are sure to be settled
  only if hooks do not overlap, as in the run `recovery`.
* Runner service. `execute` catches `Exception` only
  (`rerun/http_service.py:162`): a callback that raises `SystemExit` or another
  `BaseException` leaves its job running for ever. `EveryJobEnds` has a callback
  that returns or raises an `Exception` as its premise.
* Episodic store, two changes at once (`AddedIsKept` without `~overlapped` fails):
  p1 and p2 both read the empty store in `add`; p1 opens the file, writes its
  record and returns; p2 opens it, which truncates it, and writes its own record
  only (`gui/memory/episode_memory.py:168`); the same with the look for the
  file and its creation (`:99`). The docstring (`:92-93`) says "All public methods
  acquire a file lock before reading or writing so that multiple processes (e.g.
  parallel workers) can share the same store safely."
* Lesson memory. `dump` reads again inside its read
  (`gui/memory/lesson_memory.py:572`): a writer that starts to wait in between
  blocks it, and is blocked by it. That is the case `SleepersHaveAWaker` leaves
  out. `update` deletes before it inserts. A merge with a threshold above one may
  get an empty list, and the popped lessons are gone.
* Pipeline. Two workers lose lines of the index. A worker killed after its
  result file has its episode stored by no run that skips. `worker.py` calls
  itself thread-safe.
* Taxonomy. A line of the audit trail that was cut short makes `--resume` raise
  until somebody repairs the file; an unterminated one is spoilt by the next
  entry.
* JSONL files. A line without its end swallows the next record, and one that lacks
  only its newline is lost with it. So does a text
  with U+2028, U+2029 or U+0085 in it (`inspect/ui/branch_store.py:118`, `:132`):
  the branch, the case or the evaluation is answered ok and gone. The summary
  index (`gui/pipeline/results.py:118`) and the audit trail
  (`gui/evolving/runner.py:230`) are written and read the same way; their models
  leave the texts out.
* Workbench. Who answers on a port is not asked for a name: `_healthy`
  (`inspect/ui/manager.py:130-137`) takes a 200 from `/healthz`, so another
  program's server, or another project's UI, on the port of the state file (`:53`)
  or on the one chosen for a child (`:80`) is given out as the run's UI. So is a
  server of this workbench for another store that came up after its starter had
  gone and took the port first. `GivenUiServesRun` names both exceptions; without
  either of them it fails. A run that was killed stays "running". A manifest that is moved
  between the lookup and the read raises. A starter that was killed leaves a
  server no state file names, and a change of the store leaves the old one.
* Plugin. A late error answer of a request that timed out fails all open ones.
  A diagnosis served inside another drops the replies to the outer one, which
  then waits until it times out, and the limit on the depth is not reached
  because `HostLLMClient` does not pass the depth on. A reply for a process that
  died goes to its successor, whose call ids start again at one. The exit event
  of an old process clears the entry of the new one. Requests after `dispose`
  start a process nobody ends.
* Logger. An exception in `print` ends the worker, and `close` then waits for
  ever. Messages still queued at `unbind_files` are not written. `close` flushes
  nothing while another logger holds the handle ("Flush queue, stop worker, and
  release bound files", `gui/utils/logger.py:322`): what it has written may be in the
  buffer still when it returns. A write or flush that the system refuses is
  swallowed (`:77`, `:100`), which is not in the model.
* Attribution. The merge adds up under the key of event and step
  (`diagnose/attribute/attribution.py:2253`, `:2280`), though it is commented
  "keyed by canonical step identity": backends that agree on a step but name
  different events of it split their points, and another step may come first.
  `AgreedIsFirst` is about rows. In the spectrum ranking `step_index or 10**9` puts step 0 behind
  all steps of the same score. The fallback's ranking counts as the backend's
  own, though "Provenance is HONEST" and the budget counts "successful"
  backends. A trajectory of one step is blamed without asking.

## 7. What is not modelled

* Language models, prompts, heuristics of the detectors, recovery hints, format
  conversions (`ingest`, `schema`), rendering (`inspect/ui/views.py`, most of
  `routes.py`, `gui/vis`), argument parsing (`cli`): pure functions of one
  input, data to the parts modelled. They are most of the lines of the
  repository, which is why the map covers a small share of them.
* The capture configuration (`capture/config.py`) is read, changed and replaced
  without a lock by a command a user types; two of them at once is the only
  hazard.
* The rerun workflow, the process and continuation executors, batch: one caller
  in one process, waiting for one thing.
* The hub copies to remote repositories, whose side is out of reach; host
  integrations install files.
* The Windows branch of the file locks.
* The truncation of long transcripts (`capture/filtering.py:50-62`): what is kept
  of a transcript is not cut to `MAX_TRAJECTORY_CHARS` here, so a response that
  only the cut leaves out has no counterpart.
* In the JSONL files, a kill in the middle of a character, after which the file
  is no UTF-8 and every read of it raises; and several servers on one directory,
  which the lock of a process does not cover. In `ensure_ui`, its parameter
  `port`, which no caller passes.

`PROJECT.json` gives the reason for each component.

## 8. Plan

Done: the modules above with their runs, and the proofs of section 5.

What is left would be a model of the capture configuration.
