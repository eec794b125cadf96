# TLA+ models of kou-conveyor

kou-conveyor runs agents. A *runner* process turns prompts into a sequence of LLM
turns and asynchronous operations; a *session* is the append-only history it keeps,
from which a later run goes on. This directory models the core of it - the coordinator
with what it talks to, the manager of its operations, and the file its session is kept
in with those who rewind, branch and read it -, checks the models with TLC and proves
theorems about them with TLAPS. File names below are relative to the repository's
`harness/` unless they start with `cmd/`.

    tlc -workers 2 -config MCInbox.cfg MCInbox           # one run
    tlc -workers 2 -config MCCrash.cfg MCCoordinator
    tlc -workers 2 -config MCFile.cfg MCSessionFile
    tlc -workers 2 -config MCManager.cfg MCOperationManager
    tlapm OperationManagerProofs.tla                     # one proof module

## The system

| Part | State | Operations | Talks to |
| --- | --- | --- | --- |
| Session inbox `inbox/` | IDs seen, a FIFO queue, in memory | `Submit`, its goroutine `run`, `Output` | senders: prompts, the runner's controls, steering from stdin, heartbeats of the coordinator itself; read by the coordinator |
| Coordinator `coordinator/loop.go` | the state derived from the log; the state of the run (request in flight, deferred input, grace period, counts, bounds) | one event loop: an input, an operation update, a timer or a model result, then the same tail every time | everything below |
| Checkpoints `coordinator/checkpoint.go` | one snapshot in the session | save after a compaction, restore | session store, context builder |
| Session store `sessionstore/` | items, latest state of each operation, checkpoint | append an item, append a status with its operations, save an operation, resume, fork | files (`localfile/`) |
| Operation manager `operation/local_manager.go` | running operations, pending updates, active primitives | `Add`, `Cancel`, primitive events, drain at the end | operations, primitives, remote jobs |
| Operations and primitives `operation/`, `primitives/` | a durable state per operation | one step per primitive event | the operating system |
| Context builder `contextbuilder/` | messages, calls, a compaction boundary | add, build, build a compaction | called by the coordinator, no I/O |
| LLM adapters `llm/` | none between calls | one request, retries of its transport | providers |
| Tools, plugins, skills, code VM | registries | lookup, translation | pure |
| Agent runner `cmd/internal/agentrunner/` | steering read from stdin, events written | builds and runs one coordinator | a cockpit over pipes |
| Cockpits `cmd/internal/cockpit/`, `cmd/kou-conveyor-web/`, `cmd/kou-conveyor-tui/` | prompt queues, active and detached runs | enqueue, send now, pause, rewind, shutdown | runner processes, browsers |
| Canvas, accounts gateway, relay and tunnel | boards of agents; accounts and quotas; connections | messaging; HTTP | providers, hosts |

What is hard, and what makes each part correct:

* **Inbox.** Senders repeat inputs they are not sure of, several at once, across
  restarts, while the inbox may end. Each input reaches the session once, and nobody
  blocks for ever.
* **Coordinator.** One goroutine, but its events come in every order: prompts during an
  answer, results of requests that were given up, tools that end during a compaction, a
  stop at any moment, timers against late answers. What it records must stay
  meaningful: responses answer the turn before them, inputs keep their order, work is
  recorded before it starts. What it owes must come: recorded input is read, a stop or a
  spent budget ends the run, deferred input goes out.
* **Checkpoints and restore.** A run may crash between any two appends. The next run
  goes on from the log, or from a checkpoint and the items after it, and both must give
  the same session.
* **Store.** An append truncates, writes and syncs, and each may fail or be the last
  thing the process did; reads are cached and taken from checkpoints, while front-ends
  read, branch and rewind the same file. What is committed must stay readable and be read
  alike by everyone, and a rewind must go back to a state the session was in.
* **Manager and operations.** Commands, timers and cancellation race; updates wait in a
  queue while their operations end; the process may crash between beginning work and
  recording that it did. The drain must end, no command may outlive its operation, and
  what ended or is known to have begun must not be begun again.
* **Queues of the cockpits**: see the plan.

`PROJECT.json` lists every hazard at its line, with the properties that watch it, or why
none does yet.

## Modules

| Module | Models |
| --- | --- |
| `Inbox` | `inbox/local.go` |
| `OnceDelivery` | what the inbox promises: an abstract specification |
| `SessionItems` | the items of a log, and the state `addItemToLocalState` derives from them |
| `Coordinator` | `coordinator/loop.go` and `checkpoint.go` with log, store, inbox, manager and model |
| `OperationLifecycle` | what the harness promises of an operation: an abstract specification |
| `SessionRecords` | the records of a session file and what is read from them: whole, from a checkpoint, for a fork, for a rewind |
| `SessionFile` | one session's file with its runner, rewinds, branches and a front-end that reads it |
| `SessionLog` | what the session store promises: an abstract specification |
| `SessionFileChecks` | properties of the file, and its refinement of `SessionLog` |
| `OperationManager` | `operation/`: the manager's actor, the operations' steps, their primitives, timers and processes, over crashes |
| `OperationManagerChecks` | its properties, and its refinement of `OperationLifecycle` |
| `CoordinatorChecks` | properties over the log, the refinement mapping, fairness and liveness |
| `MCInbox`, `MCCoordinator`, `MCSessionFile`, `MCOperationManager` | instances for TLC |
| `InboxProofs`, `OperationManagerProofs` | theorems about those components |
| `CoordinatorProofs`, `LifecycleProofs`, `ArrivalProofs`, `ConversationProofs` | theorems about the coordinator, each module extending the one before it |
| `SessionReadingProofs` | lemmas about reading a session file, whole and from a checkpoint, and about cutting it |
| `SessionFileProofs` | theorems about the session file, and that it implements `SessionLog` |

The modules meet at two places. `Coordinator` appends to a log in one durable step:
`SessionLog` says what such a log is, and `SessionFile` implements it. `Coordinator` works
with a set of running operations and their updates: `OperationLifecycle` says what is
promised of them, and both `Coordinator` and `OperationManager` implement it.

### Inbox

Every variable is one of `run`'s locals, or where a caller of `Submit` stands
(`submitting`). `Take` is the `submissions` case of the select, `Output` the other one,
`Return` its end. `Cancel` is the end of the run that owns the context. `Fairness` says
that the select serves every blocked sender (a channel queues its senders), that the
reader reads, and that a sender blocked in `Submit` notices the inbox's end. Payloads
are left out.

### SessionItems and Coordinator

The coordinator applies one function to every item, when it records it and when a later
run replays it. `AddItem` is that function; `h` is the state it derives. `r` is the rest
of `loopState` and `stopState`: what a run holds in memory only. `log`, `saved` (the
latest version of each operation) and `ckpt` survive a crash; `Exit` loses everything
else. Three values of `h` (verifications, work since the last one, the stop of the run
before) are changed by the live loop without an item; `h.history` is the code's
`replayHistory`, what replay would have made of them.

`pc` says where the goroutine is. The code's handlers are cut only where it appends to
the log, so every action appends at most once and a crash may fall between any two
appends. `todo` holds the inputs a handler is about to record, in order; while it is not
empty the only step of the goroutine is `RecordInput` (`At`).

    replay -> schedule -> reconcile -> start -> turn or select           (Run, before its loop)
    select -> inputs -> updates -> reconcile -> due -> decide            (one event)
    decide -> turn -> begin -> select, or idlecheck -> select or the end
    an answer: schedule -> count -> answer -> verify -> dispatch -> inputs
    a summary: checkpoint -> inputs

| Code | Actions |
| --- | --- |
| `restore`, `restoreCheckpoint` | `Start`, `ReplayItem`, `Restore` |
| `scheduleToolCalls`, `reconcileToolCalls`, `dispatchOperationsToManager` | `ScheduleToolCall`, `ScheduledAll`, `ReconcileToolCall`, `ReconciledAll`, `StartLoop`, `DispatchCalls` |
| `handleInboxInputs`, `handleInboxInput`, `slurpChannel` | `TakeInput`, `RecordInput`, `InputsSlurped` |
| `handleOperationUpdate`, `verified` | `TakeUpdate`, `UpdatesSlurped` |
| timers of `Run` | `DeadlinePasses`, `ReportDue`, `QuotaLifts`, `GraceEnds`, `ToolWaitEnds`, `PostHeartbeat` |
| model results, `recoverFromOverflow`, `waitForQuota` | `DropResult`, `AnswerArrives`, `SummaryArrives`, `QuotaRefuses`, `SummaryOverflows`, `AnswerOverflows`, `RequestFails` |
| `saveCheckpoint`, `compactedLive` | `SaveCheckpoint` |
| `countTurn`, `answerStop`, `verify` | `CountTurn`, `AnswerStands`, `AnswerFailed`, `AnswerCut`, `AnswerRefused`, `AnswerWhole`, `Verify` |
| end of `processEvents`, `deliverDeferred` | `ProcessDue` |
| `handleStop`, `cancelOperations` | `CancelOperations`, `AwaitCancellation` |
| `requestModelResponse`, `startTurn`, `compactionDue` | `Decide`, `BeginCompaction`, `DropCompaction`, `TellFirst`, `BeginTurn` |
| idle stop | `StopWhenIdle` |
| senders, manager, process | `Submit`, `OperationAwaits`, `OperationEnds`, `Crash` |

Abstractions, each with its reason:

* An external input is its ID, a control its purpose, a response the set of tool calls it
  makes and how it ends: no decision depends on more.
* The inbox is `seen` and `queued`: what `Inbox` is shown to provide.
* A call submits one operation, which has the call's ID. Translators are the same in
  every run. The manager accepts every operation.
* Request sizes, hence whether a compaction is due and possible, and whether a reminder
  is near, are free choices within the guards the code has besides.
* A timer may fire whenever it is armed. The heartbeat's growing interval and the
  extension of a grace period only move such moments, and are left out.
* `completed` also stands for failed, `awaiting` for canceling: the coordinator does not
  tell them apart.
* No tool is one that only waits for others (`onlyWaits` is false); the file changes a
  runner counts and a background refresh are left out. Inputs of kind crash, which nothing
  produces, too.
* A run ends at any error of its store or builder; a crash stands for all of them.

### SessionRecords and SessionFile

A file is the sequence of its records; offsets are their indices, a record that was only
half written is `torn`, and one that was written after a torn one is `garbled`, since it
makes one line with it. `SessionRecords` translates the head the store keeps
(`sessionHead`: turns, calls, operations, where each operation's state is) and the four
ways to read records: `DecodeLog` (the whole history, what is before the last fork
inherited), `DecodeResumeLog` (the latest valid checkpoint and the records after it,
archived operations loaded from their place), `ForkLog` and `CutLog`. They are folds over
the records, written as functions.

| Code | Actions |
| --- | --- |
| `LockSession`, a run and its end or crash (`localfile/`) | `Start`, `Stop` |
| `sharedState`, `loadWriteState`, `decodeResumeLog`, paging | `ReadSession`, `WriteState` |
| `AppendInboxInput`, `AppendTurn`, `AppendModelResponse`, `AppendToolCallStatus`, `SaveOperation`, `SaveCheckpoint` | actions of these names, `BeginOperation` for a call's first status |
| `append`, `appendFile` | `BeginAppend` in each of them, then `Truncate`, `WriteRecord`, `Sync`, or `AppendFails` |
| `RewindSession`, `LoadSessionBefore` (`cmd/internal/cockpit/rewind.go`) | `Rewind`, `Preview` |
| `BranchSession` (`manage.go`), `Fork` | `BranchScan`, `BranchFork` |
| `LoadSession` reading on (`sessions.go`) | `LoadBegin`, `LoadEnd` |

A branch finds its turn and copies the history in two steps without the lock; the copy is
the session followed from there on. A read of the front-end has a beginning and an end,
so a torn record may be written over in between: it makes one line of the two, and perhaps of
records after them (`LoadEnd`). What it keeps to tell whether it can read on is a place in
the file and the bytes before it (`tail`): those of the record that ends there, or some
that show the torn one. Records that are whole are never written over, for a runner that
forgot its write state takes them for committed. A crash may leave the record being
written torn, or lose one that was written but not synced with the whole machine, front-ends
included.

Abstractions: IDs are used once (they are UUIDs); the answer to a request is appended once,
by the run that made it (a later run makes a request of its own); every write gives the file a
modification time that nobody remembers; a new file may get the inode of one that is gone and
that no reader has open. Of a front-end's last 4096 bytes the model keeps which record they
end: records of one length are taken to differ in these bytes. That a read was overtaken by a
write (`overtaken`) is noted in the model only; no step depends on it. A branch of all of a
session (without a prompt) is left out, and a machine that stops is not looked at during a
branch, which it ends without a trace.
A record is well formed unless torn or garbled. Inputs are prompts and the settings a
runner records before one. The notes, memory and change records
that a rewind also restores, and observers of the store, are left out.

### OperationManager

The manager is one goroutine over unbuffered channels: a send and its receipt are one
step, and an action that has `manager = "running"` as its guard is one turn of its
`select`. A primitive is named by its operation and its correlation (the operation's work,
or one of the two timers of a command's timeout); `prims` holds those the manager will
still hear of, `stage` how far the work is, and `active` is the manager's own count.
`stored` is what the session saved; it survives `Restart`, everything else is the
process's. `Restart` is a crash, or the next run after an end; the command of a crashed
process goes on (`orphans`), as it is in a process group of its own.

| Code | Actions |
| --- | --- |
| `Add`, `addLocalOperation`, `addRemoteJob`, `Cancel`, `Updates` (`local_manager.go`) | `AddLocal`, `AddRemote`, `Cancel`, `Receive` |
| `acceptLocalStep`, `handleLocalPrimitiveEvent` | `Accept` in `AddLocal`, `WorkEnds`, `CommandStarted`, `Progress`, `TimerPasses`, `TimesOut`, `Kill`, `Unclaimed` |
| `run`'s end, `drainLocalPrimitives` | `Stop`, `Drains`, `Drained`, `Close` |
| remote job updates and a handler that closes (`remote_job_handler.go`) | `RemoteUpdate`, `HandlerCloses`, `HandlerStops` |
| the operations' steps (`shell.go`, `code.go`, `file.go`, `skill_use.go`, `image.go`, `value.go`) | `FirstStep`, `Steps` |
| `runProcess`, `awaitProcessCompletion`, `terminateProcess` (`primitives/process.go`) | `Launch`, `StartEnds`, `SkipStarted`, `Terminate`, `GroupEnds` |
| the operating system | `CommandExits`, `OthersExit` |
| the session records an operation; a later process | `Record`, `Restart` |

Abstractions: a timer may fire whenever it is set; that an output needs a second read,
that work fails, and how a command exits are free choices; every signal to a living group
is delivered; there is one remote handler, which may do anything to a job and may close.
What is read, written or printed, malformed events and states, remote requests and MCP
calls are left out.

## Runs

A cfg's bounds are constants of the specification: in `Coordinator` `Runs` (processes of
one session), `Faults` (everything a provider does but answer whole) and `HeartbeatLimit`
(per run); in `SessionFile` `MaxRecords`, `Runs`, `Failures`, `Rewinds` and `Branches`; in
`OperationManager` `Restarts` and `MaxPending` (updates kept while a computation or a remote
job still reports). Each control in `Offered` is submitted at most once a run; inputs,
tool calls and verifications are finite sets, and an ID is used once. `CHECK_DEADLOCK
FALSE` in the runs: after the last allowed run, append or restart the session rests, and
the inbox rests once it ended. `SYMMETRY` is used in `file` and `rewind` only, of the two
inodes, which are only compared; what these runs check is safety.

| Run | Configuration | Shows |
| --- | --- | --- |
| `inbox` | `MCInbox` | two senders, three IDs, one known before: `TypeOK`, nothing twice (`AtMostOnce`), nothing swallowed (`NothingSwallowed`), everything delivered (`Delivered`), every `Submit` returns (`SubmitReturns`); implements `OnceDelivery` (`ImplementsOnceDelivery`) |
| `steering` | `MCSteering` | three prompts, one after tools, two calls, both stops: `ArrivalOrder`, `OnlyPromptsInterrupt`, and under fairness `HardStopEnds`, `SteeringGoesOut`; also the type invariant |
| `stop` | `MCStop` | a hard stop against two calls, a heartbeat and a requested compaction: `StopLeavesNoWork`, `NoNewOperations` |
| `crash` | `MCCrash` | a fork made while a call of its parent ran, two runs that verify, a crash anywhere, two calls: `WriteAhead`, `RecordedOnce`, `IdleLeavesNothing`, `ForkStartsClean`, `VerificationsBounded` (with a bound of one that a restart must remember), under fairness `RecordedIsRead`; implements `OperationLifecycle` |
| `restore` | `MCRestore` | checkpoint, hard stop and crash over two runs: `RestoreIsReplay`, `LiveIsReplay`, `StopIsTold` |
| `answers` | `MCAnswers` | a prompt that interrupts another's answer, compaction, a fault, and turns, compactions and a deadline as bounds, with reports: `ResponsesAnswerLatestTurn`, `IdleAfterAnswer`, under fairness `BudgetEnds` |
| `file` | `MCFile` | a steered session over two runs, crashes, a failing append, checkpoints, a branch: `ResumeIsReplay`, `ReadsAreOfTheFile`, `BranchEndsWithTheTurn`; implements `SessionLog` (`ImplementsLog`) |
| `rewind` | `MCRewind` | two rewinds, previewed or not, of a session of its own and of a branch, beside a run with a failing append, a crash and a front-end: `WriteStateIsFile`, `TranscriptIsOfTheFile`, `RewindGoesBack`, `RewindKeepsOutcomes` |
| `manager` | `MCManager` | an operation of each type, and three pairs, added, canceled, timed out and resumed after a crash: `ActiveIsOutstanding`, `CommandsAreGone`, `NotBegunAgain`, `SavedGoesForward`, under fairness `EverythingEnds`; implements `OperationLifecycle` |
| `verification_count` | `MCVerificationCount` | a violation: see Findings |
| `empty_answer` | `MCEmptyAnswer` | a violation: see Findings |
| `computes_once` | `MCComputesOnce` | a violation: see Findings |

Why the bounds are enough.

* **Coordinator.** Two calls make one end while the other starts, two prompts make one
  interrupt the other's answer, a third makes one wait behind a waiting one. Two runs are
  one restart from anything a run can leave; what a second restart starts from has the
  same form. One fault is each kind of bad answer, refusal, limit or overflow at each
  point of a run; no count (`MaxRetries`, `MaxFailures`, `MaxContinues`, `MaxQuotaWaits`,
  `OverflowRetries`, the compaction breaker) is exceeded by it, and what lies beyond them
  is the end of the run or an answer left as it is. Where a run drops a feature (no
  compaction in `crash`, verification only there) another run has it; a model with
  everything at once is out of TLC's reach.
* **Session file.** `file` begins with a steered turn whose operation has begun, and its
  nine records have room for four more: a save, a checkpoint, the status that ends the
  operation and one more, in any order, by either of two runs; a record more gives a
  second turn or a second checkpoint, not a new kind of file. One failing append tears
  the file or loses its end at each step. One branch may be overtaken by a run. In
  `rewind` the session is in the middle of a turn, with an operation or with another prompt, and
  may become one with both, or it is the branch of a steered one; two
  rewinds make the second meet a preview, a transcript or a write state that the first
  made stale, and two inodes make the second file get the first one's inode. One failing
  append tears the file under the front-end, and the run goes on and writes over it; what a
  run after a crash appends is left to `file`, and to the theorem `RunnerKnowsTheFile`.
  `TranscriptIsOfTheFile` rests on records that differ by their IDs: could a later run answer
  an earlier run's turn, the same record would stand in two files. The size and the time by
  which a read state is used again never decide in `file`: the runner drops what it read
  before it changes the file, and rewinds exclude it. What `ReadsAreOfTheFile` shows there is
  that a state from a checkpoint is not taken for the whole history.
* **Manager.** Operations share the count, the queue of updates and the remote handler,
  nothing else. So each type is checked alone with everything that can happen to it, and
  pairs where two share something: two remote jobs that one closing handler ends, and a
  computation or an edit beside an operation of another kind. One restart meets every
  checkpoint the store can hold; what the next one meets has the same form. Two pending
  updates are one that waits behind another.

Liveness is checked under `FairSpec`. In the coordinator's, the goroutine works when it
can (`Working`), it takes what its channels hold, `time.After` fires, the model answers at
last, an operation that was canceled ends (the manager kills it), and a run that ended is
followed by another. `select` of Go picks among ready cases at random, so each event that
stays ready is taken: weak fairness per kind of event. No fairness is assumed for senders,
for tools that were not canceled (in `SteeringGoesOut` one may run for ever), for the
deadline, for reports or faults. In the manager's, the session receives updates, and of
what can go on - primitives that were started, timers that were set, groups that are
being terminated, and the events of them the manager takes - something does; each
operation takes finitely many such steps, so weak fairness of their disjunction is enough.
A command need not ever exit, a computation only ends for certain once it is canceled, and
nobody has to add, cancel, stop or restart. The runs let only finitely many inputs in, so
nothing needs strong fairness.

### Findings

1. `verification_count`: a failed verification counts twice in the run that made it.
   `verified` raises `state.verifications` (`coordinator/loop.go:865`), and so does
   recording the message that tells the model (`loop.go:1504-1506`). The default bound of
   three, "A prompt is verified up to three times" (the guide's
   `kou-conveyor-plugins/SKILL.md:273-274`), allows two in one run. A restored session
   counts each once.
2. `empty_answer`: "asks again after a refusal or an empty answer"
   (`coordinator/coordinator.go:63-64`), but an answer with no output at all that ends
   normally takes the same way as a whole one (`loop.go:628`), and the run goes idle.
3. `computes_once`: "Resumed after a restart: what the run did is unknown, so it is not run
   again" (`operation/code.go:99-100`), and an edit "computes the result, once"
   (`operation/file.go:130`). But `acceptLocalStep` begins the work when it has queued the
   update that says so (`operation/local_manager.go:274`), and the session saves that
   update later: a crash in between leaves the operation `ready` in the store, and the
   next process begins it a second time. `NotBegunAgain` is what does hold: what the
   *store* knows to have begun is not begun again.

Seen while modelling, without a run: "A file replaced - a rewound session - or written over is
read again from the start" (`cmd/internal/cockpit/sessions.go:265-266`) is not so when the
runner writes over a torn record *while* it is read, and at least 4096 bytes (`loadedTail`)
follow the torn ones: `eachRecord` makes one line of the two, `continued` compares only the
bytes after the seam, and every later read keeps the line it could not read and goes on
from there. `TranscriptIsOfTheFile` therefore speaks of transcripts that were not overtaken; without
that condition TLC finds the case in the `rewind` instance. Also: a timeout that fires when the command has exited, but
before the manager has the event of it, still marks the operation as timed out
(`operation/shell.go:391`), though it came in time; and the command of a crashed process
runs on while the next process reports its operation as failed (`shell.go:217-221` says
that the outcome is unknown, so this is no contradiction).

## Proofs

| Theorem | For every value of the constants |
| --- | --- |
| `InboxProofs!TypeCorrect` | types of the inbox |
| `InboxProofs!DeliveredAtMostOnce` | no input is queued or handed over twice, nor one known before |
| `InboxProofs!MarkedIsKept` | while the goroutine runs, whatever counts as seen is queued, was handed over, or was known before |
| `InboxProofs!KeepsPromise` | the inbox implements `OnceDelivery` |
| `CoordinatorProofs!TypeCorrect` | types of the coordinator's whole state |
| `CoordinatorProofs!OperationsWrittenAhead` | the manager works only on operations the log records and the store holds |
| `CoordinatorProofs!LiveStateIsReplay` | what the live run knows is what a later run would derive from the log |
| `LifecycleProofs!RestoredSessionsAgree` | restoring from a checkpoint, or from all items, gives the state and the operations the log determines |
| `LifecycleProofs!IdleRunsAreDone` | a run that went idle leaves no call and no operation open |
| `LifecycleProofs!StoppedRunsLeaveNoWork` | nor does a run that a hard stop ended |
| `LifecycleProofs!CancelingIsFinal` | a run that is being canceled is given no new operation |
| `LifecycleProofs!OperationsLiveOnce` | the coordinator implements `OperationLifecycle` |
| `ArrivalProofs!InputsRecordedOnce` | no external input is recorded twice, over any number of runs |
| `ArrivalProofs!InputsKeepTheirOrder` | within a run inputs are recorded in the order they came, and none is lost on the way |
| `ArrivalProofs!VerificationsStayBounded` | the failed verifications of one prompt never exceed the bound, restarts or not |
| `ConversationProofs!ResponsesAnswerTheirTurn` | every response answers the turn recorded last |
| `ConversationProofs!StopsAreTold` | a stop is told to the model before the next ordinary turn |
| `ConversationProofs!ForksStartClean` | a fork starts without the operations of its parent |
| `ConversationProofs!FailuresAreAskedAgain` | a first run that recovers from faults does not go idle on an answer that failed |
| `ConversationProofs!OnlyPromptsCutShort` | in a session of one run without faults only a prompt delivered at once cuts an answer short, and nothing a compaction |
| `ConversationProofs!SessionsLeaveForks` | what a session assumes of the log it was forked with, every session provides for every fork of its own |
| `OperationManagerProofs!TypeCorrect` | types of the manager, its primitives and the store |
| `OperationManagerProofs!CountIsExact` | the count the manager drains by is that of the primitives it will still hear of |
| `OperationManagerProofs!NoCommandIsLeft` | no command runs on when its operation ended or the manager closed |
| `OperationManagerProofs!BegunOnce` | what the store knows to have begun is not begun again in any later process |
| `OperationManagerProofs!SavesGoForward` | the store never goes back to an older checkpoint of an operation, nor from its end |
| `OperationManagerProofs!KeepsLifecycle` | the manager implements `OperationLifecycle` |
| `SessionFileProofs!FileInvariant` | the file is one the store writes, and what the runner knows of it is what its records give |
| `SessionFileProofs!RunnerKnowsTheFile` | the size and the head a runner appends by are those of the file |
| `SessionFileProofs!ReadsTheFile` | the file can be read, and every read, cached or not, is of the file as it is |
| `SessionFileProofs!ResumesTheSession` | a run that resumes from a checkpoint sees what one that reads the whole history does |
| `SessionFileProofs!RewindsKeepOutcomes` | a rewind keeps what the operations that remain came to |
| `SessionFileProofs!RewindsGoBack` | a rewind goes back to a state the session was in, before a prompt and its settings |
| `SessionFileProofs!NamesInvariant` | no input and no turn is in a file twice, and a branch in progress knows a turn before its prompt |
| `SessionFileProofs!BranchesEndWithTheTurn` | a branch ends with the turn before its prompt, and with nothing the prompt led to |
| `SessionFileProofs!KeepsTheLog` | the session file implements `SessionLog`, with rewinds and branches in any order |

They rest on the modules' named assumptions only: `InboxAssumption`, `ItemsAssumption`,
`CoordinatorAssumption`, `OperationManagerAssumption`, `RecordsAssumption`,
`ValuesAssumption`, `FileAssumption` and the two named `NoneAssumption` (kinds of the
parameters, finitely many operations, IDs that do not collide, an inherited log that
ends with its fork item, as `forkStoredState` writes it), on `CallAssumption` (`None` is
no append), and on two about what a session begins with. `InheritedAssumption`: an inherited log is one a session leaves
(`LeftBySession`: inputs once, verifications bounded, statuses of calls that were made,
responses to their turns, stops told). `SessionsLeaveForks` shows that this asks no more
of a parent than any session gives, at any moment of its life and at any item it may be
forked at; a session that is no fork inherits nothing. `HistoriesAssumption`: a file there
is to begin with is `Legible`, and names no input and no turn twice. `FileInvariant` and
`NamesInvariant` show that every file a session reaches, over torn appends, rewinds and
branches, is such a file again, and so is an empty one.

**Inbox.** `AtMostOnce` is not inductive: that an ID outside `seen` may be appended needs
to know that everything queued or handed over is in `seen`. The invariant `IInv` adds
that (`Marked`) and the types. `OutputKeepsAll` says that handing over the head does not
change the sequence of all inputs, `EnqueueAppends` what accepting one does to it; with
them each action has a step of a few lines. `NothingSwallowed` is the other direction, an
invariant of the same kind. The refinement maps accepting to adding to the abstract
`accepted`, output to delivery, all else to stuttering.

**Coordinator types.** The invariant is `TypeOK` itself. One lemma per kind of item
(`AddInputType`, `AddTurnType`, ...), joined by `AddItemType`, says that whatever item is
added, the derived state keeps its type; one lemma per handler or group of handlers
follows, and `StepTypes` joins them, one step per disjunct of `Next`.

**Write-ahead.** `WriteAhead` says nothing of where an operation comes from, so it is not
inductive. An operation reaches the manager from the derived state, and the derived state
gets it from an item of the log, from a checkpoint, from the store, or from an update of
the manager itself. `WInv` says of each of these that it names recorded operations only:
those the store has and whose first status the log holds. Three facts make it inductive:
the first status and the operation are stored in one append (`ScheduleToolCall`,
`Verify`), the log and the store only grow (`LogGrows`, `RecordedStays`), and a run that
goes on has replayed at least the items the session was forked with (`Loaded`). The last
is what forks need: the parent's items name operations this session never recorded;
replay knows them until it reaches the fork item, which makes it forget them
(`ReplayItemKeeps`). The lemmas on kinds of steps (`QuietStepKeeps`, `ManagerStepKeeps`,
`RecordStepKeeps`, `ExitKeeps`, `RestoringStepKeeps`) carry the conjuncts once, and each
action is an instance of one of them. TLC checked `WInv` as an invariant of the `crash`
and `restore` instances before it was proved.

**Replay.** `LiveIsReplay` compares the loop's state with a fold over the log. That a fold
over n items exists, how it begins and what the next item does to it, are inductions over
the length of the log; they are done with a set of numbers, not with a predicate
(`NatSetInduction`, from the library's `WFMin`). Then `DerivedGrows` says in one line what
an append does to the fold, and the proof is an ordinary one: `RInv` says that a run that
replays is at the fold of the items it read (`ReplayIsAt`), that a live one agrees with the
fold of all (`LiveIsAt`), and that a checkpoint is a snapshot of the fold at its offset
(`CheckpointIsAt`). `Agrees` leaves out the three values the live loop changes without an
item, and compares what replay would make of them, `h.history`.

**Lives of operations.** Four places know of an operation: the log, the store, the loop's
state, the manager with its updates. `LInv` says how they lag behind each other: what the
session's own items say ended is terminal in the store and its call is done; nothing
starts again after its end; what the log derives is stored; what the manager works on is
unfinished everywhere; its updates end an operation once; and from where the loop
schedules calls on, every call is scheduled and every waiting call has an operation.
`IdleLeavesNothing`, `StopLeavesNoWork` and `RestoreIsReplay` are the case of a loop at rest,
`OperationsLiveOnce` the mapping under which an operation is active while the manager has
it. The proof made one guard of the model true to the code that a run had not needed:
whether an operation is restored depends on what the session's own items show, not those
of its parent (`Restorable`).

**Arrival.** The external inputs among items are a fold as well (`Externals`), taken apart
and put together by lemmas that are inductions over a set of sequences
(`SequenceSetInduction`). Recorded inputs, those a handler is about to record, deferred
ones and those in the inbox are one line (`Line`); `AInv` says that all of it was seen and
that outside a run it is what the log holds. Each step leaves the line as it is, adds an
unseen input at its end, or, at the end of a run, cuts off what no log holds.

**Verifications.** A bound on the failed verifications of a prompt is kept by a count that
replay resets by the prompts it meets. `VInv` says that the bound leaves room for the one
that is running, that at most one runs, that the live count is at least the replayed one
(`CountsAhead`, with finding 1 the reason that it is not equal), and that only the loop
itself says "verification".

**Conversation.** `CInv`: a request in flight has its turn in the log with no turn and no
response after it (`AnswerAwaited`); a stop without an ordinary turn after it is known to the
loop, was told, or heads what is about to be recorded (`StopIsKnown`); statuses are those of
calls that were made; a log past its fork item knows no operation of the parent.

**What the loop owes.** That a failed answer is to be asked for again is only in memory
(`callModel`), and between the failure and the request come schedules, limits, late results,
compactions and stops. `AsksAgain` says, for each label of the loop, where the debt is while
the last response of the session's own is a failed one: a hard stop settles it, the answer
is still being handled, or the turn is asked for or in flight (`Owed`; a request in flight
that compacts does not count). `TurnsComeDue` says that a turn that is asked for is due and
that a check of the limits keeps it only for a quota or a compaction, and `FirstRun` that no
such response exists before the loop starts. It holds of a session's first run only: a crash
forgets the debt, which is a hazard listed without a property. The property speaks of a run
that recovers from faults; with `NoRecovery` the code leaves a failed answer as it is.

**What cuts an answer short.** `OnlyPromptsInterrupt` is a property of sessions of one run
in which nothing fails, forked, if at all, from a turn that was answered (`Undisturbed`, as the
`steering` instance is): after a crash or a failed request a turn follows another without a
prompt between them, which is no interruption. Of these it is proved, whatever the
limits, compactions, verifications and stops. `MayInterrupt` says that a turn may be recorded:
the one before was answered, or is no compaction and a prompt follows it. `AnsweredInv`
says where the loop may rely on that: with no request in flight and no hard stop
(`RestingMay`), where a turn is recorded next (`TurnMay`), and when a turn is asked for during
an answer (`AskedMay`), unless the prompt that asks for it is itself still to be recorded
(`PromptWaits`), with deferred input ahead of it. Only a prompt delivered at once gets that far,
for during an answer everything else is deferred or asks for nothing. During a compaction a
prompt is recorded and asks, but `Decide` lets it wait; the loop tells the two kinds of request
apart as the log does (`KindIsKnown`). TLC checked the invariant on the
`steering` instance, and on one that compacts, before it was proved.

**Operation manager.** None of its properties is inductive. That the count goes down by
one with every event needs that the event's primitive is in `prims`, and that it goes up
by one that a new primitive is not, for which an operation at work must not be added or
start a second timer. `Inv` has these parts: `TypeOK`; `ActiveIsOutstanding`; `Known` (what
the store, the manager and its updates hold is an operation's checkpoint of its type, and
a running one is not at its end); `Works` (only running operations work, and a living
command's operation is in the phase of its command); `TimersSet` (a timer only once the
command was started, never both); `NotAtStart` (what was known to have begun before this
process is not at its beginning); `LastIsEnd` (nothing follows an operation's end in the
queue or the store); `ClosedIsEmpty`. Lemmas say what every step of every operation's
handler has in common (`GoodStep`, by `FirstStepIsGood` and `StepsAreGood`), two say what the
manager does with such a step (`Added`, `Worked`), `StepKind` sorts the disjuncts of `Next`
by what they do to an operation, and one lemma per conjunct shows that each kind of step
keeps it (`CountStep`, `KnownStep`, `WorksStep`, ...). `Invariance` joins them. `BegunOnce` and
`KeepsLifecycle` are read off the invariant, the latter with the mapping that says an
operation is active while the manager runs it. `SavesGoForward` needs one part more
(`Forward`): what the store holds of an operation, its updates on their way in their order,
and what the manager holds are one line in which the rank of a checkpoint only grows; the
lemmas on ranks say that each step of each type of operation goes forward. TLC checked
the conjuncts of `Inv`, and `Forward`, on the `manager` instance before they were proved.

**Reading a session file.** `DecodeLog` and `DecodeResumeLog` are folds, each with its own
step and its own place to start from. `Reading` names the fold of the first n records and
`NatSetInduction` gives what holds of every one of them: the head keeps its type and its
sense (`Sane`: what it owns are turns, what is pending has an operation), and the inherited
part leaves it `Fresh`. That a run from a checkpoint is a run from the start is a simulation
of two folds. `Mirroring` says that one head stands for another: all the same, but that a
settled operation may have been left in its record, with the place of the record, which
then `Holds` it. A checkpoint as the store writes it mirrors the head of its place
(`Follows`), each record keeps two heads mirrored (`SuffixStep`, one lemma per kind of
record: an item of any kind, one that loads an operation back from its record, a saved
operation), and so the end of the fold mirrors the end of the other (`Resuming`). What the
file has to be for this is `Legible`: it can be read, its inherited part has items only,
and every record after that is one that `Follows` those before it. A status in particular
says nothing new of a call that ended, for the place of an operation is that of its first
status or its last save.

**Session file.** None of the file's properties is inductive. `FileInv` has a part for
each that keeps something of the file: `FileRight` (its records are legible, and
the operations they began have IDs in use), `StepRight` (the record an append is about to write follows those of the
file, or is its last when it waits for the sync, and the head it leaves mirrors what is
then read: `Pending`), `WriteRight` and `ReadRight` (the write and the read state are those of
the file, or, while an append is under way, were those of it before), `PreviewRight` (a cut
that was shown is that of the file unless its time has changed; `NowIsNew` says that a
changed file has a time nobody has seen). Each action of the store is one lemma
(`FileInvWriteRecord`, `FileInvSync`, ...). A rewind is a fold as well, over a cut with the
items it still waits to see the end of: `Clean` says what the cut holds after each record,
`Cutting` that what is left over is legible and that reading it gives the items, the head
and the operations of the place it was cut at, with the saves of the rest applied
(`Rewound`); if the cut goes into the inherited part, its own fork has to be put back,
or the turns of the parent were the session's. `Branched` says the same of the items a fork
copies. `RewindsGoBack` and `RewindsKeepOutcomes` are read off `Rewound`; the three
invariants are the parts of `FileInv` at rest. TLC checked the parts on the `file` and
`rewind` instances, and on one with both, before they were proved.

A branch is made in two steps, neither with the lock, and the session goes on
between them and while the first is made. `BranchInv` adds to `FileInv` what the second step needs of the first: inputs
and turns occur once and are known (so a turn that is begun later is no turn that was read),
the turn of the branch stands before its prompt, and an item about to be appended has a name
that is nobody's. What a step does to the names is one of two things: `Within` (nothing new,
as after a rewind or a copy) or `OneMore` (an item at the end), and `NamesWithin` and
`NamesOneMore` say that either keeps them right. `BranchEndsWithTheTurn`
follows: the copy ends where the next turn would begin, and a turn that the prompt led to
begins behind the prompt, so behind the turn of the branch.

**The log.** `ImplementsLog` maps a file to the entries it lists. A status may hold its
operation by ID, which only the head that was read so far resolves, so the list is a third
fold, next to the one that reads (`Listing`; `ListsReading` says that what it carries is
the reading). `ListsAt` ties the two after each record: the operations begun since the last
fork are those the head has, and the items among the entries are the items that were read.

The append in progress is the abstract call. The runner resolves its entry by the head it
keeps in memory; what the file then lists is resolved by the head that is read from it.
`LogInv` says that the two are the same entry, against the records before it once it is
written. `FileInv` does not say it: the two heads only mirror each other, and an operation
that is archived in one is whole in the other, but not while a status may still refer to it.
With both, writing the record is `Take`, its failure or a crash `Answer` or `Lose`,
a checkpoint and cutting off a torn record stutter.

A rewind needs the cutter, on entries: until it finds its prompt, the entries after those it
will keep are settings (`CleanLists`); afterwards what it saved is what the rest of the
entries say of the operations it keeps (`CutLists`, `CuttingLists`). `RewindsOwnLog` and
`RewindsInheritedLog` are the two cases of `Remaining`: the latter marks what is kept as
another session's. A branch copies a beginning of the items, and each beginning of the
items was all of them after some record (`ItemsWere`), so it is one of `Bequeathed`. The
theorem is of every session, branched, rewound and branched again; the `file` run checks
the mapping without rewinds.

Only model-checked:

* Liveness (`Delivered`, `SubmitReturns`, `HardStopEnds`, `SteeringGoesOut`, `RecordedIsRead`,
  `BudgetEnds`, `EverythingEnds`): fairness is out of the prover's reach.
* `TranscriptIsOfTheFile`: a transcript reads on when the file has the inode, and at the place
  where the reading stopped the bytes it knew. That this means the same lines before rests on no
  record of an operation being written a second time at the same place of another file that
  was given the inode again; the code compares no more than that, and the property is one
  of the instance.

## Plan

The session file and the operation manager, planned after the coordinator, are done. What
remains, in this order:

1. **PromptQueue**: `cmd/internal/cockpit/queue.go`, `runner.go` and
   `cmd/kou-conveyor-web/`: a prompt is queued, sent now, steered into a run, given back
   when the run ends, and kept over a restart of the server. No prompt lost, none run
   twice. Composed with the runner's steering, which closes the hazard of deferred input
   that a stop leaves unrecorded.
2. **ContextBuilder**: calls and results stay paired through compaction, interruption and
   forks.
3. **Canvas router** and **accounts quota**, if they prove worth it.

No safety property that is true of every value of the constants is left without a theorem;
the new components get theirs as they are modelled.

## Not modelled

Providers' protocols, text of messages, tools' translators, plugins, skills' files, the
code VM, transcripts' layout, terminals, worktrees, file watching, tunnels, the terminal
cockpit, the iOS app, command lines and generated code: conversion, presentation or I/O
with no protocol of their own (the reasons are with each in `PROJECT.json`); they are most
of the repository's lines. Of modelled parts: remote requests and server-sent events,
pipes and captures of a process, scaling of images, the rejection of malformed values, the
notes, memory and change records a rewind restores beside the session, and observers of
the store. The parts named in the plan are not modelled yet.
