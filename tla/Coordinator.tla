----------------------------- MODULE Coordinator -----------------------------
(***************************************************************************)
(* harness/coordinator/loop.go: the event loop that owns one session, with *)
(* what it talks to: the session's log (durable), the inbox (volatile, see *)
(* Inbox), the operation manager and the model.  A run is one process; it  *)
(* ends on a stop, an error or a crash, and a later run restores the       *)
(* session from its log.                                                   *)
(*                                                                         *)
(* The coordinator is one goroutine.  Its handlers are split where it      *)
(* appends to the log, so that a crash may fall between two appends; pc    *)
(* says where it is.  At "select" it waits for an event; every event leads *)
(* through "inputs" (slurp the inbox), "updates" (slurp the manager's      *)
(* updates), "reconcile" (finish tool calls), "due" (deferred input) and   *)
(* "decide" (stop, turn, compaction) back to "select".                     *)
(*                                                                         *)
(* An operator whose name ends in a word after an underscore is a mutant of *)
(* the operator it precedes: a mistake the runs find.                      *)
(*                                                                         *)
(* Abstractions.  A timer may fire whenever it is armed.  Request sizes    *)
(* are nondeterministic choices.  One tool call has one operation, and the *)
(* tools resolve to the same translators in every run.  No tool only waits *)
(* for others (tool.Waits), so onlyWaits is FALSE.                         *)
(***************************************************************************)
EXTENDS SessionItems, FiniteSets

CONSTANTS
  AfterTools,      \* external inputs with Delivery after_tools
  Offered,         \* controls senders submit, each at most once a run
  Inherited,       \* the log of a forked session when it is made
  \* Dependencies of the coordinator
  NoRecovery,      \* leave the model's answers as they come
  Verifies,        \* a Verifier is set
  MaxVerifications,
  AutoCompacts,    \* AutoCompactTokens > 0
  Reminds,         \* CompactionReminder # ""
  CompactedNotes,  \* Compacted has something to tell the model
  MaxTurns, MaxCompactions,   \* 0 is no bound
  Deadline,        \* MaxDuration > 0
  Reports,         \* ReportEvery > 0
  LimitsToolWait,  \* ToolWaitLimit > 0
  NotesChange,     \* the notes changed since the conversation showed them
  \* Bounds of the model
  Runs,            \* runs of the session
  Faults,          \* bad answers, errors and limits of the model's provider
  HeartbeatLimit   \* heartbeats posted in a run

Nothing == "nothing"  \* no verification runs

ASSUME CoordinatorAssumption ==
  /\ Nothing \notin Ops
  /\ AfterTools \subseteq External
  /\ Offered \subseteq Controls \ Heartbeats
  /\ Inherited \in Seq(Items)
  /\ Inherited # <<>> => Inherited[Len(Inherited)] = ForkItem
  /\ {NoRecovery, Verifies, AutoCompacts, Reminds, CompactedNotes, Deadline, Reports,
      LimitsToolWait, NotesChange} \subseteq BOOLEAN
  /\ {MaxVerifications, MaxTurns, MaxCompactions, Runs, Faults,
      HeartbeatLimit} \subseteq Nat

VARIABLES
  \* durable
  log,      \* the session's items
  saved,    \* the latest stored version of each operation
  ckpt,     \* the latest checkpoint, a set of at most one
  \* the coordinator
  pc,
  pos,      \* items replayed so far
  h,        \* the state derived from the log
  r,        \* the state of this run
  todo,     \* inputs being recorded now, in order
  \* the inbox
  seen, queued,
  offered,  \* controls not submitted in this run
  \* the operation manager
  mgr,      \* what it does with each operation
  updates,  \* updates it has not handed over
  \* the model
  flying,   \* turns whose request still owes a result
  \* bounds
  runs, faults, heartbeats

durable == <<log, saved, ckpt>>
mail == <<seen, queued, offered>>
manager == <<mgr, updates>>
bounds == <<runs, faults, heartbeats>>
vars == <<durable, pc, pos, h, r, todo, mail, manager, flying, bounds>>

\* No run, and how the last one ended.
Down == {"new", "idle", "stopped", "failed", "crashed"}

Labels ==
  Down \cup {"replay", "schedule", "start", "select", "inputs", "updates",
             "reconcile", "due", "decide", "turn", "begin", "idlecheck",
             "checkpoint", "count", "answer", "verify", "dispatch"}

\* The manager has not got an operation in this run; runs it; was asked to
\* cancel it; is done with it.
Managed == {"absent", "running", "canceling", "gone"}

RunState ==
  [started : BOOLEAN,    \* the loop runs: the restored calls were scheduled
   callModel : BOOLEAN,  \* a turn is due
   due : BOOLEAN,        \* a scheduled status, or processEvents, asks for one
   ordinary : BOOLEAN,   \* startTurn may start an ordinary turn
   live : BOOLEAN,       \* cancelModel # nil: a request is being answered
   grace : SUBSET Calls, step : SUBSET Calls, statuses : SUBSET Calls,
   deferred : Seq(External),
   timer : BOOLEAN, waited : BOOLEAN,        \* toolWait, waitedLong
   stop : {"none", "idle", "hard"}, cancelled : BOOLEAN,
   compact : BOOLEAN,                        \* compactRequest
   cutdowns : Nat,                           \* sent.retries
   quota : BOOLEAN, quotaWaits : Nat,
   ending : Endings,
   continues : Nat, retries : Nat, failures : Nat,
   verifying : Checks \cup {Nothing},
   turns : Nat, compactions : Nat, reportedAt : Nat, wrapUp : Nat,
   deadline : BOOLEAN, notesChecked : BOOLEAN,
   freshStop : BOOLEAN]                      \* the stop recorded has no time yet

NewRun ==
  [started |-> FALSE, callModel |-> FALSE, due |-> FALSE, ordinary |-> FALSE,
   live |-> FALSE, grace |-> {}, step |-> {}, statuses |-> {}, deferred |-> <<>>,
   timer |-> FALSE, waited |-> FALSE, stop |-> "none", cancelled |-> FALSE,
   compact |-> FALSE, cutdowns |-> 0, quota |-> FALSE, quotaWaits |-> 0,
   ending |-> "whole", continues |-> 0, retries |-> 0, failures |-> 0,
   verifying |-> Nothing, turns |-> 0, compactions |-> 0, reportedAt |-> 0,
   wrapUp |-> 0, deadline |-> Deadline, notesChecked |-> FALSE, freshStop |-> FALSE]

Init ==
  /\ log = Inherited
  /\ saved = [o \in Ops |-> "none"]
  /\ ckpt = {}
  /\ pc = "new"
  /\ pos = 0
  /\ h = Blank
  /\ r = NewRun
  /\ todo = <<>>
  /\ seen = {}
  /\ queued = <<>>
  /\ offered = {}
  /\ mgr = [o \in Ops |-> "absent"]
  /\ updates = <<>>
  /\ flying = {}
  /\ runs = 0
  /\ faults = 0
  /\ heartbeats = 0

-----------------------------------------------------------------------------
(* Ends of a run *)

\* The process is gone: what is not durable is lost.
Exit(how) ==
  /\ pc' = how
  /\ pos' = 0
  /\ h' = Blank
  /\ r' = NewRun
  /\ todo' = <<>>
  /\ seen' = {}
  /\ queued' = <<>>
  /\ offered' = {}
  /\ mgr' = [o \in Ops |-> "absent"]
  /\ updates' = <<>>
  /\ flying' = {}
  /\ heartbeats' = 0
  /\ UNCHANGED <<durable, runs>>

Up == pc \notin Down

Crash ==
  /\ Up
  /\ runs < Runs
  /\ Exit("crashed")
  /\ UNCHANGED faults

-----------------------------------------------------------------------------
(* Restoring a session *)

\* A status item that says how its operation ended.
Finishes(item, o) == item.kind = "status" /\ item.op = o /\ item.status \in Terminal

Restorable_unfinished(o) == saved[o] \in Unfinished

\* Restored.Operations: those that did not end, and those that ended in a
\* way the session's own items, the ones after its fork, do not show yet.
Restorable(o) ==
  /\ saved[o] # "none"
  /\ \/ saved[o] \in Unfinished
     \/ \A i \in DOMAIN log : i > Len(Inherited) => ~Finishes(log[i], o)

Snapshot_recompacts(d) ==
  [d EXCEPT !.compacted = FALSE,
            !.verifications = d.history.verifications,
            !.work = d.history.work,
            !.stopped = d.history.stopped]

\* What a checkpoint keeps of the derived state, and what restoring it gives:
\* of the live values that replay does not reproduce, what replay would give;
\* of the operations, those that open calls need and those that did not end.
Snapshot(d) ==
  [d EXCEPT !.verifications = d.history.verifications,
            !.work = d.history.work,
            !.stopped = d.history.stopped,
            !.ops = [o \in Ops |-> IF o \in OpenCalls(d) \/ @[o] \in Unfinished
                                   THEN @[o] ELSE "none"]]

KnownInputs_none == {}

\* Restored.ExternalInputIDs
KnownInputs == {id \in External : \E i \in DOMAIN log : log[i] = InputItem(id)}

\* A run begins: the inbox knows the external inputs the session recorded.
\* The session is restored from its latest checkpoint and the items after
\* it, or from all its items when the checkpoint cannot be used.
Start ==
  /\ ~Up
  /\ runs < Runs
  /\ runs' = runs + 1
  /\ pc' = "replay"
  /\ seen' = KnownInputs
  /\ offered' = Offered
  /\ \/ pos' = 0 /\ h' = Blank
     \/ \E c \in ckpt : pos' = c.at /\ h' = c.state
  /\ UNCHANGED <<durable, r, todo, queued, manager, flying, faults, heartbeats>>

ReplayItem ==
  /\ pc = "replay"
  /\ pos < Len(log)
  /\ h' = AddItem(h, log[pos + 1])
  /\ pos' = pos + 1
  /\ UNCHANGED <<durable, pc, r, todo, mail, manager, flying, bounds>>

RestoreOperations(d) ==
  [d EXCEPT !.ops = [o \in Ops |-> IF Restorable(o) THEN saved[o] ELSE @[o]]]

Restore ==
  /\ pc = "replay"
  /\ pos = Len(log)
  /\ h' = RestoreOperations(h)
  /\ \E k \in Checks \cup {Nothing} :
       /\ IF \E x \in Checks : saved[x] \in Unfinished
            THEN k \in Checks /\ saved[k] \in Unfinished
            ELSE k = Nothing
       /\ r' = [r EXCEPT !.verifying = k]
  /\ pc' = "schedule"
  /\ UNCHANGED <<durable, pos, todo, mail, manager, flying, bounds>>

-----------------------------------------------------------------------------
(* Recording *)

\* The coordinator takes no other step while inputs wait to be recorded.
At(label) == pc = label /\ todo = <<>>

Record_nomessages(item) ==
  /\ h' = AddItem(h, item)
  /\ log' = IF item \in {InputItem(id) : id \in Heartbeats} THEN log ELSE Append(log, item)

\* addItemToLocalState and storeItemInSessionStore
Record(item) ==
  /\ h' = AddItem(h, item)
  /\ log' = Append(log, item)

\* A call that finishes leaves the sets of calls the run waits for.
WithOpenCalls(run, derived) ==
  [run EXCEPT !.grace = @ \cap OpenCalls(derived), !.step = @ \cap OpenCalls(derived)]

AcceptStop_latest(old, id) ==
  CASE id = "stop_hard" -> "hard"
    [] id = "stop_idle" -> "idle"
    [] OTHER            -> old

AcceptStop_anycontrol(old, id) == IF old = "hard" \/ id \in External THEN old ELSE id

\* acceptStop: a hard stop stays.
AcceptStop(old, id) ==
  IF old = "hard" THEN old
  ELSE CASE id = "stop_hard" -> "hard"
         [] id = "stop_idle" -> "idle"
         [] OTHER            -> old

\* handleInboxInput, for every input that is recorded: those the inbox
\* handed over, deferred ones going out, and what the harness says itself.
RecordInput ==
  /\ todo # <<>>
  /\ LET id == Head(todo) IN
       /\ Record(InputItem(id))
       /\ r' = [r EXCEPT
                  !.callModel = @ \/ id \in External,
                  !.compact = @ \/ id = "compact",
                  !.stop = AcceptStop(@, id),
                  !.freshStop = @ \/ id = "stop_hard",
                  !.wrapUp = IF id = "budget" THEN h'.available ELSE @,
                  !.grace = IF id \in {"settings", "compact"} THEN @ ELSE {}]
  /\ todo' = Tail(todo)
  /\ UNCHANGED <<saved, ckpt, pc, pos, mail, manager, flying, bounds>>

-----------------------------------------------------------------------------
(* Tool calls *)

Store_update(o, status) == UNCHANGED saved

\* A first status stores its operation with it, in one append.
Store(o, status) ==
  saved' = IF status = "none" THEN saved ELSE [saved EXCEPT ![o] = status]

\* scheduleToolCall: a call is translated, and its status and operation are
\* recorded together before the operation is dispatched.
ScheduleToolCall ==
  /\ At("schedule")
  /\ \E c \in Calls, status \in {"ready", "none"} :
       /\ h.calls[c] = "asked"
       /\ Record(StatusItem(c, status))
       /\ Store(c, status)
       /\ r' = [WithOpenCalls(r, h') EXCEPT !.statuses = @ \cup {c},
                                            !.due = @ \/ status = "none"]
  /\ UNCHANGED <<ckpt, pc, pos, todo, mail, manager, flying, bounds>>

ScheduledAll ==
  /\ At("schedule")
  /\ \A c \in Calls : h.calls[c] # "asked"
  /\ pc' = IF r.started THEN "count" ELSE "reconcile"
  /\ UNCHANGED <<durable, pos, h, r, todo, mail, manager, flying, bounds>>

\* reconcileToolCalls: the result of a call whose operation ended.
FinishedCalls == {c \in Calls : h.calls[c] \in Open /\ h.ops[c] \in Terminal}

ReconcileToolCall ==
  /\ At("reconcile")
  /\ \E c \in FinishedCalls :
       /\ Record(StatusItem(c, h.ops[c]))
       /\ r' = WithOpenCalls(r, h')
  /\ UNCHANGED <<saved, ckpt, pc, pos, todo, mail, manager, flying, bounds>>

ReconciledAll ==
  /\ At("reconcile")
  /\ FinishedCalls = {}
  /\ pc' = IF r.started THEN "due" ELSE "start"
  /\ UNCHANGED <<durable, pos, h, r, todo, mail, manager, flying, bounds>>

\* The manager takes an operation it has not taken in this run.
Dispatch(ops) ==
  mgr' = [o \in Ops |-> IF o \in ops /\ h.ops[o] \in Unfinished /\ mgr[o] = "absent"
                          THEN "running" ELSE mgr[o]]

\* The restored operations go on, and the model is asked when it owes an
\* answer.
StartLoop ==
  /\ At("start")
  /\ Dispatch(Ops)
  /\ LET call == r.due \/ Pending(h) > 0 IN
       /\ pc' = IF call THEN "turn" ELSE "select"
       /\ r' = [r EXCEPT !.started = TRUE, !.due = FALSE, !.statuses = {}, !.ordinary = call]
  /\ UNCHANGED <<durable, pos, h, todo, mail, updates, flying, bounds>>

-----------------------------------------------------------------------------
(* Events: the inbox *)

MidStep_tools == r.step # {}

\* The model writes a response, or calls of its latest one still run.
MidStep == r.live \/ r.step # {}

Compacting == r.live /\ h.turn \in h.compactionTurns

\* Input delivered after tools waits, in the order it came.
Defers(id) == id \in AfterTools /\ (r.deferred # <<>> \/ MidStep)

GoesOut_first(id) == <<id>> \o r.deferred

\* External input delivered at once takes along what waits, ahead of it.
GoesOut(id) == Append(r.deferred, id)

\* handleInboxInputs: external input that does not wait takes along what
\* does, ahead of it.
TakeInput ==
  /\ At("select") \/ At("inputs")
  /\ queued # <<>>
  /\ queued' = Tail(queued)
  /\ pc' = "inputs"
  /\ LET id == Head(queued) IN
       \/ /\ Defers(id)
          /\ r' = [r EXCEPT !.deferred = Append(@, id)]
          /\ UNCHANGED todo
       \/ /\ id \in External /\ ~Defers(id)
          /\ todo' = GoesOut(id)
          /\ r' = [r EXCEPT !.deferred = <<>>, !.timer = FALSE, !.waited = FALSE]
       \/ /\ id \notin External
          /\ todo' = <<id>>
          /\ UNCHANGED r
  /\ UNCHANGED <<durable, pos, h, seen, offered, manager, flying, bounds>>

InputsSlurped ==
  /\ At("inputs")
  /\ pc' = "updates"
  /\ UNCHANGED <<durable, pos, h, r, todo, mail, manager, flying, bounds>>

-----------------------------------------------------------------------------
(* Events: operation updates *)

\* handleOperationUpdate: the operation is stored before anything acts on
\* it; a verification that failed is told to the model.
TakeUpdate ==
  /\ At("select") \/ At("updates")
  /\ updates # <<>>
  /\ LET u == Head(updates)
         verified == Verifies /\ u.op = r.verifying /\ u.status \in Terminal
     IN /\ saved' = [saved EXCEPT ![u.op] = u.status]
        /\ h' = [h EXCEPT !.ops[u.op] = u.status,
                          !.verifications = IF verified THEN @ + 1 ELSE @]
        /\ r' = [r EXCEPT !.verifying = IF verified THEN Nothing ELSE @]
        /\ todo' \in IF verified /\ r.stop # "hard" THEN {<<>>, <<"verification">>} ELSE {<<>>}
  /\ updates' = Tail(updates)
  /\ pc' = IF pc = "select" THEN "inputs" ELSE "updates"
  /\ UNCHANGED <<log, ckpt, pos, mail, mgr, flying, bounds>>

UpdatesSlurped ==
  /\ At("updates")
  /\ pc' = "reconcile"
  /\ UNCHANGED <<durable, pos, h, r, todo, mail, manager, flying, bounds>>

-----------------------------------------------------------------------------
(* Events: timers *)

\* budgetSpent: the first bound that is spent asks for the final report.
BudgetSpent == IF r.wrapUp > 0 \/ r.stop = "hard" THEN <<>> ELSE <<"budget">>

DeadlinePasses ==
  /\ At("select")
  /\ r.deadline
  /\ r' = [r EXCEPT !.deadline = FALSE]
  /\ todo' = BudgetSpent
  /\ pc' = "inputs"
  /\ UNCHANGED <<durable, pos, h, mail, manager, flying, bounds>>

\* askForReport: at most once for every turn.
ReportDue ==
  /\ At("select")
  /\ Reports
  /\ r.turns # r.reportedAt
  /\ r.wrapUp = 0
  /\ r.stop # "hard"
  /\ r' = [r EXCEPT !.reportedAt = r.turns]
  /\ todo' = <<"report">>
  /\ pc' = "inputs"
  /\ UNCHANGED <<durable, pos, h, mail, manager, flying, bounds>>

QuotaLifts ==
  /\ At("select")
  /\ r.quota
  /\ r' = [r EXCEPT !.quota = FALSE]
  /\ pc' = "inputs"
  /\ UNCHANGED <<durable, pos, h, todo, mail, manager, flying, bounds>>

GraceEnds ==
  /\ At("select")
  /\ r.grace # {}
  /\ r' = [r EXCEPT !.grace = {}]
  /\ pc' = "inputs"
  /\ UNCHANGED <<durable, pos, h, todo, mail, manager, flying, bounds>>

ToolWaitEnds ==
  /\ At("select")
  /\ r.timer
  /\ r' = [r EXCEPT !.timer = FALSE, !.waited = TRUE]
  /\ pc' = "inputs"
  /\ UNCHANGED <<durable, pos, h, todo, mail, manager, flying, bounds>>

\* postHeartbeat: it comes back through the inbox, with an ID of its own.
PostHeartbeat ==
  /\ At("select")
  /\ heartbeats < HeartbeatLimit
  /\ ~r.live /\ r.stop # "hard" /\ Pending(h) = 0 /\ OpenCalls(h) # {}
  /\ heartbeats' = heartbeats + 1
  /\ queued' = Append(queued, "heartbeat")
  /\ pc' = "inputs"
  /\ UNCHANGED <<durable, pos, h, r, todo, seen, offered, manager, flying, runs, faults>>

-----------------------------------------------------------------------------
(* Events: the model *)

Stale_canceled(n) == ~r.live

Stale_otherturn(n) == n # h.turn

\* A result for a request that was canceled or replaced is dropped.
Stale(n) == ~r.live \/ n # h.turn

DropResult ==
  /\ At("select")
  /\ \E n \in flying : Stale(n) /\ flying' = flying \ {n}
  /\ UNCHANGED <<durable, pc, pos, h, r, todo, mail, manager, bounds>>

\* A whole answer is free; everything else the provider may send is a fault,
\* of which the model has a bounded number.
Fault == faults < Faults /\ faults' = faults + 1

\* processModelResponse and handleModelResponse, up to the response's record:
\* an ordinary answer with the tool calls it makes.
AnswerArrives ==
  /\ At("select")
  /\ \E n \in flying, calls \in SUBSET {c \in Calls : h.calls[c] = "none"},
        ending \in {"whole", "empty", "cut", "refused", "failed"} :
       /\ ~Stale(n)
       /\ n \notin h.compactionTurns
       /\ ending = "empty" => calls = {}
       /\ flying' = flying \ {n}
       /\ IF ending = "whole" THEN UNCHANGED faults ELSE Fault
       /\ Record(ResponseItem(n, calls, ending))
       /\ r' = [r EXCEPT !.live = FALSE, !.quotaWaits = 0, !.ending = ending,
                         !.statuses = {}, !.due = FALSE]
  /\ pc' = "schedule"
  /\ UNCHANGED <<saved, ckpt, pos, todo, mail, manager, runs, heartbeats>>

\* A compaction's answer, which may hold no summary.
SummaryArrives ==
  /\ At("select")
  /\ \E n \in flying, ending \in {"summary", "nosummary"} :
       /\ ~Stale(n)
       /\ n \in h.compactionTurns
       /\ flying' = flying \ {n}
       /\ IF ending = "summary" THEN UNCHANGED faults ELSE Fault
       /\ Record(ResponseItem(n, {}, ending))
       /\ r' = [r EXCEPT !.live = FALSE, !.quotaWaits = 0]
       /\ pc' = IF ending = "summary" THEN "checkpoint" ELSE "inputs"
  /\ UNCHANGED <<saved, ckpt, pos, todo, mail, manager, runs, heartbeats>>

\* What the runner has to say of the compaction goes with the next turn.
CompactionNote ==
  IF CompactedNotes /\ r.stop # "hard" /\ (r.callModel \/ Pending(h) > 0) THEN <<"note">> ELSE <<>>

\* saveCheckpoint, then compactedLive.  A stop of this run has no recorded
\* time yet and is left to replay.
SaveCheckpoint ==
  /\ At("checkpoint")
  /\ ckpt' = IF h.history.stopped /\ r.freshStop THEN ckpt
             ELSE {[at |-> Len(log), state |-> Snapshot(h)]}
  /\ r' = [r EXCEPT !.compactions = @ + 1]
  /\ todo' = CompactionNote \o
       IF MaxCompactions > 0 /\ r'.compactions >= MaxCompactions THEN BudgetSpent ELSE <<>>
  /\ pc' = "inputs"
  /\ UNCHANGED <<log, saved, pos, h, mail, manager, flying, bounds>>

\* Automatic compaction backs off (autoCompactionAllowed).
CompactionBreaker == 3

AutoCompactionAllowed ==
  /\ AutoCompacts
  /\ ~h.compacted
  /\ h.failed < CompactionBreaker
  /\ ~(RefilledRapidly(h) /\ h.refills + 1 >= CompactionBreaker)

\* waitForQuota: the request is sent again once the usage limit lifts.
MaxQuotaWaits == 2

QuotaRefuses ==
  /\ At("select")
  /\ Fault
  /\ \E n \in flying :
       /\ ~Stale(n)
       /\ flying' = flying \ {n}
       /\ r' = [r EXCEPT !.live = FALSE, !.quotaWaits = @ + 1, !.quota = TRUE,
                         !.compact = @ \/ n \in h.compactionTurns,
                         !.callModel = @ \/ n \notin h.compactionTurns]
  /\ ~NoRecovery /\ r.quotaWaits < MaxQuotaWaits /\ r.stop # "hard"
  /\ pc' = "inputs"
  /\ UNCHANGED <<durable, pos, h, todo, mail, manager, runs, heartbeats>>

\* recoverFromOverflow, of a compaction: its request is cut down and sent again.
OverflowRetries == 3

SummaryOverflows ==
  /\ At("select")
  /\ Fault
  /\ Compacting
  /\ h.turn \in flying
  /\ r.cutdowns < OverflowRetries
  /\ r' = [r EXCEPT !.cutdowns = @ + 1]
  /\ pc' = "inputs"
  /\ UNCHANGED <<durable, pos, h, todo, mail, manager, flying, runs, heartbeats>>

\* A turn is recorded and its request sent.
Send(run) == [run EXCEPT !.live = TRUE, !.cutdowns = 0]

\* recoverFromOverflow, of an ordinary turn: a compaction takes its place,
\* when there is something to summarize.
AnswerOverflows ==
  /\ At("select")
  /\ Fault
  /\ r.live /\ ~Compacting
  /\ h.turn \in flying
  /\ AutoCompactionAllowed
  /\ Record(TurnItem(h.turn + 1, TRUE))
  /\ flying' = (flying \ {h.turn}) \cup {h.turn + 1}
  /\ r' = [Send(r) EXCEPT !.compact = FALSE, !.callModel = TRUE]
  /\ pc' = "inputs"
  /\ UNCHANGED <<saved, ckpt, pos, todo, mail, manager, runs, heartbeats>>

\* Any other error of the request ends the run.
RequestFails ==
  /\ At("select")
  /\ Fault
  /\ \E n \in flying : ~Stale(n)
  /\ Exit("failed")

-----------------------------------------------------------------------------
(* After an ordinary answer *)

FinalReport_never == FALSE

\* The answer's turn saw that the budget was spent.
FinalReport == r.wrapUp > 0 /\ h.turnInputs >= r.wrapUp

\* handleModelResponse sets callModel; countTurn counts toward MaxTurns, and
\* stops the run after the answer of a turn that saw the budget was spent.
CountTurn ==
  /\ At("count")
  /\ LET turns == r.turns + 1
     IN /\ r' = [r EXCEPT !.turns = turns, !.callModel = r.due, !.due = FALSE,
                          !.stop = IF FinalReport THEN "hard" ELSE @]
        /\ todo' = IF ~FinalReport /\ MaxTurns > 0 /\ turns >= MaxTurns THEN BudgetSpent ELSE <<>>
  /\ pc' = "answer"
  /\ UNCHANGED <<durable, pos, h, mail, manager, flying, bounds>>

MaxContinues == 3
MaxRetries == 1
MaxFailures == 2

\* A verification gets an ID that no log holds yet.
UnusedChecks == {k \in Checks : \A i \in DOMAIN log : log[i].kind = "status" => log[i].op # k}

\* verify's conditions

VerificationDue ==
  /\ Verifies
  /\ UnusedChecks # {}
  /\ h.work
  /\ r.verifying = Nothing
  /\ h.verifications < MaxVerifications
  /\ Pending(h) = 0
  /\ r.deferred = <<>>

\* The calls of this answer that still run are the step deferred input waits
\* for; then answerStop.
StepCalls == r.statuses \cap OpenCalls(h)

\* The run leaves the answer as it came.
AnswerStands ==
  /\ At("answer")
  /\ r.stop = "hard" \/ NoRecovery
  /\ r' = [r EXCEPT !.step = StepCalls]
  /\ pc' = "dispatch"
  /\ UNCHANGED <<durable, pos, h, todo, mail, manager, flying, bounds>>

Recovers == At("answer") /\ r.stop # "hard" /\ ~NoRecovery

\* A response that failed is requested again, a few times in a row.
AnswerFailed ==
  /\ Recovers
  /\ r.ending = "failed"
  /\ IF r.failures < MaxFailures
       THEN /\ r' = [r EXCEPT !.step = StepCalls, !.failures = @ + 1, !.callModel = TRUE]
            /\ pc' = "dispatch"
            /\ UNCHANGED <<durable, pos, h, todo, mail, manager, flying, bounds>>
       ELSE Exit("failed") /\ UNCHANGED faults

\* An answer the output limit cut, without tool calls, is to go on.
AnswerCut ==
  /\ Recovers
  /\ r.ending = "cut" /\ r.statuses = {}
  /\ LET again == r.continues < MaxContinues IN
       /\ r' = [r EXCEPT !.step = {}, !.failures = 0, !.retries = 0,
                         !.continues = IF again THEN @ + 1 ELSE @]
       /\ todo' = IF again THEN <<"nudge">> ELSE <<>>
  /\ pc' = "dispatch"
  /\ UNCHANGED <<durable, pos, h, mail, manager, flying, bounds>>

\* A refusal is answered once.
AnswerRefused ==
  /\ Recovers
  /\ r.ending = "refused"
  /\ LET again == r.retries < MaxRetries IN
       /\ r' = [r EXCEPT !.step = StepCalls, !.failures = 0, !.continues = 0,
                         !.retries = IF again THEN @ + 1 ELSE @]
       /\ todo' = IF again THEN <<"nudge">> ELSE <<>>
  /\ pc' = "dispatch"
  /\ UNCHANGED <<durable, pos, h, mail, manager, flying, bounds>>

\* A whole answer resets the counts; one without calls has the work verified.
AnswerWhole ==
  /\ Recovers
  /\ \/ r.ending \in {"whole", "empty"}
     \/ r.ending = "cut" /\ r.statuses # {}
  /\ r' = [r EXCEPT !.step = StepCalls, !.failures = 0, !.continues = 0, !.retries = 0]
  /\ pc' = IF r.statuses = {} /\ VerificationDue THEN "verify" ELSE "dispatch"
  /\ UNCHANGED <<durable, pos, h, todo, mail, manager, flying, bounds>>

\* The check is recorded with its operation before it is dispatched.
Verify ==
  /\ At("verify")
  /\ \E k \in UnusedChecks :
       /\ log' = Append(log, StatusItem(k, "ready"))
       /\ h' = [AddItem(h, StatusItem(k, "ready")) EXCEPT !.work = FALSE]
       /\ Store(k, "ready")
       /\ r' = [r EXCEPT !.verifying = k]
  /\ pc' = "dispatch"
  /\ UNCHANGED <<ckpt, pos, todo, mail, manager, flying, bounds>>

\* The operations of the answer's calls start, or the verification's, and the
\* grace period of the calls.
DispatchCalls ==
  /\ At("dispatch")
  /\ Dispatch(r.statuses \cup (Checks \cap {r.verifying}))
  /\ r' = [r EXCEPT !.grace = IF r.callModel THEN @ ELSE @ \cup r.statuses, !.statuses = {}]
  /\ pc' = "inputs"
  /\ UNCHANGED <<durable, pos, h, todo, mail, updates, flying, bounds>>

-----------------------------------------------------------------------------
(* The end of processEvents, and what the loop does next *)

DeferredGoesOut_nolimit(due) ==
  /\ r.deferred # <<>>
  /\ r.stop # "hard"
  /\ ~Compacting
  /\ due \/ ~MidStep

\* Deferred input goes out with a turn that is due, when there is nothing
\* left to wait for, or when it has waited too long.
DeferredGoesOut(due) ==
  /\ r.deferred # <<>>
  /\ r.stop # "hard"
  /\ ~Compacting
  /\ due \/ ~MidStep \/ (r.waited /\ ~r.live)

TurnIsAsked_callmodel == r.callModel

TurnIsAsked_pending == Pending(h) > 0 /\ ~r.live /\ r.grace = {}

\* A turn is asked for, or the model has something to read and is free.
TurnIsAsked == r.callModel \/ (Pending(h) > 0 /\ ~r.live /\ r.grace = {})

ProcessDue ==
  /\ At("due")
  /\ LET due == TurnIsAsked
         waits == r.deferred # <<>> /\ r.stop # "hard" /\ ~Compacting
     IN IF DeferredGoesOut(due)
          THEN /\ todo' = r.deferred
               /\ r' = [r EXCEPT !.due = TRUE, !.deferred = <<>>, !.timer = FALSE, !.waited = FALSE]
          ELSE /\ UNCHANGED todo
               /\ r' = [r EXCEPT !.due = due,
                                 !.timer = @ \/ (waits /\ ~r.live /\ LimitsToolWait)]
  /\ pc' = "decide"
  /\ UNCHANGED <<durable, pos, h, mail, manager, flying, bounds>>

PendingOperations_ready == {o \in Ops : h.ops[o] = "ready"}

PendingOperations == {o \in Ops : h.ops[o] \in Unfinished}

\* handleStop: the first time, the model is interrupted and every operation
\* that did not end is canceled; the run ends once all of them ended.
CancelOperations ==
  /\ At("decide")
  /\ r.stop = "hard"
  /\ ~r.cancelled
  /\ r' = [r EXCEPT !.live = FALSE, !.cancelled = TRUE, !.due = FALSE]
  /\ mgr' = [o \in Ops |-> IF o \in PendingOperations /\ mgr[o] = "running"
                            THEN "canceling" ELSE mgr[o]]
  /\ UNCHANGED <<durable, pc, pos, h, todo, mail, updates, flying, bounds>>

AwaitCancellation ==
  /\ At("decide")
  /\ r.stop = "hard"
  /\ r.cancelled
  /\ IF PendingOperations = {}
       THEN Exit("stopped") /\ UNCHANGED faults
       ELSE /\ pc' = "select"
            /\ UNCHANGED <<durable, pos, h, r, todo, mail, manager, flying, bounds>>

\* A turn that is due waits for a usage limit and for a compaction.
TurnDue == r.due /\ ~r.quota /\ ~Compacting

CompactionRequested == r.compact /\ ~r.live /\ r.grace = {} /\ ~r.quota

Decide ==
  /\ At("decide")
  /\ r.stop # "hard"
  /\ pc' = IF TurnDue \/ CompactionRequested THEN "turn" ELSE "idlecheck"
  /\ r' = [r EXCEPT !.due = FALSE, !.ordinary = TurnDue]
  /\ UNCHANGED <<durable, pos, h, todo, mail, manager, flying, bounds>>

\* startTurn, when the conversation is compacted first; the ordinary turn it
\* takes the place of stays due.
BeginCompaction ==
  /\ At("turn")
  /\ r.compact \/ AutoCompactionAllowed
  /\ Record(TurnItem(h.turn + 1, TRUE))
  /\ flying' = flying \cup {h.turn + 1}
  /\ r' = [Send(r) EXCEPT !.compact = FALSE, !.callModel = @ \/ r.ordinary,
                         !.grace = IF r.ordinary THEN {} ELSE @]
  /\ pc' = "select"
  /\ UNCHANGED <<saved, ckpt, pos, todo, mail, manager, bounds>>

\* Nothing to compact and no turn due: the request is dropped.
DropCompaction ==
  /\ At("turn")
  /\ ~r.ordinary
  /\ r' = [r EXCEPT !.live = FALSE, !.compact = FALSE]
  /\ pc' = "idlecheck"
  /\ UNCHANGED <<durable, pos, h, todo, mail, manager, flying, bounds>>

\* The model hears with the run's first turn why the run before it stopped
\* and what changed in the notes, and once that a compaction is near.
TellFirst ==
  /\ At("turn")
  /\ r.ordinary
  /\ LET stop == IF h.stopped THEN <<"resume">> ELSE <<>>
         notes == IF NotesChange /\ ~r.notesChecked THEN <<"note">> ELSE <<>>
         near == IF Reminds /\ ~h.reminded /\ AutoCompactionAllowed
                   THEN {<<>>, <<"reminder">>} ELSE {<<>>}
     IN \E reminder \in near : todo' = stop \o notes \o reminder
  /\ h' = [h EXCEPT !.stopped = FALSE]
  /\ r' = [r EXCEPT !.live = FALSE, !.compact = FALSE, !.notesChecked = TRUE]
  /\ pc' = "begin"
  /\ UNCHANGED <<durable, pos, mail, manager, flying, bounds>>

BeginTurn ==
  /\ At("begin")
  /\ Record(TurnItem(h.turn + 1, FALSE))
  /\ flying' = flying \cup {h.turn + 1}
  /\ r' = [Send(r) EXCEPT !.callModel = FALSE, !.grace = {}, !.freshStop = FALSE]
  /\ pc' = "select"
  /\ UNCHANGED <<saved, ckpt, pos, todo, mail, manager, bounds>>

IsIdle_inputs ==
  ~r.live /\ Pending(h) = 0 /\ r.deferred = <<>> /\ ~r.quota

IsIdle ==
  /\ ~r.live
  /\ Pending(h) = 0
  /\ r.deferred = <<>>
  /\ OpenCalls(h) = {}
  /\ PendingOperations = {}
  /\ ~r.quota

StopWhenIdle ==
  /\ At("idlecheck")
  /\ IF r.stop = "idle" /\ IsIdle
       THEN Exit("idle") /\ UNCHANGED faults
       ELSE /\ pc' = "select"
            /\ UNCHANGED <<durable, pos, h, r, todo, mail, manager, flying, bounds>>

-----------------------------------------------------------------------------
(* The environment *)

\* A sender submits an external input, for the first time or again, or a
\* control; the inbox drops what it has seen (Inbox!Take).
Submit ==
  /\ Up
  /\ \E id \in (External \ seen) \cup offered :
       /\ seen' = IF id \in External THEN seen \cup {id} ELSE seen
       /\ offered' = offered \ {id}
       /\ queued' = Append(queued, id)
  /\ UNCHANGED <<durable, pc, pos, h, r, todo, manager, flying, bounds>>

\* An operation that was started says that it works.
OperationAwaits ==
  /\ \E o \in Ops :
       /\ mgr[o] = "running"
       /\ h.ops[o] = "ready"
       /\ \A i \in DOMAIN updates : updates[i].op # o
       /\ updates' = Append(updates, [op |-> o, status |-> "awaiting"])
  /\ UNCHANGED <<durable, pc, pos, h, r, todo, mail, mgr, flying, bounds>>

\* An operation ends; one that is being canceled may still complete.
OperationEnds(o) ==
  /\ mgr[o] \in {"running", "canceling"}
  /\ mgr' = [mgr EXCEPT ![o] = "gone"]
  /\ \E status \in IF mgr[o] = "running" THEN {"completed"} ELSE Terminal :
       updates' = Append(updates, [op |-> o, status |-> status])
  /\ UNCHANGED <<durable, pc, pos, h, r, todo, mail, flying, bounds>>

-----------------------------------------------------------------------------

\* The goroutine has something to do that waits for nobody.
Working ==
  \/ ReplayItem \/ Restore \/ RecordInput
  \/ ScheduleToolCall \/ ScheduledAll \/ ReconcileToolCall \/ ReconciledAll \/ StartLoop
  \/ InputsSlurped \/ UpdatesSlurped \/ SaveCheckpoint
  \/ CountTurn \/ AnswerStands \/ AnswerFailed \/ AnswerCut \/ AnswerRefused \/ AnswerWhole
  \/ Verify \/ DispatchCalls
  \/ ProcessDue \/ CancelOperations \/ AwaitCancellation \/ Decide
  \/ BeginCompaction \/ DropCompaction \/ TellFirst \/ BeginTurn \/ StopWhenIdle

Timers ==
  DeadlinePasses \/ ReportDue \/ QuotaLifts \/ GraceEnds \/ ToolWaitEnds \/ PostHeartbeat

ModelResults ==
  \/ DropResult \/ AnswerArrives \/ SummaryArrives
  \/ QuotaRefuses \/ SummaryOverflows \/ AnswerOverflows \/ RequestFails

Next ==
  \/ Start \/ Crash
  \/ Working
  \/ TakeInput \/ TakeUpdate \/ Timers \/ ModelResults
  \/ Submit \/ OperationAwaits \/ \E o \in Ops : OperationEnds(o)

Spec == Init /\ [][Next]_vars

-----------------------------------------------------------------------------
(* Properties.  Those about the shape of the log are in CoordinatorChecks. *)

Checkpoints == [at : Nat, state : DerivedState]

TypeOK ==
  /\ log \in Seq(Items)
  /\ saved \in [Ops -> Statuses \cup {"none"}]
  /\ ckpt \subseteq Checkpoints
  /\ pc \in Labels
  /\ pos \in Nat
  /\ h \in DerivedState
  /\ r \in RunState
  /\ todo \in Seq(Inputs)
  /\ seen \subseteq External
  /\ queued \in Seq(Inputs)
  /\ offered \subseteq Controls
  /\ mgr \in [Ops -> Managed]
  /\ updates \in Seq([op : Ops, status : Statuses])
  /\ flying \subseteq Nat
  /\ runs \in Nat
  /\ faults \in Nat
  /\ heartbeats \in Nat

\* An operation is dispatched only once the log holds the status that
\* recorded it, so that no crash leaves work nobody knows of (scheduleToolCall
\* before dispatchOperationToManager; README, "dispatch committed operations").
WriteAhead ==
  \A o \in Ops : mgr[o] # "absent" =>
    /\ saved[o] # "none"
    /\ \E i \in DOMAIN log : log[i] = StatusItem(o, "ready")
=============================================================================
