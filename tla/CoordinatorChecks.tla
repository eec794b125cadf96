-------------------------- MODULE CoordinatorChecks --------------------------
(***************************************************************************)
(* What the coordinator promises about the session it records, stated over *)
(* the log, and what must happen in the end.                               *)
(***************************************************************************)
EXTENDS Coordinator

\* The states that a replay of items goes through, and the one it ends in.
Replay(items) ==
  LET d[n \in 0 .. Len(items)] == IF n = 0 THEN Blank ELSE AddItem(d[n - 1], items[n])
  IN d

\* The state the log alone determines.
Derived == Replay(log)[Len(log)]

\* The values that only replay derives, whatever the live loop did to its own.
Replayed(d) ==
  [d EXCEPT !.verifications = 0, !.work = FALSE, !.stopped = FALSE,
            !.ops = [o \in Ops |-> "none"]]

IsTurn(item) == item.kind = "turn"
IsOrdinary(item) == IsTurn(item) /\ ~item.compaction
IsExternal(item) == item \in {InputItem(id) : id \in External}

-----------------------------------------------------------------------------
(* Inputs *)

\* The external inputs among items, in order.
Externals(items) ==
  LET e[n \in 0 .. Len(items)] ==
        IF n = 0 THEN <<>>
        ELSE IF IsExternal(items[n]) THEN Append(e[n - 1], items[n].id)
        ELSE e[n - 1]
  IN e[Len(items)]

AsItems(ids) == [i \in DOMAIN ids |-> InputItem(ids[i])]

\* What the session recorded, and the inputs it will record, in order: those
\* being recorded now, those that wait for tools, those in the inbox.
Arrived == log \o AsItems(todo \o r.deferred \o queued)

\* The external inputs the session has or will have, in order.
Line == Externals(Arrived)

EachOnce(items) ==
  LET ids == Externals(items) IN \A i, j \in DOMAIN ids : ids[i] = ids[j] => i = j

\* No external input is recorded twice, nor recorded while it also waits:
\* not when it is submitted again in the same run, and not when it is
\* submitted again after a crash (the inbox is created with the recorded IDs).
RecordedOnce == EachOnce(Arrived)

\* While a run lasts, external inputs are recorded in the order they came and
\* none is lost on the way: neither the ones delivered after tools, which
\* wait aside, nor the ones that take those along (handleInboxInputs,
\* deliverDeferred).
ArrivalOrder ==
  [][Up /\ Up' => \/ Line' = Line
                  \/ \E id \in External : Line' = Append(Line, id)]_vars

-----------------------------------------------------------------------------
(* Turns *)

ResponsesAnswer(items) ==
  \A i \in DOMAIN items : items[i].kind = "response" =>
    \E k \in 1 .. i - 1 :
      /\ IsTurn(items[k]) /\ items[k].turn = items[i].turn
      /\ \A j \in k + 1 .. i - 1 : ~IsTurn(items[j]) /\ items[j].kind # "response"

\* Every recorded response answers the turn recorded last, and is its only
\* one: the answer of a request that was canceled, replaced or left over is
\* never recorded (Run drops results of other turns).
ResponsesAnswerLatestTurn == ResponsesAnswer(log)

\* Turns recorded with no answer before the next one.
Interrupted(items, i, j) ==
  /\ i < j /\ IsTurn(items[i]) /\ IsTurn(items[j])
  /\ \A k \in i + 1 .. j - 1 : ~IsTurn(items[k]) /\ items[k].kind # "response"

\* External input that does not wait for tools.
IsPrompt(item) == item \in {InputItem(id) : id \in External \ AfterTools}

PromptsInterrupt(items) ==
  \A i, j \in DOMAIN items : Interrupted(items, i, j) =>
    /\ ~items[i].compaction
    /\ \E k \in i + 1 .. j - 1 : IsPrompt(items[k])

\* In a run without faults, a request is cut short only by external input
\* delivered at once, and a compaction by nothing: results, harness messages
\* and input delivered after tools wait for the answer.
OnlyPromptsInterrupt == PromptsInterrupt(log)

\* The turn recorded last, with no answer so far.
Unanswered(items, k) ==
  /\ IsTurn(items[k])
  /\ \A j \in DOMAIN items : j > k => ~IsTurn(items[j]) /\ items[j].kind # "response"

\* A session of one run in which nothing fails; it was not forked from a turn
\* that had no answer.
Undisturbed ==
  /\ Runs <= 1 /\ Faults = 0
  /\ PromptsInterrupt(Inherited)
  /\ \A k \in DOMAIN Inherited : ~Unanswered(Inherited, k)

StopsTold(items) ==
  \A i, j \in DOMAIN items :
    (/\ i < j
     /\ items[i] = InputItem("stop_hard")
     /\ IsOrdinary(items[j])
     /\ \A k \in i + 1 .. j - 1 : ~IsOrdinary(items[k]))
    => \E k \in i + 1 .. j - 1 : items[k] = InputItem("resume")

\* The stop that ended a run is told to the model before the next ordinary
\* turn, however the session was restored (resumeNote, checkpointStop).
StopIsTold == StopsTold(log)

-----------------------------------------------------------------------------
(* Restoring *)

\* What a restored session goes on with: everything but the operations of
\* calls that have their result.
Resumed(d) ==
  [d EXCEPT !.ops = [o \in Ops |-> IF o \in OpenCalls(d) \/ @[o] \in Unfinished
                                  THEN @[o] ELSE "none"]]

\* A session restored from a checkpoint and the items after it is the session
\* restored from all its items (saveCheckpoint, restoreCheckpoint).
RestoreIsReplay ==
  pc = "schedule" /\ ~r.started /\ pos = Len(log) =>
    Resumed(h) = Resumed(RestoreOperations(Derived))

\* The live state is at every moment what a later run would derive from the
\* log, but for what replayHistory lists.
LiveIsReplay ==
  Up /\ pc # "replay" => Replayed(h) = Replayed(Derived)

-----------------------------------------------------------------------------
(* The end of a run *)

\* A run that went idle leaves nothing open: every recorded input and result
\* was read by the model, every tool call has its result, every operation
\* ended.
IdleLeavesNothing ==
  pc = "idle" =>
    /\ Pending(Derived) = 0
    /\ OpenCalls(Derived) = {}
    /\ \A o \in Ops : saved[o] \notin Unfinished

Responses == {i \in DOMAIN log : log[i].kind = "response"}

\* The responses of the session itself, not of the one it was forked from.
OwnResponses == {i \in Responses : i > Len(Inherited)}

\* A run of its own (without a restart in between) does not go idle on an
\* answer that failed: answerStop asks again, or the run fails.  A run that is
\* told not to recover (NoRecovery) leaves the answer as it is.
IdleAfterAnswer ==
  pc = "idle" /\ runs = 1 /\ ~NoRecovery =>
    \A i \in OwnResponses : log[i].ending = "failed" => \E k \in OwnResponses : k > i

\* "asks again after a refusal or an empty answer" (Dependencies.NoRecovery),
\* once each: a run does not go idle on its first empty answer.
EmptyAskedAgain ==
  pc = "idle" /\ runs = 1 =>
    \A i \in Responses : log[i].ending = "empty" => \E k \in Responses : k > i

\* A run that a hard stop ended leaves no tool call without its result and no
\* operation that a later run would start again.
StopLeavesNoWork ==
  pc = "stopped" =>
    /\ OpenCalls(Derived) = {}
    /\ \A o \in Ops : saved[o] \notin Unfinished

\* Once cancellation was requested, no operation that has to be waited for
\* enters the coordinator's state (stopState.cancellationRequested).
NoNewOperations ==
  [][r.cancelled /\ r'.cancelled => PendingOperations' \subseteq PendingOperations]_vars

-----------------------------------------------------------------------------
(* Verification *)

\* Of the first n items, those recorded since the last external input
SincePrompt(items, n) == {i \in 1 .. n : \A k \in i .. n : ~IsExternal(items[k])}

FailedChecks(items, n) == {i \in SincePrompt(items, n) : items[i] = InputItem("verification")}

\* A prompt gets back at most MaxVerifications failed verifications, over all
\* its runs (Dependencies.MaxVerifications).
ChecksBounded(items) ==
  \A n \in 0 .. Len(items) : Cardinality(FailedChecks(items, n)) <= MaxVerifications
VerificationsBounded == ChecksBounded(log)

\* "verifications counts those of the current prompt": the verifications that
\* were recorded for it and are over.
VerificationsCounted ==
  LET checks == {i \in SincePrompt(log, Len(log)) : log[i].kind = "status" /\ log[i].op \in Checks}
  IN Up /\ pc # "replay" /\ todo = <<>> =>
       h.verifications <= Cardinality(checks)

-----------------------------------------------------------------------------
(* Operations *)

\* What the operations of a session go through, over all its runs.
Lifecycle == INSTANCE OperationLifecycle WITH
  stored <- [o \in Ops |-> CASE saved[o] = "none"        -> "none"
                             [] saved[o] \in Unfinished -> "recorded"
                             [] saved[o] \in Terminal   -> "ended"],
  active <- {o \in Ops : mgr[o] \in {"running", "canceling"}}

\* The coordinator, its store and its manager give every operation that life:
\* recorded, then worked on, in as many runs as it takes, then ended for good.
ImplementsLifecycle == Lifecycle!Spec

\* The operations a fork's log names belong to the session it was forked from:
\* a run of the fork neither runs nor answers them.
InheritedOps == {Inherited[i].op : i \in {k \in DOMAIN Inherited : Inherited[k].kind = "status"}}
ForkStartsClean ==
  \A o \in InheritedOps :
    /\ mgr[o] = "absent"
    /\ \A i \in Len(Inherited) + 1 .. Len(log) : log[i].kind = "status" => log[i].op # o

\* A status is that of a call that a response made before.
CallsWereMade(items) ==
  \A i \in DOMAIN items : items[i].kind = "status" /\ items[i].op \in Calls =>
    Replay(items)[i].calls[items[i].op] # "none"

\* What a session leaves in its log, and a fork of it inherits.
LeftBySession(items) ==
  /\ EachOnce(items) /\ ChecksBounded(items)
  /\ CallsWereMade(items) /\ ResponsesAnswer(items) /\ StopsTold(items)

\* A session is forked with what a session left.
ASSUME InheritedAssumption == LeftBySession(Inherited)

-----------------------------------------------------------------------------
(* What must happen *)

\* The goroutine works when it can, takes what its channels hold, and its
\* timers fire; the model answers; an operation that was canceled ends; a run
\* that ended is followed by another while the bound on runs lasts.
FairSpec ==
  /\ Spec
  /\ WF_vars(Start)
  /\ WF_vars(Working)
  /\ WF_vars(TakeInput)
  /\ WF_vars(TakeUpdate)
  /\ WF_vars(QuotaLifts) /\ WF_vars(GraceEnds) /\ WF_vars(ToolWaitEnds)
  /\ WF_vars(AnswerArrives) /\ WF_vars(SummaryArrives)
  /\ \A o \in Ops : WF_vars(mgr[o] = "canceling" /\ OperationEnds(o))

\* A hard stop ends the run, whatever the tools, the model and the senders do.
HardStopEnds == r.stop = "hard" ~> ~Up

\* A spent budget ends the run: the final report is asked for, answered and
\* stops it.
BudgetEnds == r.wrapUp > 0 ~> ~Up

\* Input that waits for tools goes out, when the wait has a limit, though a
\* tool never ends.
SteeringGoesOut == r.deferred # <<>> ~> (r.deferred = <<>> \/ r.stop = "hard")

\* What the session recorded the model reads, also when runs crash and the
\* session is restored, unless a hard stop comes first.
RecordedIsRead ==
  Pending(Derived) > 0 ~> (Pending(Derived) = 0 \/ r.stop = "hard" \/ pc = "stopped")
=============================================================================
