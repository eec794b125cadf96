------------------------- MODULE CoordinatorProofs -------------------------
(***************************************************************************)
(* The coordinator keeps its types, whatever is submitted, the model       *)
(* answers and the tools do, in any number of runs; it works on nothing    *)
(* that it has not recorded; and what a later run would derive from its    *)
(* log is what the live run knows.                                         *)
(***************************************************************************)
EXTENDS CoordinatorChecks, SequenceTheorems, WellFoundedInduction, TLAPS

-----------------------------------------------------------------------------
(* What the items of a session do to the state derived from them *)

\* The fields of an item, by its kind.
LEMMA ItemFields ==
  ASSUME NEW item \in Items
  PROVE  /\ item.kind \in {"input", "turn", "response", "status", "fork"}
         /\ item.kind = "input" => item.id \in Inputs
         /\ item.kind = "turn" => item.turn \in Nat /\ item.compaction \in BOOLEAN
         /\ item.kind = "response" =>
              item.turn \in Nat /\ item.calls \in SUBSET Calls /\ item.ending \in Endings
         /\ item.kind = "status" => item.op \in Ops /\ item.status \in Statuses \cup {"none"}
BY DEF Items, ForkItem

\* The numbers of a derived state, and their successors.
LEMMA DerivedNumbers ==
  ASSUME NEW d \in DerivedState
  PROVE  /\ d.available \in Nat /\ d.available + 1 \in Nat
         /\ d.verifications \in Nat /\ d.verifications + 1 \in Nat
         /\ d.history.verifications \in Nat
         /\ d.failed \in Nat /\ d.failed + 1 \in Nat
         /\ d.refills \in Nat /\ d.refills + 1 \in Nat
         /\ d.since \in Int /\ d.since + 1 \in Int
         /\ 0 \in Nat /\ 0 \in Int
<1>1. /\ d.available \in Nat /\ d.verifications \in Nat /\ d.history.verifications \in Nat
      /\ d.failed \in Nat /\ d.refills \in Nat /\ d.since \in Int
  BY ZenonT(60) DEF DerivedState
<1> QED BY <1>1

LEMMA BlankType == Blank \in DerivedState
BY DEF Blank, DerivedState, CallStates

\* The changed fields of history come one by one: d2 and d3.
LEMMA AddInputType ==
  ASSUME NEW d \in DerivedState, NEW id
  PROVE  AddInput(d, id) \in DerivedState
<1> DEFINE a == IF id \in External \cup Heartbeats THEN d.available + 1 ELSE d.available
           v == CountVerifications(d.verifications, id)
           w == CountVerifications(d.history.verifications, id)
           reminded == d.reminded \/ id = "reminder"
           asked == d.asked \/ id = "compact"
           s == d.stopped \/ id = "stop_hard"
           t == d.history.stopped \/ id = "stop_hard"
           d1 == [d EXCEPT !.available = a, !.verifications = v, !.reminded = reminded,
                           !.asked = asked, !.stopped = s]
           d2 == [d1 EXCEPT !.history.verifications = w]
           d3 == [d2 EXCEPT !.history.stopped = t]
<1>1. a \in Nat /\ v \in Nat /\ w \in Nat
  BY DerivedNumbers DEF CountVerifications
<1>2. reminded \in BOOLEAN /\ asked \in BOOLEAN /\ s \in BOOLEAN /\ t \in BOOLEAN
  BY Zenon
<1>3. AddInput(d, id) = d3
  BY Zenon DEF AddInput
<1> HIDE DEF a, v, w, reminded, asked, s, t
<1>4. d1 \in DerivedState
  BY <1>1, <1>2, ZenonT(60) DEF DerivedState
<1> HIDE DEF d1
<1>5. d2 \in DerivedState
  BY <1>1, <1>4, ZenonT(60) DEF DerivedState
<1> HIDE DEF d2
<1>6. d3 \in DerivedState
  BY <1>2, <1>5, ZenonT(60) DEF DerivedState
<1> QED BY <1>3, <1>6

LEMMA AddTurnType ==
  ASSUME NEW d \in DerivedState, NEW n \in Nat, NEW compaction \in BOOLEAN
  PROVE  AddTurn(d, n, compaction) \in DerivedState
<1> DEFINE c == IF compaction THEN d.compactionTurns \cup {n} ELSE d.compactionTurns \ {n}
           f == IF ~compaction THEN d.refills
                ELSE IF ~d.asked /\ RefilledRapidly(d) THEN d.refills + 1 ELSE 0
           s == StopWaits(d.stopped, compaction)
           t == StopWaits(d.history.stopped, compaction)
           d1 == [d EXCEPT !.turn = n, !.compactionTurns = c, !.refills = f, !.stopped = s]
           d2 == [d1 EXCEPT !.history.stopped = t]
           d3 == [d2 EXCEPT !.asked = FALSE, !.turnInputs = d.available]
<1>1. d.compactionTurns \in SUBSET Nat
  BY ZenonT(60) DEF DerivedState
<1>2. c \in SUBSET Nat /\ f \in Nat
  BY <1>1, DerivedNumbers
<1>3. s \in BOOLEAN /\ t \in BOOLEAN
  BY Zenon DEF StopWaits
<1>4. AddTurn(d, n, compaction) = d3
  BY Zenon DEF AddTurn
<1> HIDE DEF c, f, s, t
<1>5. d1 \in DerivedState
  BY <1>2, <1>3, ZenonT(60) DEF DerivedState
<1> HIDE DEF d1
<1>6. d2 \in DerivedState
  BY <1>3, <1>5, ZenonT(60) DEF DerivedState
<1> HIDE DEF d2
<1>7. d3 \in DerivedState
  BY <1>6, DerivedNumbers, ZenonT(60) DEF DerivedState
<1> QED BY <1>4, <1>7

LEMMA AddSummaryType ==
  ASSUME NEW d \in DerivedState, NEW n \in Nat, NEW compacted \in BOOLEAN
  PROVE  AddSummary(d, n, compacted) \in DerivedState
<1> DEFINE f == IF compacted THEN 0 ELSE d.failed + 1
           s == IF compacted THEN 0 ELSE d.since
           m == d.reminded /\ ~compacted
           e == [d EXCEPT !.compacted = TRUE, !.failed = f, !.since = s, !.reminded = m]
<1>1. f \in Nat /\ s \in Int
  BY DerivedNumbers
<1>2. m \in BOOLEAN
  BY Zenon
<1>3. AddSummary(d, n, compacted) = IF n # d.turn THEN d ELSE e
  BY Zenon DEF AddSummary
<1> HIDE DEF f, s, m
<1>4. e \in DerivedState
  BY <1>1, <1>2, ZenonT(60) DEF DerivedState
<1> HIDE DEF e
<1> QED BY <1>3, <1>4

LEMMA AddAnswerType ==
  ASSUME NEW d \in DerivedState, NEW n \in Nat, NEW calls \in SUBSET Calls
  PROVE  AddAnswer(d, n, calls) \in DerivedState
<1> DEFINE s == IF d.since >= 0 THEN d.since + 1 ELSE d.since
           v == IF n = d.turn THEN d.turnInputs ELSE d.delivered
           w == d.work \/ calls # {}
           t == d.history.work \/ calls # {}
           c == [x \in Calls |-> IF x \in calls THEN "asked" ELSE d.calls[x]]
           d1 == [d EXCEPT !.compacted = FALSE, !.since = s, !.delivered = v, !.work = w]
           d2 == [d1 EXCEPT !.history.work = t]
           d3 == [d2 EXCEPT !.calls = c]
<1>1. s \in Int
  BY DerivedNumbers
<1>2. v \in Nat /\ w \in BOOLEAN /\ t \in BOOLEAN
  BY ZenonT(60) DEF DerivedState
<1>3. c \in [Calls -> CallStates]
  BY ZenonT(60) DEF DerivedState, CallStates
<1>4. AddAnswer(d, n, calls) = d3
  BY Zenon DEF AddAnswer
<1> HIDE DEF s, v, w, t, c
<1>5. d1 \in DerivedState
  BY <1>1, <1>2, ZenonT(60) DEF DerivedState
<1> HIDE DEF d1
<1>6. d2 \in DerivedState
  BY <1>2, <1>5, ZenonT(60) DEF DerivedState
<1> HIDE DEF d2
<1>7. d3 \in DerivedState
  BY <1>3, <1>6, ZenonT(60) DEF DerivedState
<1> QED BY <1>4, <1>7

LEMMA AddStatusType ==
  ASSUME NEW d \in DerivedState, NEW o \in Ops, NEW status \in Statuses \cup {"none"}
  PROVE  AddStatus(d, o, status) \in DerivedState
<1>1. [d.ops EXCEPT ![o] = status] \in [Ops -> Statuses \cup {"none"}]
  BY ZenonT(60) DEF DerivedState
<1>2. \A s \in CallStates : [d.calls EXCEPT ![o] = s] \in [Calls -> CallStates]
  BY ZenonT(60) DEF DerivedState
<1>3. "waiting" \in CallStates /\ "done" \in CallStates
  BY DEF CallStates
<1> QED BY <1>1, <1>2, <1>3, DerivedNumbers, ZenonT(60) DEF AddStatus, DerivedState

LEMMA AddForkType ==
  ASSUME NEW d \in DerivedState
  PROVE  AddFork(d) \in DerivedState
BY ZenonT(60) DEF AddFork, DerivedState, CallStates

\* Every item leads from a derived state to a derived state.
LEMMA AddItemType ==
  ASSUME NEW d \in DerivedState, NEW item \in Items
  PROVE  AddItem(d, item) \in DerivedState
<1>1. CASE item.kind = "input"
  BY <1>1, AddInputType DEF AddItem
<1>2. CASE item.kind = "turn"
  BY <1>2, ItemFields, AddTurnType DEF AddItem
<1>3. CASE item.kind = "response"
  <2>1. (item.ending = "summary") \in BOOLEAN
    BY Zenon
  <2> QED BY <1>3, <2>1, ItemFields, AddSummaryType, AddAnswerType, Zenon DEF AddItem
<1>4. CASE item.kind = "status"
  BY <1>4, ItemFields, AddStatusType DEF AddItem
<1>5. CASE item.kind = "fork"
  BY <1>5, AddForkType DEF AddItem
<1> QED BY <1>1, <1>2, <1>3, <1>4, <1>5, ItemFields

-----------------------------------------------------------------------------
(* What the steps are made of *)

\* The variables a step leaves alone keep their types.
LEMMA UnchangedTypes ==
  /\ TypeOK /\ UNCHANGED durable =>
       /\ log' \in Seq(Items) /\ saved' \in [Ops -> Statuses \cup {"none"}]
       /\ ckpt' \subseteq Checkpoints
  /\ TypeOK /\ UNCHANGED mail =>
       seen' \subseteq External /\ queued' \in Seq(Inputs) /\ offered' \subseteq Controls
  /\ TypeOK /\ UNCHANGED manager =>
       mgr' \in [Ops -> Managed] /\ updates' \in Seq([op : Ops, status : Statuses])
  /\ TypeOK /\ UNCHANGED bounds => runs' \in Nat /\ faults' \in Nat /\ heartbeats' \in Nat
BY Zenon DEF TypeOK, durable, mail, manager, bounds

LEMMA NewRunType == NewRun \in RunState
<1>1. /\ Deadline \in BOOLEAN /\ 0 \in Nat /\ <<>> \in Seq(External)
      /\ {} \in SUBSET Calls /\ "whole" \in Endings
  BY CoordinatorAssumption, EmptySeq DEF Endings
<1> QED BY <1>1, ZenonT(60) DEF NewRun, RunState

\* The counters of a run, and their successors.
LEMMA RunNumbers ==
  ASSUME NEW run \in RunState
  PROVE  /\ run.turns \in Nat /\ run.turns + 1 \in Nat
         /\ run.compactions \in Nat /\ run.compactions + 1 \in Nat
         /\ run.cutdowns \in Nat /\ run.cutdowns + 1 \in Nat
         /\ run.quotaWaits \in Nat /\ run.quotaWaits + 1 \in Nat
         /\ run.continues \in Nat /\ run.continues + 1 \in Nat
         /\ run.retries \in Nat /\ run.retries + 1 \in Nat
         /\ run.failures \in Nat /\ run.failures + 1 \in Nat
         /\ run.wrapUp \in Nat
         /\ 0 \in Nat
<1>1. /\ run.turns \in Nat /\ run.compactions \in Nat /\ run.cutdowns \in Nat
      /\ run.quotaWaits \in Nat /\ run.continues \in Nat /\ run.retries \in Nat
      /\ run.failures \in Nat /\ run.wrapUp \in Nat
  BY ZenonT(60) DEF RunState
<1> QED BY <1>1

\* What the harness says itself, as inputs to be recorded.
LEMMA Messages ==
  /\ <<>> \in Seq(Inputs)
  /\ \A m \in Heartbeats : <<m>> \in Seq(Inputs)
BY EmptySeq DEF Inputs, Controls

LEMMA BudgetSpentType == BudgetSpent \in Seq(Inputs)
BY Messages, Zenon DEF BudgetSpent, Heartbeats

LEMMA CompactionNoteType == CompactionNote \in Seq(Inputs)
BY Messages, Zenon DEF CompactionNote, Heartbeats

LEMMA SnapshotType == \A d \in DerivedState : Snapshot(d) \in DerivedState
<1> SUFFICES ASSUME NEW d \in DerivedState PROVE Snapshot(d) \in DerivedState
  OBVIOUS
<1> DEFINE ops == [o \in Ops |-> IF o \in OpenCalls(d) \/ d.ops[o] \in Unfinished
                                THEN d.ops[o] ELSE "none"]
<1>1. ops \in [Ops -> Statuses \cup {"none"}]
  BY ZenonT(60) DEF DerivedState
<1>2. Snapshot(d) = [d EXCEPT !.verifications = d.history.verifications,
                             !.work = d.history.work, !.stopped = d.history.stopped,
                             !.ops = ops]
  BY Zenon DEF Snapshot
<1> HIDE DEF ops
<1> QED BY <1>1, <1>2, ZenonT(60) DEF DerivedState

LEMMA RestoreOperationsType ==
  TypeOK => \A d \in DerivedState : RestoreOperations(d) \in DerivedState
<1> SUFFICES ASSUME TypeOK, NEW d \in DerivedState PROVE RestoreOperations(d) \in DerivedState
  OBVIOUS
<1> DEFINE ops == [o \in Ops |-> IF Restorable(o) THEN saved[o] ELSE d.ops[o]]
<1>1. ops \in [Ops -> Statuses \cup {"none"}]
  BY ZenonT(60) DEF DerivedState, TypeOK
<1>2. RestoreOperations(d) = [d EXCEPT !.ops = ops]
  BY Zenon DEF RestoreOperations
<1> HIDE DEF ops
<1> QED BY <1>1, <1>2, ZenonT(60) DEF DerivedState

\* Recording an item keeps the log and the derived state.
LEMMA RecordTypes ==
  ASSUME TypeOK, NEW item \in Items, Record(item)
  PROVE  h' \in DerivedState /\ log' \in Seq(Items)
BY AddItemType DEF Record, TypeOK

LEMMA ItemTypes ==
  /\ \A id \in Inputs : InputItem(id) \in Items
  /\ \A n \in Nat, compaction \in BOOLEAN : TurnItem(n, compaction) \in Items
  /\ \A n \in Nat, calls \in SUBSET Calls, ending \in Endings :
       ResponseItem(n, calls, ending) \in Items
  /\ \A o \in Ops, status \in Statuses \cup {"none"} : StatusItem(o, status) \in Items
BY Zenon DEF Items, InputItem, TurnItem, ResponseItem, StatusItem

LEMMA WithOpenCallsType ==
  ASSUME NEW run \in RunState, NEW derived
  PROVE  WithOpenCalls(run, derived) \in RunState
BY ZenonT(60) DEF WithOpenCalls, RunState

LEMMA StoreTypes ==
  ASSUME TypeOK, NEW o \in Ops, NEW status \in Statuses \cup {"none"}, Store(o, status)
  PROVE  saved' \in [Ops -> Statuses \cup {"none"}]
BY DEF Store, TypeOK

LEMMA DispatchTypes ==
  ASSUME TypeOK, NEW ops, Dispatch(ops)
  PROVE  mgr' \in [Ops -> Managed]
BY DEF Dispatch, TypeOK, Managed

\* A run that ends leaves no state of its own.
LEMMA ExitTypes ==
  ASSUME TypeOK, NEW how \in Labels, Exit(how), faults' \in Nat
  PROVE  TypeOK'
<1>1. /\ <<>> \in Seq(Inputs) /\ <<>> \in Seq([op : Ops, status : Statuses])
      /\ [o \in Ops |-> "absent"] \in [Ops -> Managed] /\ 0 \in Nat
  BY EmptySeq DEF Managed
<1> QED BY <1>1, UnchangedTypes, NewRunType, BlankType DEF Exit, TypeOK

-----------------------------------------------------------------------------
(* Restoring, recording *)

LEMMA RestoringTypes ==
  TypeOK /\ (Start \/ ReplayItem \/ Restore \/ Crash) => TypeOK'
<1> SUFFICES ASSUME TypeOK, Start \/ ReplayItem \/ Restore \/ Crash PROVE TypeOK'
  OBVIOUS
<1>1. CASE Start
  <2>1. KnownInputs \subseteq External /\ Offered \subseteq Controls
    BY CoordinatorAssumption DEF KnownInputs
  <2>2. pos' \in Nat /\ h' \in DerivedState
    <3>1. \A c \in ckpt : c.at \in Nat /\ c.state \in DerivedState
      BY Zenon DEF TypeOK, Checkpoints
    <3> QED BY <1>1, <3>1, BlankType DEF Start
  <2>3. runs' \in Nat
    BY <1>1 DEF Start, TypeOK
  <2> QED BY <1>1, <2>1, <2>2, <2>3, UnchangedTypes DEF Start, TypeOK, Labels
<1>2. CASE ReplayItem
  <2>1. log[pos + 1] \in Items /\ pos + 1 \in Nat
    BY <1>2, ElementOfSeq, LenProperties DEF ReplayItem, TypeOK
  <2>2. h' \in DerivedState
    BY <1>2, <2>1, AddItemType DEF ReplayItem, TypeOK
  <2> QED BY <1>2, <2>1, <2>2, UnchangedTypes DEF ReplayItem, TypeOK
<1>3. CASE Restore
  <2>1. h' \in DerivedState
    BY <1>3, RestoreOperationsType DEF Restore, TypeOK
  <2>2. r' \in RunState
    <3> PICK k \in Checks \cup {Nothing} : r' = [r EXCEPT !.verifying = k]
      BY <1>3, Zenon DEF Restore
    <3> QED BY ZenonT(60) DEF TypeOK, RunState
  <2> QED BY <1>3, <2>1, <2>2, UnchangedTypes DEF Restore, TypeOK, Labels
<1>4. CASE Crash
  BY <1>4, ExitTypes DEF Crash, TypeOK, Labels, Down
<1> QED BY <1>1, <1>2, <1>3, <1>4

LEMMA RecordInputTypes == TypeOK /\ RecordInput => TypeOK'
<1> SUFFICES ASSUME TypeOK, RecordInput PROVE TypeOK'
  OBVIOUS
<1> DEFINE id == Head(todo)
<1>1. id \in Inputs /\ Tail(todo) \in Seq(Inputs)
  BY HeadTailProperties DEF RecordInput, TypeOK
<1>2. h' \in DerivedState /\ log' \in Seq(Items)
  BY <1>1, RecordTypes, ItemTypes DEF RecordInput
<1>3. AcceptStop(r.stop, id) \in {"none", "idle", "hard"}
  BY ZenonT(60) DEF AcceptStop, TypeOK, RunState
<1>4. h'.available \in Nat
  BY <1>2, DerivedNumbers
<1>5. r' \in RunState
  <2> DEFINE callModel == r.callModel \/ id \in External
             compact == r.compact \/ id = "compact"
             stop == AcceptStop(r.stop, id)
             freshStop == r.freshStop \/ id = "stop_hard"
             wrapUp == IF id = "budget" THEN h'.available ELSE r.wrapUp
             grace == IF id \in {"settings", "compact"} THEN r.grace ELSE {}
  <2>1. /\ callModel \in BOOLEAN /\ compact \in BOOLEAN /\ freshStop \in BOOLEAN
        /\ stop \in {"none", "idle", "hard"}
    BY <1>3, Zenon
  <2>2. wrapUp \in Nat /\ grace \in SUBSET Calls
    BY <1>4, ZenonT(60) DEF TypeOK, RunState
  <2>3. r' = [r EXCEPT !.callModel = callModel, !.compact = compact, !.stop = stop,
                       !.freshStop = freshStop, !.wrapUp = wrapUp, !.grace = grace]
    BY Zenon DEF RecordInput
  <2> DEFINE first == [r EXCEPT !.callModel = callModel, !.compact = compact]
             second == [first EXCEPT !.stop = stop, !.freshStop = freshStop]
  <2>4. r' = [second EXCEPT !.wrapUp = wrapUp, !.grace = grace]
    BY <2>3, Zenon
  <2> HIDE DEF callModel, compact, stop, freshStop, wrapUp, grace
  <2>5. first \in RunState
    BY <2>1, ZenonT(60) DEF TypeOK, RunState
  <2> HIDE DEF first
  <2>6. second \in RunState
    BY <2>1, <2>5, ZenonT(60) DEF RunState
  <2> HIDE DEF second
  <2> QED BY <2>2, <2>4, <2>6, ZenonT(60) DEF RunState
<1> QED BY <1>1, <1>2, <1>5, UnchangedTypes DEF RecordInput, TypeOK

-----------------------------------------------------------------------------
(* Tool calls *)

LEMMA ToolCallTypes ==
  TypeOK /\ (ScheduleToolCall \/ ScheduledAll \/ ReconcileToolCall \/ ReconciledAll \/ StartLoop)
    => TypeOK'
<1> SUFFICES ASSUME TypeOK, ScheduleToolCall \/ ScheduledAll \/ ReconcileToolCall
                              \/ ReconciledAll \/ StartLoop
             PROVE  TypeOK'
  OBVIOUS
<1>1. CASE ScheduleToolCall
  <2> PICK c \in Calls, status \in {"ready", "none"} :
        /\ Record(StatusItem(c, status))
        /\ Store(c, status)
        /\ r' = [WithOpenCalls(r, h') EXCEPT !.statuses = @ \cup {c},
                                             !.due = @ \/ status = "none"]
    BY <1>1, Zenon DEF ScheduleToolCall
  <2>1. c \in Ops /\ status \in Statuses \cup {"none"}
    BY DEF Ops, Statuses, Unfinished
  <2>2. /\ h' \in DerivedState /\ log' \in Seq(Items)
        /\ saved' \in [Ops -> Statuses \cup {"none"}]
    BY <2>1, RecordTypes, ItemTypes, StoreTypes
  <2>3. WithOpenCalls(r, h') \in RunState
    BY WithOpenCallsType DEF TypeOK
  <2>4. r' \in RunState
    BY <2>3, ZenonT(60) DEF RunState
  <2> QED BY <1>1, <2>2, <2>4, UnchangedTypes DEF ScheduleToolCall, TypeOK
<1>2. CASE ScheduledAll
  BY <1>2, UnchangedTypes DEF ScheduledAll, TypeOK, Labels
<1>3. CASE ReconcileToolCall
  <2> PICK c \in FinishedCalls :
        /\ Record(StatusItem(c, h.ops[c]))
        /\ r' = WithOpenCalls(r, h')
    BY <1>3, Zenon DEF ReconcileToolCall
  <2>1. c \in Ops /\ h.ops[c] \in Statuses \cup {"none"}
    BY ZenonT(60) DEF FinishedCalls, Ops, TypeOK, DerivedState
  <2>2. h' \in DerivedState /\ log' \in Seq(Items)
    BY <2>1, RecordTypes, ItemTypes
  <2>3. r' \in RunState
    BY WithOpenCallsType DEF TypeOK
  <2> QED BY <1>3, <2>2, <2>3, UnchangedTypes DEF ReconcileToolCall, TypeOK
<1>4. CASE ReconciledAll
  BY <1>4, UnchangedTypes DEF ReconciledAll, TypeOK, Labels
<1>5. CASE StartLoop
  <2>1. mgr' \in [Ops -> Managed]
    BY <1>5, DispatchTypes DEF StartLoop
  <2>2. r' \in RunState
    <3> DEFINE call == r.due \/ Pending(h) > 0
    <3>1. call \in BOOLEAN
      BY Zenon
    <3>2. r' = [r EXCEPT !.started = TRUE, !.due = FALSE, !.statuses = {}, !.ordinary = call]
      BY <1>5, Zenon DEF StartLoop
    <3> HIDE DEF call
    <3> QED BY <3>1, <3>2, ZenonT(60) DEF TypeOK, RunState
  <2> QED BY <1>5, <2>1, <2>2, UnchangedTypes DEF StartLoop, TypeOK, Labels
<1> QED BY <1>1, <1>2, <1>3, <1>4, <1>5

-----------------------------------------------------------------------------
(* Events *)

LEMMA TakeInputTypes == TypeOK /\ TakeInput => TypeOK'
<1> SUFFICES ASSUME TypeOK, TakeInput PROVE TypeOK'
  OBVIOUS
<1> DEFINE id == Head(queued)
<1>1. id \in Inputs /\ queued' \in Seq(Inputs)
  BY HeadTailProperties DEF TakeInput, TypeOK
<1>2. r.deferred \in Seq(External) /\ <<>> \in Seq(External) /\ AfterTools \subseteq External
  BY EmptySeq, CoordinatorAssumption, ZenonT(60) DEF TypeOK, RunState
<1>3. r' \in RunState /\ todo' \in Seq(Inputs)
  <2>1. CASE Defers(id) /\ r' = [r EXCEPT !.deferred = Append(@, id)] /\ UNCHANGED todo
    <3>1. Append(r.deferred, id) \in Seq(External)
      BY <1>2, <2>1 DEF Defers
    <3> HIDE DEF id
    <3>2. r' \in RunState
      BY <2>1, <3>1, ZenonT(60) DEF TypeOK, RunState
    <3> QED BY <2>1, <3>2 DEF TypeOK
  <2>2. CASE /\ id \in External /\ todo' = GoesOut(id)
             /\ r' = [r EXCEPT !.deferred = <<>>, !.timer = FALSE, !.waited = FALSE]
    <3>1. Append(r.deferred, id) \in Seq(External) /\ External \subseteq Inputs
      BY <1>2, <2>2 DEF Inputs
    <3>2. todo' \in Seq(Inputs)
      BY <2>2, <3>1, SeqMonotonic DEF GoesOut
    <3>3. r' \in RunState
      BY <1>2, <2>2, ZenonT(60) DEF TypeOK, RunState
    <3> QED BY <3>2, <3>3
  <2>3. CASE todo' = <<id>> /\ UNCHANGED r
    BY <1>1, <2>3 DEF TypeOK
  <2> QED BY <2>1, <2>2, <2>3, Zenon DEF TakeInput
<1> QED BY <1>1, <1>3, UnchangedTypes DEF TakeInput, TypeOK, Labels

LEMMA TakeUpdateTypes == TypeOK /\ TakeUpdate => TypeOK'
<1> SUFFICES ASSUME TypeOK, TakeUpdate PROVE TypeOK'
  OBVIOUS
<1> DEFINE u == Head(updates)
           verified == Verifies /\ u.op = r.verifying /\ u.status \in Terminal
           v == IF verified THEN h.verifications + 1 ELSE h.verifications
<1>1. /\ u.op \in Ops /\ u.status \in Statuses
      /\ updates' \in Seq([op : Ops, status : Statuses])
  <2>1. u \in [op : Ops, status : Statuses] /\ Tail(updates) \in Seq([op : Ops, status : Statuses])
    BY HeadTailProperties, Zenon DEF TakeUpdate, TypeOK
  <2> QED BY <2>1, Zenon DEF TakeUpdate
<1>2. saved' \in [Ops -> Statuses \cup {"none"}]
  BY <1>1, Zenon DEF TakeUpdate, TypeOK
<1>3. [h.ops EXCEPT ![u.op] = u.status] \in [Ops -> Statuses \cup {"none"}] /\ v \in Nat
  BY <1>1, DerivedNumbers DEF TypeOK, DerivedState
<1>4. h' = [h EXCEPT !.ops = [@ EXCEPT ![u.op] = u.status], !.verifications = v]
  BY Zenon DEF TakeUpdate
<1>5. r' = [r EXCEPT !.verifying = IF verified THEN Nothing ELSE @]
  BY Zenon DEF TakeUpdate
<1>6. todo' \in Seq(Inputs)
  BY Messages, Zenon DEF TakeUpdate, Heartbeats
<1> HIDE DEF u, verified, v
<1>7. h' \in DerivedState
  BY <1>3, <1>4, ZenonT(60) DEF TypeOK, DerivedState
<1>8. r' \in RunState
  BY <1>5, ZenonT(60) DEF TypeOK, RunState
<1> QED BY <1>1, <1>2, <1>6, <1>7, <1>8, UnchangedTypes DEF TakeUpdate, TypeOK, Labels

LEMMA SlurpedTypes == TypeOK /\ (InputsSlurped \/ UpdatesSlurped) => TypeOK'
<1> SUFFICES ASSUME TypeOK, InputsSlurped \/ UpdatesSlurped PROVE TypeOK'
  OBVIOUS
<1> QED BY UnchangedTypes DEF InputsSlurped, UpdatesSlurped, TypeOK, Labels

LEMMA TimerTypes == TypeOK /\ Timers => TypeOK'
<1> SUFFICES ASSUME TypeOK, Timers PROVE TypeOK'
  OBVIOUS
<1>1. CASE DeadlinePasses
  <2>1. r' \in RunState
    BY <1>1, ZenonT(60) DEF DeadlinePasses, TypeOK, RunState
  <2> QED BY <1>1, <2>1, BudgetSpentType, UnchangedTypes DEF DeadlinePasses, TypeOK, Labels
<1>2. CASE ReportDue
  <2>1. r' \in RunState
    BY <1>2, ZenonT(60) DEF ReportDue, TypeOK, RunState
  <2>2. todo' \in Seq(Inputs)
    BY <1>2, Messages DEF ReportDue, Heartbeats
  <2> QED BY <1>2, <2>1, <2>2, UnchangedTypes DEF ReportDue, TypeOK, Labels
<1>3. CASE QuotaLifts
  <2>1. r' \in RunState
    BY <1>3, ZenonT(60) DEF QuotaLifts, TypeOK, RunState
  <2> QED BY <1>3, <2>1, UnchangedTypes DEF QuotaLifts, TypeOK, Labels
<1>4. CASE GraceEnds
  <2>1. r' \in RunState
    BY <1>4, ZenonT(60) DEF GraceEnds, TypeOK, RunState
  <2> QED BY <1>4, <2>1, UnchangedTypes DEF GraceEnds, TypeOK, Labels
<1>5. CASE ToolWaitEnds
  <2>1. r' \in RunState
    BY <1>5, ZenonT(60) DEF ToolWaitEnds, TypeOK, RunState
  <2> QED BY <1>5, <2>1, UnchangedTypes DEF ToolWaitEnds, TypeOK, Labels
<1>6. CASE PostHeartbeat
  <2>1. queued' \in Seq(Inputs) /\ heartbeats' \in Nat
    BY <1>6 DEF PostHeartbeat, TypeOK, Inputs, Controls, Heartbeats
  <2> QED BY <1>6, <2>1, UnchangedTypes DEF PostHeartbeat, TypeOK, Labels
<1> QED BY <1>1, <1>2, <1>3, <1>4, <1>5, <1>6 DEF Timers

-----------------------------------------------------------------------------
(* The model's results *)

LEMMA FaultType == TypeOK /\ Fault => faults' \in Nat
BY DEF TypeOK, Fault

LEMMA SendType == ASSUME NEW run \in RunState PROVE Send(run) \in RunState
<1>1. 0 \in Nat
  OBVIOUS
<1> QED BY <1>1, ZenonT(60) DEF Send, RunState

LEMMA DropResultTypes == TypeOK /\ DropResult => TypeOK'
<1> SUFFICES ASSUME TypeOK, DropResult PROVE TypeOK'
  OBVIOUS
<1>1. flying' \subseteq Nat
  BY DEF DropResult, TypeOK
<1> QED BY <1>1, UnchangedTypes DEF DropResult, TypeOK

LEMMA AnswerArrivesTypes == TypeOK /\ AnswerArrives => TypeOK'
<1> SUFFICES ASSUME TypeOK, AnswerArrives PROVE TypeOK'
  OBVIOUS
<1> PICK n \in flying, calls \in SUBSET {c \in Calls : h.calls[c] = "none"},
         ending \in {"whole", "empty", "cut", "refused", "failed"} :
      /\ flying' = flying \ {n}
      /\ IF ending = "whole" THEN UNCHANGED faults ELSE Fault
      /\ Record(ResponseItem(n, calls, ending))
      /\ r' = [r EXCEPT !.live = FALSE, !.quotaWaits = 0, !.ending = ending,
                        !.statuses = {}, !.due = FALSE]
  BY Zenon DEF AnswerArrives
<1>1. n \in Nat /\ flying' \subseteq Nat /\ calls \in SUBSET Calls /\ ending \in Endings
  BY DEF TypeOK, Endings
<1>2. h' \in DerivedState /\ log' \in Seq(Items)
  BY <1>1, RecordTypes, ItemTypes
<1>3. r' \in RunState
  BY <1>1, RunNumbers, ZenonT(60) DEF TypeOK, RunState
<1>4. faults' \in Nat
  BY FaultType DEF TypeOK
<1> QED BY <1>1, <1>2, <1>3, <1>4, UnchangedTypes DEF AnswerArrives, TypeOK, Labels

LEMMA SummaryArrivesTypes == TypeOK /\ SummaryArrives => TypeOK'
<1> SUFFICES ASSUME TypeOK, SummaryArrives PROVE TypeOK'
  OBVIOUS
<1> PICK n \in flying, ending \in {"summary", "nosummary"} :
      /\ flying' = flying \ {n}
      /\ IF ending = "summary" THEN UNCHANGED faults ELSE Fault
      /\ Record(ResponseItem(n, {}, ending))
      /\ r' = [r EXCEPT !.live = FALSE, !.quotaWaits = 0]
      /\ pc' = IF ending = "summary" THEN "checkpoint" ELSE "inputs"
  BY Zenon DEF SummaryArrives
<1>1. /\ n \in Nat /\ flying' \subseteq Nat /\ {} \in SUBSET Calls /\ ending \in Endings
      /\ pc' \in Labels
  BY DEF TypeOK, Endings, Labels
<1>2. h' \in DerivedState /\ log' \in Seq(Items)
  BY <1>1, RecordTypes, ItemTypes
<1>3. r' \in RunState
  BY RunNumbers, ZenonT(60) DEF TypeOK, RunState
<1>4. faults' \in Nat
  BY FaultType DEF TypeOK
<1> QED BY <1>1, <1>2, <1>3, <1>4, UnchangedTypes DEF SummaryArrives, TypeOK

LEMMA SaveCheckpointTypes == TypeOK /\ SaveCheckpoint => TypeOK'
<1> SUFFICES ASSUME TypeOK, SaveCheckpoint PROVE TypeOK'
  OBVIOUS
<1>1. Len(log) \in Nat /\ Snapshot(h) \in DerivedState
  BY SnapshotType, LenProperties DEF TypeOK
<1>2. ckpt' \subseteq Checkpoints
  <2>1. [at |-> Len(log), state |-> Snapshot(h)] \in Checkpoints
    BY <1>1, Zenon DEF Checkpoints
  <2> QED BY <2>1, Zenon DEF SaveCheckpoint, TypeOK
<1>3. r' \in RunState
  <2>1. r' = [r EXCEPT !.compactions = r.compactions + 1]
    BY DEF SaveCheckpoint
  <2> QED BY <2>1, RunNumbers, ZenonT(60) DEF TypeOK, RunState
<1>4. todo' \in Seq(Inputs)
  <2>1. \E b \in {BudgetSpent, <<>>} : todo' = CompactionNote \o b
    BY Zenon DEF SaveCheckpoint
  <2> QED BY <2>1, Messages, BudgetSpentType, CompactionNoteType, ConcatProperties
<1> QED BY <1>2, <1>3, <1>4, UnchangedTypes DEF SaveCheckpoint, TypeOK, Labels

LEMMA RefusalTypes ==
  TypeOK /\ (QuotaRefuses \/ SummaryOverflows \/ AnswerOverflows \/ RequestFails) => TypeOK'
<1> SUFFICES ASSUME TypeOK, QuotaRefuses \/ SummaryOverflows \/ AnswerOverflows \/ RequestFails
             PROVE  TypeOK'
  OBVIOUS
<1>1. CASE QuotaRefuses
  <2> PICK n \in flying :
        /\ flying' = flying \ {n}
        /\ r' = [r EXCEPT !.live = FALSE, !.quotaWaits = @ + 1, !.quota = TRUE,
                          !.compact = @ \/ n \in h.compactionTurns,
                          !.callModel = @ \/ n \notin h.compactionTurns]
    BY <1>1, Zenon DEF QuotaRefuses
  <2> DEFINE compact == r.compact \/ n \in h.compactionTurns
             callModel == r.callModel \/ n \notin h.compactionTurns
  <2>1. compact \in BOOLEAN /\ callModel \in BOOLEAN
    BY Zenon
  <2>2. r' = [r EXCEPT !.live = FALSE, !.quotaWaits = r.quotaWaits + 1, !.quota = TRUE,
                       !.compact = compact, !.callModel = callModel]
    BY Zenon
  <2> HIDE DEF compact, callModel
  <2>3. r' \in RunState
    <3>1. r.quotaWaits + 1 \in Nat
      BY RunNumbers DEF TypeOK
    <3> DEFINE waiting == r.quotaWaits + 1
               limited == [r EXCEPT !.live = FALSE, !.quotaWaits = waiting, !.quota = TRUE]
    <3>2. r' = [limited EXCEPT !.compact = compact, !.callModel = callModel]
      BY <2>2, Zenon
    <3> HIDE DEF waiting
    <3>3. limited \in RunState
      BY <3>1, ZenonT(60) DEF TypeOK, RunState, waiting
    <3> HIDE DEF limited
    <3> QED BY <2>1, <3>2, <3>3, ZenonT(60) DEF RunState
  <2>4. flying' \subseteq Nat /\ faults' \in Nat
    BY <1>1, FaultType DEF QuotaRefuses, TypeOK
  <2> QED BY <1>1, <2>3, <2>4, UnchangedTypes DEF QuotaRefuses, TypeOK, Labels
<1>2. CASE SummaryOverflows
  <2>1. r' \in RunState
    <3>1. r' = [r EXCEPT !.cutdowns = r.cutdowns + 1]
      BY <1>2 DEF SummaryOverflows
    <3> QED BY <3>1, RunNumbers, ZenonT(60) DEF TypeOK, RunState
  <2>2. faults' \in Nat
    BY <1>2, FaultType DEF SummaryOverflows
  <2> QED BY <1>2, <2>1, <2>2, UnchangedTypes DEF SummaryOverflows, TypeOK, Labels
<1>3. CASE AnswerOverflows
  <2>1. h.turn \in Nat /\ h.turn + 1 \in Nat
    <3>1. h.turn \in Nat
      BY ZenonT(60) DEF TypeOK, DerivedState
    <3> QED BY <3>1
  <2>2. h' \in DerivedState /\ log' \in Seq(Items)
    BY <1>3, <2>1, RecordTypes, ItemTypes DEF AnswerOverflows
  <2>3. r' \in RunState
    <3>1. Send(r) \in RunState
      BY SendType DEF TypeOK
    <3> QED BY <1>3, <3>1, ZenonT(60) DEF AnswerOverflows, RunState
  <2>4. flying' \subseteq Nat /\ faults' \in Nat
    BY <1>3, <2>1, FaultType DEF AnswerOverflows, TypeOK
  <2> QED BY <1>3, <2>2, <2>3, <2>4, UnchangedTypes DEF AnswerOverflows, TypeOK, Labels
<1>4. CASE RequestFails
  BY <1>4, ExitTypes, FaultType DEF RequestFails, Labels, Down
<1> QED BY <1>1, <1>2, <1>3, <1>4

-----------------------------------------------------------------------------
(* After an answer *)

LEMMA StepCallsType == TypeOK => StepCalls \in SUBSET Calls
BY ZenonT(60) DEF StepCalls, TypeOK, RunState

LEMMA CountTurnTypes == TypeOK /\ CountTurn => TypeOK'
<1> SUFFICES ASSUME TypeOK, CountTurn PROVE TypeOK'
  OBVIOUS
<1>1. r' = [r EXCEPT !.turns = r.turns + 1, !.callModel = r.due, !.due = FALSE,
                     !.stop = IF FinalReport THEN "hard" ELSE @]
  BY DEF CountTurn
<1>2. r' \in RunState
  <2>1. r.turns + 1 \in Nat
    BY RunNumbers DEF TypeOK
  <2> DEFINE turns == r.turns + 1
             stop == IF FinalReport THEN "hard" ELSE r.stop
             counted == [r EXCEPT !.turns = turns, !.callModel = r.due]
  <2>2. stop \in {"none", "idle", "hard"}
    BY ZenonT(60) DEF TypeOK, RunState
  <2>3. r' = [counted EXCEPT !.due = FALSE, !.stop = stop]
    BY <1>1, Zenon
  <2> HIDE DEF turns, stop
  <2>4. counted \in RunState
    BY <2>1, ZenonT(60) DEF TypeOK, RunState, turns
  <2> HIDE DEF counted
  <2> QED BY <2>2, <2>3, <2>4, ZenonT(60) DEF RunState
<1>3. todo' \in Seq(Inputs)
  BY Messages, BudgetSpentType, Zenon DEF CountTurn
<1> QED BY <1>2, <1>3, UnchangedTypes DEF CountTurn, TypeOK, Labels

LEMMA AnswerTypes ==
  TypeOK /\ (AnswerStands \/ AnswerFailed \/ AnswerCut \/ AnswerRefused \/ AnswerWhole) => TypeOK'
<1> SUFFICES ASSUME TypeOK, AnswerStands \/ AnswerFailed \/ AnswerCut \/ AnswerRefused
                              \/ AnswerWhole
             PROVE  TypeOK'
  OBVIOUS
<1>1. CASE AnswerStands
  <2>1. r' \in RunState
    BY <1>1, StepCallsType, ZenonT(60) DEF AnswerStands, TypeOK, RunState
  <2> QED BY <1>1, <2>1, UnchangedTypes DEF AnswerStands, TypeOK, Labels
<1>2. CASE AnswerFailed
  <2>1. CASE Exit("failed") /\ UNCHANGED faults
    BY <2>1, ExitTypes DEF TypeOK, Labels, Down
  <2>2. CASE /\ r' = [r EXCEPT !.step = StepCalls, !.failures = @ + 1, !.callModel = TRUE]
             /\ pc' = "dispatch"
             /\ UNCHANGED <<durable, pos, h, todo, mail, manager, flying, bounds>>
    <3>1. r' = [r EXCEPT !.step = StepCalls, !.failures = r.failures + 1, !.callModel = TRUE]
      BY <2>2
    <3>2. r' \in RunState
      BY <3>1, StepCallsType, RunNumbers, ZenonT(60) DEF TypeOK, RunState
    <3> QED BY <2>2, <3>2, UnchangedTypes DEF TypeOK, Labels
  <2> QED BY <1>2, <2>1, <2>2, Zenon DEF AnswerFailed
<1>3. CASE AnswerCut
  <2> DEFINE n == IF r.continues < MaxContinues THEN r.continues + 1 ELSE r.continues
  <2>1. n \in Nat
    BY RunNumbers DEF TypeOK
  <2>2. r' = [r EXCEPT !.step = {}, !.failures = 0, !.retries = 0, !.continues = n]
    BY <1>3 DEF AnswerCut
  <2> HIDE DEF n
  <2>3. r' \in RunState
    BY <2>1, <2>2, RunNumbers, ZenonT(60) DEF TypeOK, RunState
  <2>4. todo' \in Seq(Inputs)
    BY <1>3, Messages, Zenon DEF AnswerCut, Heartbeats
  <2> QED BY <1>3, <2>3, <2>4, UnchangedTypes DEF AnswerCut, TypeOK, Labels
<1>4. CASE AnswerRefused
  <2> DEFINE n == IF r.retries < MaxRetries THEN r.retries + 1 ELSE r.retries
  <2>1. n \in Nat
    BY RunNumbers DEF TypeOK
  <2>2. r' = [r EXCEPT !.step = StepCalls, !.failures = 0, !.continues = 0, !.retries = n]
    BY <1>4 DEF AnswerRefused
  <2> HIDE DEF n
  <2>3. r' \in RunState
    BY <2>1, <2>2, StepCallsType, RunNumbers, ZenonT(60) DEF TypeOK, RunState
  <2>4. todo' \in Seq(Inputs)
    BY <1>4, Messages, Zenon DEF AnswerRefused, Heartbeats
  <2> QED BY <1>4, <2>3, <2>4, UnchangedTypes DEF AnswerRefused, TypeOK, Labels
<1>5. CASE AnswerWhole
  <2>1. r' \in RunState
    BY <1>5, StepCallsType, RunNumbers, ZenonT(60) DEF AnswerWhole, TypeOK, RunState
  <2> QED BY <1>5, <2>1, UnchangedTypes DEF AnswerWhole, TypeOK, Labels
<1> QED BY <1>1, <1>2, <1>3, <1>4, <1>5

LEMMA VerifyTypes == TypeOK /\ Verify => TypeOK'
<1> SUFFICES ASSUME TypeOK, Verify PROVE TypeOK'
  OBVIOUS
<1> PICK k \in UnusedChecks :
      /\ log' = Append(log, StatusItem(k, "ready"))
      /\ h' = [AddItem(h, StatusItem(k, "ready")) EXCEPT !.work = FALSE]
      /\ Store(k, "ready")
      /\ r' = [r EXCEPT !.verifying = k]
  BY Zenon DEF Verify
<1>1. k \in Checks /\ k \in Ops /\ "ready" \in Statuses \cup {"none"}
  BY DEF UnusedChecks, Ops, Statuses, Unfinished
<1>2. StatusItem(k, "ready") \in Items /\ AddItem(h, StatusItem(k, "ready")) \in DerivedState
  BY <1>1, ItemTypes, AddItemType DEF TypeOK
<1>3. h' \in DerivedState
  BY <1>2, ZenonT(60) DEF DerivedState
<1>4. r' \in RunState
  BY <1>1, ZenonT(60) DEF TypeOK, RunState
<1>5. log' \in Seq(Items) /\ saved' \in [Ops -> Statuses \cup {"none"}]
  BY <1>1, <1>2, StoreTypes DEF TypeOK
<1> QED BY <1>3, <1>4, <1>5, UnchangedTypes DEF Verify, TypeOK, Labels

LEMMA DispatchCallsTypes == TypeOK /\ DispatchCalls => TypeOK'
<1> SUFFICES ASSUME TypeOK, DispatchCalls PROVE TypeOK'
  OBVIOUS
<1>1. mgr' \in [Ops -> Managed]
  BY DispatchTypes DEF DispatchCalls
<1>2. r' \in RunState
  BY ZenonT(60) DEF DispatchCalls, TypeOK, RunState
<1> QED BY <1>1, <1>2, UnchangedTypes DEF DispatchCalls, TypeOK, Labels

-----------------------------------------------------------------------------
(* What the loop does next *)

LEMMA ProcessDueTypes == TypeOK /\ ProcessDue => TypeOK'
<1> SUFFICES ASSUME TypeOK, ProcessDue PROVE TypeOK'
  OBVIOUS
<1> DEFINE waits == r.deferred # <<>> /\ r.stop # "hard" /\ ~Compacting
           timer == r.timer \/ (waits /\ ~r.live /\ LimitsToolWait)
<1>1. timer \in BOOLEAN /\ TurnIsAsked \in BOOLEAN
  BY Zenon DEF TurnIsAsked
<1>2. \/ /\ todo' = r.deferred
         /\ r' = [r EXCEPT !.due = TRUE, !.deferred = <<>>, !.timer = FALSE, !.waited = FALSE]
      \/ /\ UNCHANGED todo
         /\ r' = [r EXCEPT !.due = TurnIsAsked, !.timer = timer]
  BY Zenon DEF ProcessDue
<1> HIDE DEF waits, timer
<1>3. <<>> \in Seq(External) /\ r.deferred \in Seq(External) /\ External \subseteq Inputs
  BY EmptySeq, ZenonT(60) DEF TypeOK, RunState, Inputs
<1>4. r' \in RunState
  <2>1. CASE r' = [r EXCEPT !.due = TRUE, !.deferred = <<>>, !.timer = FALSE, !.waited = FALSE]
    BY <1>3, <2>1, ZenonT(60) DEF TypeOK, RunState
  <2>2. CASE r' = [r EXCEPT !.due = TurnIsAsked, !.timer = timer]
    BY <1>1, <2>2, ZenonT(60) DEF TypeOK, RunState
  <2> QED BY <1>2, <2>1, <2>2
<1>5. todo' \in Seq(Inputs)
  BY <1>2, <1>3, SeqMonotonic DEF TypeOK
<1> QED BY <1>4, <1>5, UnchangedTypes DEF ProcessDue, TypeOK, Labels

LEMMA StopTypes == TypeOK /\ (CancelOperations \/ AwaitCancellation \/ StopWhenIdle) => TypeOK'
<1> SUFFICES ASSUME TypeOK, CancelOperations \/ AwaitCancellation \/ StopWhenIdle PROVE TypeOK'
  OBVIOUS
<1>1. CASE CancelOperations
  <2>1. mgr' \in [Ops -> Managed]
    BY <1>1 DEF CancelOperations, TypeOK, Managed
  <2>2. r' \in RunState
    BY <1>1, ZenonT(60) DEF CancelOperations, TypeOK, RunState
  <2> QED BY <1>1, <2>1, <2>2, UnchangedTypes DEF CancelOperations, TypeOK
<1>2. CASE AwaitCancellation
  <2>1. CASE Exit("stopped") /\ UNCHANGED faults
    BY <2>1, ExitTypes DEF TypeOK, Labels, Down
  <2>2. CASE /\ pc' = "select"
             /\ UNCHANGED <<durable, pos, h, r, todo, mail, manager, flying, bounds>>
    BY <2>2, UnchangedTypes DEF TypeOK, Labels
  <2> QED BY <1>2, <2>1, <2>2, Zenon DEF AwaitCancellation
<1>3. CASE StopWhenIdle
  <2>1. CASE Exit("idle") /\ UNCHANGED faults
    BY <2>1, ExitTypes DEF TypeOK, Labels, Down
  <2>2. CASE /\ pc' = "select"
             /\ UNCHANGED <<durable, pos, h, r, todo, mail, manager, flying, bounds>>
    BY <2>2, UnchangedTypes DEF TypeOK, Labels
  <2> QED BY <1>3, <2>1, <2>2, Zenon DEF StopWhenIdle
<1> QED BY <1>1, <1>2, <1>3

LEMMA TurnTypes ==
  TypeOK /\ (Decide \/ BeginCompaction \/ DropCompaction \/ TellFirst \/ BeginTurn) => TypeOK'
<1> SUFFICES ASSUME TypeOK, Decide \/ BeginCompaction \/ DropCompaction \/ TellFirst \/ BeginTurn
             PROVE  TypeOK'
  OBVIOUS
<1>0. h.turn + 1 \in Nat
  <2>1. h.turn \in Nat
    BY ZenonT(60) DEF TypeOK, DerivedState
  <2> QED BY <2>1
<1>1. CASE Decide
  <2>1. TurnDue \in BOOLEAN
    BY Zenon DEF TurnDue
  <2>2. r' \in RunState
    BY <1>1, <2>1, ZenonT(60) DEF Decide, TypeOK, RunState
  <2> QED BY <1>1, <2>2, UnchangedTypes DEF Decide, TypeOK, Labels
<1>2. CASE BeginCompaction
  <2>1. h' \in DerivedState /\ log' \in Seq(Items)
    BY <1>0, <1>2, RecordTypes, ItemTypes DEF BeginCompaction
  <2> DEFINE callModel == r.callModel \/ r.ordinary
             grace == IF r.ordinary THEN {} ELSE r.grace
  <2>2. callModel \in BOOLEAN /\ grace \in SUBSET Calls
    BY ZenonT(60) DEF TypeOK, RunState
  <2>3. r' = [Send(r) EXCEPT !.compact = FALSE, !.callModel = callModel, !.grace = grace]
    BY <1>2, Zenon DEF BeginCompaction, Send
  <2> HIDE DEF callModel, grace
  <2>4. r' \in RunState
    <3>1. Send(r) \in RunState
      BY SendType DEF TypeOK
    <3> QED BY <2>2, <2>3, <3>1, ZenonT(60) DEF RunState
  <2>5. flying' \subseteq Nat
    BY <1>0, <1>2 DEF BeginCompaction, TypeOK
  <2> QED BY <1>2, <2>1, <2>4, <2>5, UnchangedTypes DEF BeginCompaction, TypeOK, Labels
<1>3. CASE DropCompaction
  <2>1. r' \in RunState
    BY <1>3, ZenonT(60) DEF DropCompaction, TypeOK, RunState
  <2> QED BY <1>3, <2>1, UnchangedTypes DEF DropCompaction, TypeOK, Labels
<1>4. CASE TellFirst
  <2>1. h' \in DerivedState /\ r' \in RunState
    <3>1. h' \in DerivedState
      BY <1>4, ZenonT(60) DEF TellFirst, TypeOK, DerivedState
    <3>2. r' \in RunState
      BY <1>4, ZenonT(60) DEF TellFirst, TypeOK, RunState
    <3> QED BY <3>1, <3>2
  <2>2. PICK a \in {<<"resume">>, <<>>}, b \in {<<"note">>, <<>>}, c \in {<<"reminder">>, <<>>} :
          todo' = a \o b \o c
    BY <1>4, Zenon DEF TellFirst
  <2>3. a \in Seq(Inputs) /\ b \in Seq(Inputs) /\ c \in Seq(Inputs)
    BY Messages, Zenon DEF Heartbeats
  <2>4. todo' \in Seq(Inputs)
    BY <2>2, <2>3, ConcatProperties
  <2> QED BY <1>4, <2>1, <2>4, UnchangedTypes DEF TellFirst, TypeOK, Labels
<1>5. CASE BeginTurn
  <2>1. h' \in DerivedState /\ log' \in Seq(Items)
    BY <1>0, <1>5, RecordTypes, ItemTypes DEF BeginTurn
  <2>2. r' \in RunState
    BY <1>5, RunNumbers, ZenonT(60) DEF BeginTurn, Send, TypeOK, RunState
  <2>3. flying' \subseteq Nat
    BY <1>0, <1>5 DEF BeginTurn, TypeOK
  <2> QED BY <1>5, <2>1, <2>2, <2>3, UnchangedTypes DEF BeginTurn, TypeOK, Labels
<1> QED BY <1>1, <1>2, <1>3, <1>4, <1>5

-----------------------------------------------------------------------------
(* The environment *)

LEMMA EnvironmentTypes ==
  TypeOK /\ (Submit \/ OperationAwaits \/ \E o \in Ops : OperationEnds(o)) => TypeOK'
<1> SUFFICES ASSUME TypeOK, Submit \/ OperationAwaits \/ \E o \in Ops : OperationEnds(o)
             PROVE  TypeOK'
  OBVIOUS
<1>1. CASE Submit
  <2> PICK id \in (External \ seen) \cup offered :
        /\ seen' = IF id \in External THEN seen \cup {id} ELSE seen
        /\ offered' = offered \ {id}
        /\ queued' = Append(queued, id)
    BY <1>1, Zenon DEF Submit
  <2>1. id \in Inputs
    BY DEF TypeOK, Inputs
  <2>2. seen' \subseteq External /\ offered' \subseteq Controls /\ queued' \in Seq(Inputs)
    BY <2>1 DEF TypeOK
  <2> QED BY <1>1, <2>2, UnchangedTypes DEF Submit, TypeOK
<1>2. CASE OperationAwaits
  <2> PICK o \in Ops : updates' = Append(updates, [op |-> o, status |-> "awaiting"])
    BY <1>2, Zenon DEF OperationAwaits
  <2>1. [op |-> o, status |-> "awaiting"] \in [op : Ops, status : Statuses]
    BY DEF Statuses, Unfinished
  <2>2. updates' \in Seq([op : Ops, status : Statuses])
    BY <2>1 DEF TypeOK
  <2> QED BY <1>2, <2>2, UnchangedTypes DEF OperationAwaits, TypeOK
<1>3. ASSUME NEW o \in Ops, OperationEnds(o) PROVE TypeOK'
  <2> PICK status \in Terminal : updates' = Append(updates, [op |-> o, status |-> status])
    BY <1>3 DEF OperationEnds, Terminal
  <2>1. [op |-> o, status |-> status] \in [op : Ops, status : Statuses]
    BY DEF Statuses
  <2>2. updates' \in Seq([op : Ops, status : Statuses])
    BY <2>1 DEF TypeOK
  <2>3. mgr' \in [Ops -> Managed]
    BY <1>3 DEF OperationEnds, TypeOK, Managed
  <2> QED BY <1>3, <2>2, <2>3, UnchangedTypes DEF OperationEnds, TypeOK
<1> QED BY <1>1, <1>2, <1>3

-----------------------------------------------------------------------------
(* The theorem *)

LEMMA InitTypes == Init => TypeOK
<1> SUFFICES ASSUME Init PROVE TypeOK
  OBVIOUS
<1>1. /\ <<>> \in Seq(Inputs) /\ <<>> \in Seq([op : Ops, status : Statuses])
      /\ [o \in Ops |-> "absent"] \in [Ops -> Managed]
      /\ [o \in Ops |-> "none"] \in [Ops -> Statuses \cup {"none"}]
      /\ "new" \in Labels
  BY EmptySeq DEF Managed, Labels, Down
<1> QED BY <1>1, NewRunType, BlankType, CoordinatorAssumption DEF Init, TypeOK

LEMMA StepTypes == TypeOK /\ [Next]_vars => TypeOK'
<1> SUFFICES ASSUME TypeOK, [Next]_vars PROVE TypeOK'
  OBVIOUS
<1>1. CASE Working
  BY <1>1, RestoringTypes, RecordInputTypes, ToolCallTypes, SlurpedTypes, SaveCheckpointTypes,
     CountTurnTypes, AnswerTypes, VerifyTypes, DispatchCallsTypes, ProcessDueTypes, StopTypes,
     TurnTypes, Zenon DEF Working
<1>2. CASE ModelResults
  BY <1>2, DropResultTypes, AnswerArrivesTypes, SummaryArrivesTypes, RefusalTypes, Zenon
     DEF ModelResults
<1>3. CASE UNCHANGED vars
  BY <1>3, UnchangedTypes DEF vars, TypeOK
<1> QED
  BY <1>1, <1>2, <1>3, RestoringTypes, TakeInputTypes, TakeUpdateTypes, TimerTypes,
     EnvironmentTypes, Zenon DEF Next

\* Every variable of the coordinator keeps its type: a derived state stays one
\* through recording, replay and checkpoints; a run's state through every handler.
THEOREM TypeCorrect == Spec => []TypeOK
<1> QED BY InitTypes, StepTypes, PTL DEF Spec

-----------------------------------------------------------------------------
(* Written ahead                                                            *)
(*                                                                          *)
(* No operation is dispatched before the log holds its record, in any run   *)
(* of a session, whatever crashes.  An operation comes to the manager from  *)
(* the derived state, that from the log, a checkpoint, the store or an      *)
(* update of the manager: the invariant says of each of these that it       *)
(* names recorded operations only.                                          *)

\* The log holds the status that recorded the operation, the store has it.
Recorded ==
  {o \in Ops : saved[o] # "none" /\ \E i \in DOMAIN log : log[i] = StatusItem(o, "ready")}

InheritsPrefix ==
  /\ Len(log) >= Len(Inherited)
  /\ \A i \in 1 .. Len(Inherited) : log[i] = Inherited[i]

StoredAreRecorded == \A o \in Ops : saved[o] # "none" => o \in Recorded

\* A status without an operation is that of a call that was not translated.
NamesOperation(item) == item.kind = "status" /\ item.status # "none"

\* Items of the session itself: those it was forked with name operations of
\* its parent.
ItemsAreRecorded ==
  \A i \in DOMAIN log : i > Len(Inherited) /\ NamesOperation(log[i]) => log[i].op \in Recorded

\* Replay forgets the parent's operations at the fork.
KnownAreRecorded ==
  pos >= Len(Inherited) => \A o \in Ops : h.ops[o] # "none" => o \in Recorded

SnapshotsAreRecorded ==
  \A c \in ckpt :
    /\ c.at >= Len(Inherited)
    /\ \A o \in Ops : c.state.ops[o] # "none" => o \in Recorded

UpdatesAreRecorded == \A i \in DOMAIN updates : updates[i].op \in Recorded

ManagedAreRecorded == \A o \in Ops : mgr[o] # "absent" => o \in Recorded

\* A run that goes on has replayed the items the session was forked with.
Loaded == Up /\ pc # "replay" => pos >= Len(Inherited)

WInv ==
  /\ TypeOK
  /\ InheritsPrefix
  /\ StoredAreRecorded
  /\ ItemsAreRecorded
  /\ KnownAreRecorded
  /\ SnapshotsAreRecorded
  /\ UpdatesAreRecorded
  /\ ManagedAreRecorded
  /\ Loaded

-----------------------------------------------------------------------------
(* What every step does to the log and the store *)

\* At most one item is appended, and no operation leaves the store.
Grows ==
  /\ UNCHANGED log \/ \E item \in Items : log' = Append(log, item)
  /\ \A o \in Ops : saved[o] # "none" => saved'[o] # "none"

\* What is new names recorded operations.
RecordsFirst ==
  /\ \A item \in Items :
       log' = Append(log, item) /\ NamesOperation(item) => item.op \in Recorded'
  /\ \A o \in Ops : saved'[o] # "none" => saved[o] # "none" \/ o \in Recorded'

LEMMA LogGrows ==
  ASSUME TypeOK, Grows
  PROVE  /\ Len(log) \in Nat /\ Len(log') >= Len(log)
         /\ \A i \in DOMAIN log : i \in DOMAIN log' /\ log'[i] = log[i]
         /\ \A i \in DOMAIN log' : i \in DOMAIN log \/ log' = Append(log, log'[i])
<1>1. log \in Seq(Items) /\ Len(log) \in Nat /\ DOMAIN log = 1 .. Len(log)
  BY LenProperties DEF TypeOK
<1>2. CASE UNCHANGED log
  <2>1. log' = log
    BY <1>2
  <2>2. Len(log') >= Len(log)
    BY <1>1, <2>1
  <2> QED BY <1>1, <2>1, <2>2, Zenon
<1>3. CASE \E item \in Items : log' = Append(log, item)
  <2> PICK item \in Items : log' = Append(log, item)
    BY <1>3
  <2>1. /\ Len(log') = Len(log) + 1 /\ DOMAIN log' = 1 .. Len(log) + 1
        /\ \A i \in 1 .. Len(log) : log'[i] = log[i]
        /\ log'[Len(log) + 1] = item
    BY <1>1, AppendProperties
  <2> QED BY <1>1, <2>1
<1> QED BY <1>2, <1>3 DEF Grows

LEMMA RecordedStays ==
  ASSUME TypeOK, Grows
  PROVE  Recorded \subseteq Recorded'
BY LogGrows DEF Recorded, Grows

LEMMA LogStaysRecorded ==
  ASSUME WInv, Grows, RecordsFirst, TypeOK'
  PROVE  InheritsPrefix' /\ StoredAreRecorded' /\ ItemsAreRecorded'
<1> USE DEF WInv
<1>1. InheritsPrefix'
  <2>1. Inherited \in Seq(Items) /\ Len(Inherited) \in Nat
    BY CoordinatorAssumption, LenProperties
  <2>2. DOMAIN log = 1 .. Len(log) /\ Len(log') \in Nat
    BY LenProperties DEF TypeOK
  <2> QED BY <2>1, <2>2, LogGrows DEF InheritsPrefix
<1>2. StoredAreRecorded'
  BY RecordedStays DEF StoredAreRecorded, RecordsFirst
<1>3. ItemsAreRecorded'
  <2> SUFFICES ASSUME NEW i \in DOMAIN log', i > Len(Inherited), NamesOperation(log'[i])
               PROVE  log'[i].op \in Recorded'
    BY DEF ItemsAreRecorded
  <2>1. log'[i] \in Items /\ log'[i].op \in Ops
    <3>1. log'[i] \in Items
      BY ElementOfSeq DEF TypeOK
    <3> QED BY <3>1, ItemFields DEF NamesOperation
  <2>2. CASE i \in DOMAIN log
    BY <2>1, <2>2, LogGrows, RecordedStays DEF ItemsAreRecorded
  <2>3. CASE log' = Append(log, log'[i])
    BY <2>1, <2>3 DEF RecordsFirst
  <2> QED BY <2>2, <2>3, LogGrows
<1> QED BY <1>1, <1>2, <1>3

\* An item brings no operation into the derived state but the one it names.
LEMMA AddItemOps ==
  ASSUME NEW d \in DerivedState, NEW item \in Items, NEW o \in Ops,
         AddItem(d, item).ops[o] # "none"
  PROVE  /\ item # ForkItem
         /\ d.ops[o] # "none" \/ (NamesOperation(item) /\ item.op = o)
<1>1. CASE item.kind = "input"
  <2>1. AddItem(d, item).ops = d.ops
    BY <1>1, Zenon DEF AddItem, AddInput, DerivedState
  <2> QED BY <1>1, <2>1 DEF ForkItem
<1>2. CASE item.kind = "turn"
  <2>1. AddItem(d, item).ops = d.ops
    BY <1>2, Zenon DEF AddItem, AddTurn, DerivedState
  <2> QED BY <1>2, <2>1 DEF ForkItem
<1>3. CASE item.kind = "response"
  <2>1. AddItem(d, item).ops = d.ops
    BY <1>3, Zenon DEF AddItem, AddSummary, AddAnswer, DerivedState
  <2> QED BY <1>3, <2>1 DEF ForkItem
<1>4. CASE item.kind = "status"
  <2>1. AddItem(d, item).ops = IF item.status = "none" THEN d.ops
                               ELSE [d.ops EXCEPT ![item.op] = item.status]
    BY <1>4, Zenon DEF AddItem, AddStatus, DerivedState
  <2>2. d.ops \in [Ops -> Statuses \cup {"none"}]
    BY Zenon DEF DerivedState
  <2> QED BY <1>4, <2>1, <2>2 DEF ForkItem, NamesOperation
<1>5. CASE item.kind = "fork"
  <2>1. AddItem(d, item).ops = [x \in Ops |-> "none"]
    BY <1>5, Zenon DEF AddItem, AddFork, DerivedState
  <2> QED BY <2>1
<1> QED BY <1>1, <1>2, <1>3, <1>4, <1>5, ItemFields

-----------------------------------------------------------------------------
(* Kinds of steps *)

\* The run was loaded, or stays as it is.
GoesOn == pc' = pc \/ (Up /\ pc # "replay")

LEMMA NothingAppended ==
  ASSUME TypeOK, UNCHANGED log
  PROVE  \A item \in Items : log' # Append(log, item)
<1>1. log \in Seq(Items) /\ Len(log) \in Nat
  BY LenProperties DEF TypeOK
<1>2. \A item \in Items : Len(Append(log, item)) = Len(log) + 1
  BY <1>1, AppendProperties
<1> QED BY <1>1, <1>2

\* A step of a loaded run that keeps the log's promises and brings the manager
\* recorded operations only.
LEMMA LiveStepKeeps ==
  ASSUME WInv, TypeOK', Grows, RecordsFirst, GoesOn, UNCHANGED <<ckpt, pos>>,
         \A o \in Ops : pos >= Len(Inherited) /\ h'.ops[o] # "none" => o \in Recorded',
         \A i \in DOMAIN updates' : updates'[i].op \in Recorded,
         \A o \in Ops : mgr'[o] # "absent" => o \in Recorded
  PROVE  WInv'
<1> USE DEF WInv
<1>1. Recorded \subseteq Recorded'
  BY RecordedStays
<1>2. InheritsPrefix' /\ StoredAreRecorded' /\ ItemsAreRecorded'
  BY LogStaysRecorded
<1>3. KnownAreRecorded'
  BY DEF KnownAreRecorded
<1>4. SnapshotsAreRecorded'
  BY <1>1 DEF SnapshotsAreRecorded
<1>5. UpdatesAreRecorded' /\ ManagedAreRecorded'
  BY <1>1 DEF UpdatesAreRecorded, ManagedAreRecorded
<1>6. Loaded'
  BY DEF Loaded, GoesOn, Up
<1> QED BY <1>2, <1>3, <1>4, <1>5, <1>6

\* Nothing durable changes; the manager may get recorded operations.
LEMMA ManagerStepKeeps ==
  ASSUME WInv, TypeOK', GoesOn, UNCHANGED <<durable, pos>>, h'.ops = h.ops,
         \A i \in DOMAIN updates' : updates'[i].op \in Recorded,
         \A o \in Ops : mgr'[o] # "absent" => o \in Recorded
  PROVE  WInv'
<1>1. Grows
  BY DEF Grows, durable
<1>2. Recorded' = Recorded
  BY DEF Recorded, durable
<1>3. RecordsFirst
  BY NothingAppended DEF WInv, RecordsFirst, durable
<1>4. \A o \in Ops : pos >= Len(Inherited) /\ h'.ops[o] # "none" => o \in Recorded'
  BY <1>2 DEF WInv, KnownAreRecorded
<1> QED BY <1>1, <1>3, <1>4, LiveStepKeeps DEF durable

\* Nothing of what the invariant names changes, but h in other fields.
LEMMA QuietStepKeeps ==
  ASSUME WInv, TypeOK', GoesOn, UNCHANGED <<durable, pos, manager>>, h'.ops = h.ops
  PROVE  WInv'
BY ManagerStepKeeps DEF WInv, UpdatesAreRecorded, ManagedAreRecorded, manager

\* An item is recorded; the operation it names, if any, is stored with it or
\* was recorded before.
LEMMA RecordStepKeeps ==
  ASSUME WInv, TypeOK', GoesOn, UNCHANGED <<ckpt, pos, manager>>,
         NEW item \in Items, log' = Append(log, item), h'.ops = AddItem(h, item).ops,
         NamesOperation(item) => item.op \in Recorded',
         \A o \in Ops : saved'[o] = saved[o] \/ (saved'[o] # "none" /\ o \in Recorded')
  PROVE  WInv'
<1> USE DEF WInv
<1>1. Grows
  BY DEF Grows
<1>2. RecordsFirst
  <2>1. \A other \in Items : log' = Append(log, other) => other = item
    <3>1. log \in Seq(Items) /\ Len(log) \in Nat
      BY LenProperties DEF TypeOK
    <3>2. \A other \in Items : Append(log, other)[Len(log) + 1] = other
      BY <3>1, AppendProperties
    <3> QED BY <3>2
  <2> QED BY <2>1 DEF RecordsFirst
<1>3. \A o \in Ops : pos >= Len(Inherited) /\ h'.ops[o] # "none" => o \in Recorded'
  <2>1. h \in DerivedState
    BY DEF TypeOK
  <2> QED BY <1>1, <2>1, AddItemOps, RecordedStays DEF KnownAreRecorded
<1>4. \A i \in DOMAIN updates' : updates'[i].op \in Recorded
  BY DEF UpdatesAreRecorded, manager
<1>5. \A o \in Ops : mgr'[o] # "absent" => o \in Recorded
  BY DEF ManagedAreRecorded, manager
<1> QED BY <1>1, <1>2, <1>3, <1>4, <1>5, LiveStepKeeps

\* A run that ends loses all but the log, the store and the checkpoint.
LEMMA ExitKeeps ==
  ASSUME WInv, TypeOK', NEW how \in Down, Exit(how)
  PROVE  WInv'
<1>1. UNCHANGED durable /\ Recorded' = Recorded
  BY DEF Exit, Recorded, durable
<1>2. InheritsPrefix' /\ StoredAreRecorded' /\ ItemsAreRecorded' /\ SnapshotsAreRecorded'
  BY <1>1 DEF WInv, InheritsPrefix, StoredAreRecorded, ItemsAreRecorded,
              SnapshotsAreRecorded, durable
<1>3. KnownAreRecorded'
  BY DEF Exit, KnownAreRecorded, Blank
<1>4. UpdatesAreRecorded' /\ ManagedAreRecorded'
  BY DEF Exit, UpdatesAreRecorded, ManagedAreRecorded
<1>5. Loaded'
  BY DEF Exit, Loaded, Up
<1> QED BY <1>2, <1>3, <1>4, <1>5 DEF WInv

-----------------------------------------------------------------------------
(* The actions *)

\* Steps that neither record nor manage anything.
LEMMA QuietActionsKeep ==
  ASSUME WInv, TypeOK',
         \/ ScheduledAll \/ ReconciledAll \/ InputsSlurped \/ UpdatesSlurped \/ TakeInput
         \/ Timers \/ DropResult \/ QuotaRefuses \/ SummaryOverflows
         \/ CountTurn \/ AnswerStands \/ AnswerCut \/ AnswerRefused \/ AnswerWhole
         \/ ProcessDue \/ Decide \/ DropCompaction \/ TellFirst \/ Submit
  PROVE  WInv'
<1> USE DEF At, Up, Down, GoesOn
<1>1. CASE ScheduledAll \/ ReconciledAll \/ InputsSlurped \/ UpdatesSlurped \/ TakeInput
  BY <1>1, QuietStepKeeps DEF ScheduledAll, ReconciledAll, InputsSlurped, UpdatesSlurped, TakeInput
<1>2. CASE Timers
  BY <1>2, QuietStepKeeps DEF Timers, DeadlinePasses, ReportDue, QuotaLifts, GraceEnds,
                              ToolWaitEnds, PostHeartbeat
<1>3. CASE DropResult \/ QuotaRefuses \/ SummaryOverflows
  BY <1>3, QuietStepKeeps DEF DropResult, QuotaRefuses, SummaryOverflows
<1>4. CASE CountTurn \/ AnswerStands \/ AnswerCut \/ AnswerRefused \/ AnswerWhole
  BY <1>4, QuietStepKeeps DEF CountTurn, AnswerStands, AnswerCut, AnswerRefused, AnswerWhole,
                              Recovers
<1>5. CASE ProcessDue \/ Decide \/ DropCompaction \/ Submit
  BY <1>5, QuietStepKeeps DEF ProcessDue, Decide, DropCompaction, Submit
<1>6. CASE TellFirst
  <2>1. h'.ops = h.ops
    BY <1>6, Zenon DEF TellFirst, WInv, TypeOK, DerivedState
  <2> QED BY <1>6, <2>1, QuietStepKeeps DEF TellFirst
<1> QED BY <1>1, <1>2, <1>3, <1>4, <1>5, <1>6

\* Steps that may end the run.
LEMMA EndingActionsKeep ==
  ASSUME WInv, TypeOK',
         Crash \/ RequestFails \/ AnswerFailed \/ AwaitCancellation \/ StopWhenIdle
  PROVE  WInv'
<1>1. CASE \E how \in Down : Exit(how)
  BY <1>1, ExitKeeps
<1>2. CASE /\ Up /\ pc # "replay"
           /\ UNCHANGED <<durable, pos, h, manager>>
  BY <1>2, QuietStepKeeps DEF GoesOn
<1>3. {"crashed", "failed", "stopped", "idle"} \subseteq Down
  BY DEF Down
<1> QED BY <1>1, <1>2, <1>3, Zenon
  DEF Crash, RequestFails, AnswerFailed, Recovers, AwaitCancellation, StopWhenIdle, At, Up, Down

\* Steps that record an input, a turn or a response.
LEMMA RecordingActionsKeep ==
  ASSUME WInv, TypeOK',
         \/ RecordInput \/ AnswerArrives \/ SummaryArrives \/ AnswerOverflows
         \/ BeginCompaction \/ BeginTurn
  PROVE  WInv'
<1> USE DEF At, Up, Down, GoesOn
<1>1. \A id \in Inputs : ~NamesOperation(InputItem(id))
  BY DEF NamesOperation, InputItem
<1>2. \A n, compaction : ~NamesOperation(TurnItem(n, compaction))
  BY DEF NamesOperation, TurnItem
<1>3. \A n, calls, ending : ~NamesOperation(ResponseItem(n, calls, ending))
  BY DEF NamesOperation, ResponseItem
<1>4. h.turn + 1 \in Nat
  <2>1. h.turn \in Nat
    BY Zenon DEF WInv, TypeOK, DerivedState
  <2> QED BY <2>1
<1>5. ASSUME NEW item \in Items, Record(item), ~NamesOperation(item), GoesOn,
             UNCHANGED <<saved, ckpt, pos, manager>>
      PROVE  WInv'
  BY <1>5, RecordStepKeeps DEF Record
<1>6. CASE RecordInput
  <2>1. Head(todo) \in Inputs
    BY <1>6, HeadTailProperties DEF RecordInput, WInv, TypeOK
  <2> QED BY <1>1, <1>5, <1>6, <2>1, ItemTypes DEF RecordInput, mail
<1>7. CASE AnswerArrives
  <2> PICK n \in flying, calls \in SUBSET {c \in Calls : h.calls[c] = "none"},
           ending \in {"whole", "empty", "cut", "refused", "failed"} :
             Record(ResponseItem(n, calls, ending))
    BY <1>7, Zenon DEF AnswerArrives
  <2>1. n \in Nat /\ calls \in SUBSET Calls /\ ending \in Endings
    BY DEF WInv, TypeOK, Endings
  <2> QED BY <1>3, <1>5, <1>7, <2>1, ItemTypes DEF AnswerArrives
<1>8. CASE SummaryArrives
  <2> PICK n \in flying, ending \in {"summary", "nosummary"} : Record(ResponseItem(n, {}, ending))
    BY <1>8, Zenon DEF SummaryArrives
  <2>1. n \in Nat /\ {} \in SUBSET Calls /\ ending \in Endings
    BY DEF WInv, TypeOK, Endings
  <2> QED BY <1>3, <1>5, <1>8, <2>1, ItemTypes DEF SummaryArrives
<1>9. CASE AnswerOverflows \/ BeginCompaction \/ BeginTurn
  BY <1>2, <1>4, <1>5, <1>9, ItemTypes DEF AnswerOverflows, BeginCompaction, BeginTurn
<1> QED BY <1>6, <1>7, <1>8, <1>9

\* A status item recorded with its operation.
LEMMA FirstStatusRecords ==
  ASSUME TypeOK, NEW o \in Ops, log' = Append(log, StatusItem(o, "ready")), Store(o, "ready")
  PROVE  /\ o \in Recorded'
         /\ \A x \in Ops : saved'[x] = saved[x] \/ (saved'[x] # "none" /\ x \in Recorded')
<1>1. saved' = [saved EXCEPT ![o] = "ready"] /\ saved \in [Ops -> Statuses \cup {"none"}]
  BY DEF Store, TypeOK
<1>2. Len(log) + 1 \in DOMAIN log' /\ log'[Len(log) + 1] = StatusItem(o, "ready")
  <2>1. StatusItem(o, "ready") \in Items /\ log \in Seq(Items)
    BY ItemTypes DEF TypeOK, Statuses, Unfinished
  <2> QED BY <2>1, AppendProperties, LenProperties
<1>3. o \in Recorded'
  BY <1>1, <1>2 DEF Recorded
<1> QED BY <1>1, <1>3

LEMMA StatusActionsKeep ==
  ASSUME WInv, TypeOK', ScheduleToolCall \/ ReconcileToolCall \/ Verify
  PROVE  WInv'
<1> USE DEF At, Up, Down, GoesOn, WInv
<1>1. CASE ScheduleToolCall
  <2> PICK c \in Calls, status \in {"ready", "none"} :
             Record(StatusItem(c, status)) /\ Store(c, status)
    BY <1>1, Zenon DEF ScheduleToolCall
  <2>1. c \in Ops /\ StatusItem(c, status) \in Items
    BY ItemTypes DEF Ops, Statuses, Unfinished
  <2>2. GoesOn /\ UNCHANGED <<ckpt, pos, manager>>
    BY <1>1 DEF ScheduleToolCall
  <2>3. CASE status = "none"
    <3>1. ~NamesOperation(StatusItem(c, status)) /\ saved' = saved
      BY <2>3 DEF NamesOperation, StatusItem, Store
    <3> QED BY <2>1, <2>2, <3>1, RecordStepKeeps DEF Record
  <2>4. CASE status = "ready"
    <3>1. StatusItem(c, status).op = c
      BY DEF StatusItem
    <3> QED BY <2>1, <2>2, <2>4, <3>1, FirstStatusRecords, RecordStepKeeps DEF Record
  <2> QED BY <2>3, <2>4
<1>2. CASE ReconcileToolCall
  <2> PICK c \in FinishedCalls : Record(StatusItem(c, h.ops[c]))
    BY <1>2, Zenon DEF ReconcileToolCall
  <2> DEFINE item == StatusItem(c, h.ops[c])
  <2>1. c \in Ops /\ h.ops[c] \in Statuses \cup {"none"} /\ h.ops[c] # "none"
    BY DEF FinishedCalls, Ops, TypeOK, DerivedState, Terminal
  <2>2. item \in Items /\ item.op = c
    BY <2>1, ItemTypes DEF StatusItem
  <2>3. c \in Recorded
    BY <1>2, <2>1 DEF ReconcileToolCall, Loaded, KnownAreRecorded
  <2>4. c \in Recorded'
    <3>1. Grows
      BY <1>2, <2>2 DEF Grows, Record, ReconcileToolCall
    <3> QED BY <2>3, <3>1, RecordedStays
  <2> QED BY <1>2, <2>2, <2>4, RecordStepKeeps DEF ReconcileToolCall, Record
<1>3. CASE Verify
  <2> PICK k \in UnusedChecks :
        /\ log' = Append(log, StatusItem(k, "ready"))
        /\ h' = [AddItem(h, StatusItem(k, "ready")) EXCEPT !.work = FALSE]
        /\ Store(k, "ready")
    BY <1>3, Zenon DEF Verify
  <2> DEFINE item == StatusItem(k, "ready")
  <2>1. k \in Ops
    BY DEF UnusedChecks, Ops
  <2>2. item \in Items /\ item.op = k
    BY <2>1, ItemTypes DEF StatusItem, Statuses, Unfinished
  <2>3. h'.ops = AddItem(h, item).ops
    <3> DEFINE d == AddItem(h, item)
    <3>1. d \in DerivedState /\ h' = [d EXCEPT !.work = FALSE]
      BY <2>2, AddItemType DEF TypeOK
    <3> HIDE DEF d
    <3>2. h'.ops = d.ops
      BY <3>1, Zenon DEF DerivedState
    <3> QED BY <3>2 DEF d
  <2> QED BY <1>3, <2>1, <2>2, <2>3, FirstStatusRecords, RecordStepKeeps DEF Verify
<1> QED BY <1>1, <1>2, <1>3

-----------------------------------------------------------------------------
(* The manager, and updates *)

LEMMA DispatchKeeps ==
  ASSUME WInv, NEW ops, Dispatch(ops), pos >= Len(Inherited)
  PROVE  \A o \in Ops : mgr'[o] # "absent" => o \in Recorded
BY DEF WInv, TypeOK, Dispatch, KnownAreRecorded, ManagedAreRecorded, Unfinished

LEMMA AppendedUpdates ==
  ASSUME WInv, NEW o \in Ops, NEW status \in Statuses, mgr[o] # "absent",
         updates' = Append(updates, [op |-> o, status |-> status])
  PROVE  \A i \in DOMAIN updates' : updates'[i].op \in Recorded
<1> DEFINE u == [op |-> o, status |-> status]
<1>1. updates \in Seq([op : Ops, status : Statuses]) /\ u \in [op : Ops, status : Statuses]
  BY DEF WInv, TypeOK
<1>2. \A i \in DOMAIN updates' : updates'[i] = u \/ (i \in DOMAIN updates /\ updates'[i] = updates[i])
  BY <1>1, AppendProperties, LenProperties
<1>3. u.op = o /\ o \in Recorded
  BY DEF WInv, ManagedAreRecorded
<1> QED BY <1>2, <1>3 DEF WInv, UpdatesAreRecorded

LEMMA ManagerActionsKeep ==
  ASSUME WInv, TypeOK',
         \/ StartLoop \/ DispatchCalls \/ CancelOperations
         \/ OperationAwaits \/ \E o \in Ops : OperationEnds(o)
  PROVE  WInv'
<1> USE DEF At, Up, Down, GoesOn
<1>1. \A i \in DOMAIN updates : updates[i].op \in Recorded
  BY DEF WInv, UpdatesAreRecorded
<1>2. \A o \in Ops : mgr[o] # "absent" => o \in Recorded
  BY DEF WInv, ManagedAreRecorded
<1>3. CASE StartLoop
  <2>1. \A o \in Ops : mgr'[o] # "absent" => o \in Recorded
    BY <1>3, DispatchKeeps DEF StartLoop, WInv, Loaded
  <2> QED BY <1>1, <1>3, <2>1, ManagerStepKeeps DEF StartLoop
<1>4. CASE DispatchCalls
  <2>1. \A o \in Ops : mgr'[o] # "absent" => o \in Recorded
    BY <1>4, DispatchKeeps DEF DispatchCalls, WInv, Loaded
  <2> QED BY <1>1, <1>4, <2>1, ManagerStepKeeps DEF DispatchCalls
<1>5. CASE CancelOperations
  <2>1. \A o \in Ops : mgr'[o] # "absent" => o \in Recorded
    BY <1>2, <1>5 DEF CancelOperations
  <2> QED BY <1>1, <1>5, <2>1, ManagerStepKeeps DEF CancelOperations
<1>6. CASE OperationAwaits
  <2> PICK o \in Ops : /\ mgr[o] = "running"
                       /\ updates' = Append(updates, [op |-> o, status |-> "awaiting"])
    BY <1>6, Zenon DEF OperationAwaits
  <2>1. "awaiting" \in Statuses
    BY DEF Statuses, Unfinished
  <2>2. \A i \in DOMAIN updates' : updates'[i].op \in Recorded
    BY <2>1, AppendedUpdates
  <2> QED BY <1>2, <1>6, <2>2, ManagerStepKeeps DEF OperationAwaits
<1>7. ASSUME NEW o \in Ops, OperationEnds(o) PROVE WInv'
  <2> PICK status \in Terminal : updates' = Append(updates, [op |-> o, status |-> status])
    BY <1>7 DEF OperationEnds, Terminal
  <2>1. mgr[o] # "absent" /\ status \in Statuses
    BY <1>7 DEF OperationEnds, Statuses
  <2>2. \A i \in DOMAIN updates' : updates'[i].op \in Recorded
    BY <2>1, AppendedUpdates
  <2>3. \A x \in Ops : mgr'[x] # "absent" => x \in Recorded
    BY <1>2, <1>7, <2>1 DEF OperationEnds, WInv, TypeOK
  <2> QED BY <1>7, <2>2, <2>3, ManagerStepKeeps DEF OperationEnds
<1> QED BY <1>3, <1>4, <1>5, <1>6, <1>7

\* An update stores an operation that was recorded when it started.
LEMMA TakeUpdateKeeps ==
  ASSUME WInv, TypeOK', TakeUpdate
  PROVE  WInv'
<1> USE DEF WInv
<1> DEFINE u == Head(updates)
<1>1. /\ u \in [op : Ops, status : Statuses] /\ 1 \in DOMAIN updates /\ u = updates[1]
      /\ \A i \in DOMAIN updates' : i + 1 \in DOMAIN updates /\ updates'[i] = updates[i + 1]
  <2>1. /\ updates \in Seq([op : Ops, status : Statuses]) /\ updates # <<>>
        /\ updates' = Tail(updates)
    BY DEF TakeUpdate, TypeOK
  <2>2. Len(updates) \in Nat /\ DOMAIN updates = 1 .. Len(updates) /\ Len(updates) # 0
    BY <2>1, LenProperties, EmptySeq
  <2>3. /\ updates' \in Seq([op : Ops, status : Statuses]) /\ Len(updates') = Len(updates) - 1
        /\ \A i \in 1 .. Len(updates') : updates'[i] = updates[i + 1]
    <3>1. /\ Tail(updates) \in Seq([op : Ops, status : Statuses])
          /\ Len(Tail(updates)) = Len(updates) - 1
          /\ \A i \in 1 .. Len(Tail(updates)) : Tail(updates)[i] = updates[i + 1]
      BY <2>1, HeadTailProperties, Zenon
    <3> QED BY <2>1, <3>1, Zenon
  <2>4. DOMAIN updates' = 1 .. Len(updates')
    BY <2>3, LenProperties, Zenon
  <2>5. 1 \in DOMAIN updates /\ u = updates[1]
    BY <2>1, <2>2
  <2>6. u \in [op : Ops, status : Statuses]
    BY <2>1, HeadTailProperties, Zenon
  <2> QED BY <2>2, <2>3, <2>4, <2>5, <2>6
<1>2. u.op \in Recorded /\ u.op \in Ops /\ u.status \in Statuses /\ u.status # "none"
  BY <1>1 DEF UpdatesAreRecorded, Statuses, Unfinished, Terminal
<1>3. saved' = [saved EXCEPT ![u.op] = u.status] /\ saved \in [Ops -> Statuses \cup {"none"}]
  BY DEF TakeUpdate, TypeOK
<1>4. h'.ops = [h.ops EXCEPT ![u.op] = u.status] /\ h.ops \in [Ops -> Statuses \cup {"none"}]
  <2> DEFINE d == h
             verified == Verifies /\ u.op = r.verifying /\ u.status \in Terminal
  <2>1. /\ h' = [d EXCEPT !.ops[u.op] = u.status,
                          !.verifications = IF verified THEN @ + 1 ELSE @]
        /\ d \in DerivedState
    BY Zenon DEF TakeUpdate, TypeOK
  <2> HIDE DEF u, verified
  <2> QED BY <2>1, Zenon DEF DerivedState
<1> HIDE DEF u
<1>5. Grows
  BY <1>2, <1>3 DEF Grows, TakeUpdate
<1>6. Recorded \subseteq Recorded'
  BY <1>5, RecordedStays
<1>7. RecordsFirst
  BY <1>2, <1>3, <1>6, NothingAppended DEF RecordsFirst, TakeUpdate
<1>8. \A o \in Ops : pos >= Len(Inherited) /\ h'.ops[o] # "none" => o \in Recorded'
  BY <1>2, <1>4, <1>6 DEF KnownAreRecorded
<1>9. \A i \in DOMAIN updates' : updates'[i].op \in Recorded
  BY <1>1 DEF UpdatesAreRecorded
<1>10. \A o \in Ops : mgr'[o] # "absent" => o \in Recorded
  BY DEF ManagedAreRecorded, TakeUpdate
<1> QED
  BY <1>5, <1>7, <1>8, <1>9, <1>10, LiveStepKeeps DEF TakeUpdate, GoesOn, At, Up, Down

-----------------------------------------------------------------------------
(* Checkpoints, and runs that begin *)

\* A checkpoint forgets operations, and knows of no others.
LEMMA SnapshotOps ==
  ASSUME NEW d \in DerivedState, NEW o \in Ops, Snapshot(d).ops[o] # "none"
  PROVE  d.ops[o] # "none"
<1> DEFINE ops == [x \in Ops |-> IF x \in OpenCalls(d) \/ d.ops[x] \in Unfinished
                                   THEN d.ops[x] ELSE "none"]
<1>1. ops[o] # "none" => d.ops[o] # "none"
  OBVIOUS
<1>2. Snapshot(d).ops = ops
  BY Zenon DEF Snapshot, DerivedState
<1> QED BY <1>1, <1>2

LEMMA SaveCheckpointKeeps ==
  ASSUME WInv, TypeOK', SaveCheckpoint
  PROVE  WInv'
<1> USE DEF WInv
<1>1. /\ UNCHANGED <<log, saved, pos, h, manager>> /\ pc = "checkpoint" /\ pc' = "inputs"
      /\ Recorded' = Recorded
  BY DEF SaveCheckpoint, At, Recorded
<1>2. InheritsPrefix' /\ StoredAreRecorded' /\ ItemsAreRecorded'
  BY <1>1 DEF InheritsPrefix, StoredAreRecorded, ItemsAreRecorded
<1>3. KnownAreRecorded' /\ UpdatesAreRecorded' /\ ManagedAreRecorded'
  BY <1>1 DEF KnownAreRecorded, UpdatesAreRecorded, ManagedAreRecorded, manager
<1>4. Loaded'
  BY <1>1 DEF Loaded, Up, Down
<1>5. pos >= Len(Inherited)
  BY <1>1 DEF Loaded, Up, Down
<1>6. SnapshotsAreRecorded'
  <2> DEFINE c == [at |-> Len(log), state |-> Snapshot(h)]
  <2>1. ckpt' \subseteq ckpt \cup {c}
    BY DEF SaveCheckpoint
  <2>2. c.at >= Len(Inherited) /\ \A o \in Ops : c.state.ops[o] # "none" => o \in Recorded
    <3>1. c.at = Len(log) /\ c.state = Snapshot(h) /\ h \in DerivedState
      BY DEF TypeOK
    <3> HIDE DEF c
    <3> QED BY <1>5, <3>1, SnapshotOps DEF InheritsPrefix, KnownAreRecorded
  <2> HIDE DEF c
  <2> QED BY <1>1, <2>1, <2>2 DEF SnapshotsAreRecorded
<1> QED BY <1>2, <1>3, <1>4, <1>6

\* What a run that is being restored keeps: it loads the durable part.
LEMMA RestoringStepKeeps ==
  ASSUME WInv, TypeOK', UNCHANGED <<durable, manager>>, KnownAreRecorded', Loaded'
  PROVE  WInv'
<1>1. Recorded' = Recorded
  BY DEF Recorded, durable
<1> QED
  BY <1>1 DEF WInv, durable, manager, InheritsPrefix, StoredAreRecorded, ItemsAreRecorded,
              SnapshotsAreRecorded, UpdatesAreRecorded, ManagedAreRecorded

LEMMA StartKeeps ==
  ASSUME WInv, TypeOK', Start
  PROVE  WInv'
<1>1. Recorded' = Recorded
  BY DEF Start, Recorded, durable
<1>2. KnownAreRecorded'
  <2>1. CASE h' = Blank
    BY <2>1 DEF KnownAreRecorded, Blank
  <2>2. CASE \E c \in ckpt : h' = c.state
    BY <1>1, <2>2 DEF WInv, SnapshotsAreRecorded, KnownAreRecorded
  <2> QED BY <2>1, <2>2 DEF Start
<1>3. Loaded'
  BY DEF Start, Loaded
<1> QED BY <1>2, <1>3, RestoringStepKeeps DEF Start

\* Replay knows no operation of the parent once it is past the fork.
LEMMA ReplayItemKeeps ==
  ASSUME WInv, TypeOK', ReplayItem
  PROVE  WInv'
<1> USE DEF WInv
<1> DEFINE n == pos + 1
<1>1. pos' = n /\ n \in DOMAIN log /\ log[n] \in Items /\ h' = AddItem(h, log[n])
  <2>1. DOMAIN log = 1 .. Len(log) /\ Len(log) \in Nat /\ n \in DOMAIN log
    BY LenProperties DEF ReplayItem, TypeOK
  <2> QED BY <2>1, ElementOfSeq DEF ReplayItem, TypeOK
<1>2. Recorded' = Recorded
  BY DEF ReplayItem, Recorded, durable
<1>3. Len(Inherited) \in Nat /\ pos \in Nat
  BY CoordinatorAssumption, LenProperties DEF TypeOK
<1>4. KnownAreRecorded'
  <2> SUFFICES ASSUME n >= Len(Inherited), NEW o \in Ops, h'.ops[o] # "none"
               PROVE  o \in Recorded
    BY <1>1, <1>2 DEF KnownAreRecorded
  <2>1. /\ log[n] # ForkItem
        /\ h.ops[o] # "none" \/ (NamesOperation(log[n]) /\ log[n].op = o)
    BY <1>1, AddItemOps DEF TypeOK
  <2>2. CASE n > Len(Inherited)
    BY <1>1, <1>3, <2>1, <2>2 DEF KnownAreRecorded, ItemsAreRecorded
  <2>3. CASE n = Len(Inherited)
    <3>1. Inherited # <<>> /\ n \in 1 .. Len(Inherited)
      BY <1>3, <2>3
    <3>2. log[n] = ForkItem
      BY <2>3, <3>1, CoordinatorAssumption DEF InheritsPrefix
    <3> QED BY <2>1, <3>2
  <2> QED BY <1>3, <2>2, <2>3
<1>5. Loaded'
  BY DEF ReplayItem, Loaded
<1> QED BY <1>4, <1>5, RestoringStepKeeps DEF ReplayItem

LEMMA RestoreKeeps ==
  ASSUME WInv, TypeOK', Restore
  PROVE  WInv'
<1> USE DEF WInv
<1>1. Recorded' = Recorded /\ pos' = pos /\ h' = RestoreOperations(h)
  BY DEF Restore, Recorded, durable
<1>2. KnownAreRecorded'
  <2> SUFFICES ASSUME pos >= Len(Inherited), NEW o \in Ops, h'.ops[o] # "none"
               PROVE  o \in Recorded
    BY <1>1 DEF KnownAreRecorded
  <2> DEFINE ops == [x \in Ops |-> IF Restorable(x) THEN saved[x] ELSE h.ops[x]]
  <2>1. h'.ops = ops
    BY <1>1, Zenon DEF RestoreOperations, TypeOK, DerivedState
  <2>2. Restorable(o) => saved[o] # "none"
    BY DEF Restorable
  <2> QED BY <2>1, <2>2 DEF KnownAreRecorded, StoredAreRecorded
<1>3. Loaded'
  BY DEF Restore, Loaded, InheritsPrefix
<1> QED BY <1>2, <1>3, RestoringStepKeeps DEF Restore

-----------------------------------------------------------------------------
(* The theorem *)

LEMMA InitRecorded == Init => WInv
<1> SUFFICES ASSUME Init PROVE WInv
  OBVIOUS
<1>1. Len(Inherited) \in Nat /\ DOMAIN Inherited = 1 .. Len(Inherited)
  BY CoordinatorAssumption, LenProperties
<1> QED
  BY <1>1, InitTypes
  DEF Init, WInv, InheritsPrefix, StoredAreRecorded, ItemsAreRecorded, KnownAreRecorded, Blank,
      SnapshotsAreRecorded, UpdatesAreRecorded, ManagedAreRecorded, Loaded, Up, Down

LEMMA StepKeepsRecorded == WInv /\ [Next]_vars => WInv'
<1> SUFFICES ASSUME WInv, [Next]_vars PROVE WInv'
  OBVIOUS
<1>1. TypeOK'
  BY StepTypes DEF WInv
<1>2. CASE Working
  BY <1>1, <1>2, ReplayItemKeeps, RestoreKeeps, RecordingActionsKeep, StatusActionsKeep,
     QuietActionsKeep, ManagerActionsKeep, SaveCheckpointKeeps, EndingActionsKeep, Zenon
     DEF Working
<1>3. CASE ModelResults
  BY <1>1, <1>3, QuietActionsKeep, RecordingActionsKeep, EndingActionsKeep, Zenon
     DEF ModelResults
<1>4. CASE UNCHANGED vars
  BY <1>1, <1>4
  DEF vars, durable, manager, WInv, InheritsPrefix, StoredAreRecorded, ItemsAreRecorded,
      KnownAreRecorded, SnapshotsAreRecorded, UpdatesAreRecorded, ManagedAreRecorded, Recorded,
      Loaded, Up
<1> QED
  BY <1>1, <1>2, <1>3, <1>4, StartKeeps, QuietActionsKeep, EndingActionsKeep, TakeUpdateKeeps,
     ManagerActionsKeep, Zenon
     DEF Next

\* The invariant gives the promise: what the manager works on is recorded.
LEMMA RecordedIsWrittenAhead == WInv => WriteAhead
BY DEF WInv, ManagedAreRecorded, Recorded, WriteAhead

\* No operation is dispatched before the log holds its record and the store
\* its operation (scheduleToolCall and verify store both in one append before
\* dispatchOperationToManager), whatever crashes, restores from a checkpoint
\* or from all items, and forks come before.
THEOREM OperationsWrittenAhead == Spec => []WriteAhead
<1> QED BY InitRecorded, StepKeepsRecorded, RecordedIsWrittenAhead, PTL DEF Spec

-----------------------------------------------------------------------------
(* Replay                                                                   *)
(*                                                                          *)
(* What a later run would derive from the log is what the live run knows.   *)
(* The state a log determines is a fold over it (Replay).  The first part   *)
(* proves what a fold needs: it exists, where it begins, what one more item *)
(* does to it, its type.  These are inductions over the length of the log;  *)
(* they are done with sets (NatSetInduction).                               *)

-----------------------------------------------------------------------------
(* Induction over the naturals, for a set: every least element not in it    *)
(* would follow one in it.                                                  *)

LEMMA NatSetInduction ==
  ASSUME NEW S, 0 \in S, \A n \in Nat : n \in S => n + 1 \in S
  PROVE  Nat \subseteq S
<1> DEFINE T == Nat \ S
<1> SUFFICES ASSUME T # {} PROVE FALSE
  OBVIOUS
<1>1. PICK x \in T : \A y \in T : <<y, x>> \notin OpToRel(<, Nat)
  BY NatLessThanWellFounded, WFMin
<1>2. x \in Nat /\ x # 0 /\ x - 1 \in Nat /\ x - 1 < x /\ (x - 1) + 1 = x
  OBVIOUS
<1>3. <<x - 1, x>> \in OpToRel(<, Nat)
  BY <1>2 DEF OpToRel
<1>4. x - 1 \in S
  BY <1>1, <1>2, <1>3
<1> QED BY <1>1, <1>2, <1>4

-----------------------------------------------------------------------------
(* The replay of a log *)

\* The states of a replay of n items are a function that begins with a blank
\* state and adds item after item.
Replays(f, items, n) ==
  f = [k \in 0 .. n |-> IF k = 0 THEN Blank ELSE AddItem(f[k - 1], items[k])]

LEMMA ReplayExists ==
  ASSUME NEW items, NEW n \in Nat
  PROVE  \E f : Replays(f, items, n)
<1> DEFINE S == {m \in Nat : \E f : Replays(f, items, m)}
<1>1. 0 \in S
  <2> DEFINE f == [k \in 0 .. 0 |-> Blank]
  <2>1. f = [k \in 0 .. 0 |-> IF k = 0 THEN Blank ELSE AddItem(f[k - 1], items[k])]
    OBVIOUS
  <2>2. Replays(f, items, 0)
    BY <2>1 DEF Replays
  <2> QED BY <2>2
<1>2. ASSUME NEW m \in Nat, m \in S PROVE m + 1 \in S
  <2> PICK f : Replays(f, items, m)
    BY <1>2
  <2> DEFINE g == [k \in 0 .. m + 1 |-> IF k = m + 1 THEN AddItem(f[m], items[k]) ELSE f[k]]
  <2>1. \A k \in 0 .. m : f[k] = IF k = 0 THEN Blank ELSE AddItem(f[k - 1], items[k])
    BY DEF Replays
  <2>2. \A k \in 0 .. m : g[k] = f[k]
    OBVIOUS
  <2>3. \A k \in 0 .. m + 1 :
          g[k] = IF k = 0 THEN Blank ELSE AddItem(g[k - 1], items[k])
    <3> SUFFICES ASSUME NEW k \in 0 .. m + 1
                 PROVE  g[k] = IF k = 0 THEN Blank ELSE AddItem(g[k - 1], items[k])
      OBVIOUS
    <3>1. CASE k = m + 1
      <4>1. k # 0 /\ k - 1 = m /\ m \in 0 .. m
        BY <3>1
      <4> QED BY <2>2, <3>1, <4>1
    <3>2. CASE k \in 0 .. m
      <4>1. k = 0 \/ k - 1 \in 0 .. m
        BY <3>2
      <4>2. g[k] = f[k] /\ (k # 0 => g[k - 1] = f[k - 1])
        BY <2>2, <3>2, <4>1
      <4> HIDE DEF g
      <4> QED BY <2>1, <3>2, <4>2
    <3> QED BY <3>1, <3>2
  <2>4. g = [k \in 0 .. m + 1 |-> IF k = 0 THEN Blank ELSE AddItem(g[k - 1], items[k])]
    <3>1. g = [k \in 0 .. m + 1 |-> g[k]]
      OBVIOUS
    <3> HIDE DEF g
    <3> QED BY <2>3, <3>1
  <2> HIDE DEF g
  <2> QED BY <2>4 DEF Replays
<1> HIDE DEF S
<1>3. Nat \subseteq S
  BY <1>1, <1>2, NatSetInduction
<1> QED BY <1>3 DEF S

LEMMA ReplayDef ==
  ASSUME NEW items \in Seq(Items)
  PROVE  Replays(Replay(items), items, Len(items))
<1>1. Len(items) \in Nat
  BY LenProperties
<1>2. \E f : Replays(f, items, Len(items))
  BY <1>1, ReplayExists
<1>3. Replay(items) = CHOOSE f : Replays(f, items, Len(items))
  BY Zenon DEF Replay, Replays
<1> QED BY <1>2, <1>3

\* A replay begins with nothing, and every item leads from one state to the next.
LEMMA ReplaySteps ==
  ASSUME NEW items \in Seq(Items)
  PROVE  /\ Len(items) \in Nat
         /\ Replay(items)[0] = Blank
         /\ \A n \in 1 .. Len(items) :
              Replay(items)[n] = AddItem(Replay(items)[n - 1], items[n])
<1>1. Len(items) \in Nat
  BY LenProperties
<1> DEFINE f == Replay(items)
<1>2. \A k \in 0 .. Len(items) :
        f[k] = IF k = 0 THEN Blank ELSE AddItem(f[k - 1], items[k])
  BY ReplayDef DEF Replays
<1> HIDE DEF f
<1>3. f[0] = Blank
  BY <1>1, <1>2
<1>4. \A n \in 1 .. Len(items) : f[n] = AddItem(f[n - 1], items[n])
  BY <1>1, <1>2
<1> QED BY <1>1, <1>3, <1>4 DEF f

\* Every state of a replay is a derived state.
LEMMA ReplayType ==
  ASSUME NEW items \in Seq(Items), NEW n \in 0 .. Len(items)
  PROVE  Replay(items)[n] \in DerivedState
<1> DEFINE S == {m \in Nat : m <= Len(items) => Replay(items)[m] \in DerivedState}
<1>0. Len(items) \in Nat
  BY LenProperties
<1>1. 0 \in S
  BY ReplaySteps, BlankType
<1>2. ASSUME NEW m \in Nat, m \in S PROVE m + 1 \in S
  <2> SUFFICES ASSUME m + 1 <= Len(items) PROVE Replay(items)[m + 1] \in DerivedState
    OBVIOUS
  <2>1. m + 1 \in 1 .. Len(items) /\ (m + 1) - 1 = m /\ m <= Len(items)
    BY <1>0
  <2>2. Replay(items)[m] \in DerivedState
    BY <1>2, <2>1
  <2>3. items[m + 1] \in Items
    BY <2>1, ElementOfSeq
  <2>4. Replay(items)[m + 1] = AddItem(Replay(items)[m], items[m + 1])
    BY <2>1, ReplaySteps
  <2> QED BY <2>2, <2>3, <2>4, AddItemType
<1> HIDE DEF S
<1>3. n \in S
  BY <1>0, <1>1, <1>2, NatSetInduction
<1> QED BY <1>0, <1>3 DEF S

\* The replay of a log goes through the states of the replay of what it begins
\* with.
LEMMA ReplayOfPrefix ==
  ASSUME NEW items \in Seq(Items), NEW more \in Seq(Items), Len(items) <= Len(more),
         \A i \in 1 .. Len(items) : more[i] = items[i],
         NEW n \in 0 .. Len(items)
  PROVE  Replay(more)[n] = Replay(items)[n]
<1> DEFINE S == {m \in Nat : m <= Len(items) => Replay(more)[m] = Replay(items)[m]}
<1>0. Len(items) \in Nat /\ Len(more) \in Nat
  BY LenProperties
<1>1. 0 \in S
  BY ReplaySteps
<1>2. ASSUME NEW m \in Nat, m \in S PROVE m + 1 \in S
  <2> SUFFICES ASSUME m + 1 <= Len(items) PROVE Replay(more)[m + 1] = Replay(items)[m + 1]
    OBVIOUS
  <2>1. m + 1 \in 1 .. Len(items) /\ (m + 1) - 1 = m /\ m <= Len(items)
        /\ m + 1 \in 1 .. Len(more)
    BY <1>0
  <2>2. Replay(more)[m] = Replay(items)[m] /\ more[m + 1] = items[m + 1]
    BY <1>2, <2>1
  <2>3. Replay(items)[m + 1] = AddItem(Replay(items)[m], items[m + 1])
    BY <2>1, ReplaySteps
  <2>4. Replay(more)[m + 1] = AddItem(Replay(more)[m], more[m + 1])
    BY <2>1, ReplaySteps
  <2> QED BY <2>2, <2>3, <2>4
<1> HIDE DEF S
<1>3. n \in S
  BY <1>0, <1>1, <1>2, NatSetInduction
<1> QED BY <1>0, <1>3 DEF S

\* One more item is added to the state the items before it lead to.
LEMMA ReplayAppend ==
  ASSUME NEW items \in Seq(Items), NEW item \in Items
  PROVE  LET more == Append(items, item) IN
           /\ more \in Seq(Items) /\ Len(more) = Len(items) + 1
           /\ Replay(more)[Len(more)] = AddItem(Replay(items)[Len(items)], item)
           /\ \A n \in 0 .. Len(items) : Replay(more)[n] = Replay(items)[n]
<1> DEFINE more == Append(items, item)
<1>1. /\ more \in Seq(Items) /\ Len(items) \in Nat /\ Len(more) = Len(items) + 1
      /\ \A i \in 1 .. Len(items) : more[i] = items[i]
      /\ more[Len(items) + 1] = item
  BY AppendProperties, LenProperties
<1> HIDE DEF more
<1>2. \A n \in 0 .. Len(items) : Replay(more)[n] = Replay(items)[n]
  BY <1>1, ReplayOfPrefix
<1>3. Replay(more)[Len(more)] = AddItem(Replay(more)[Len(items)], item)
  BY <1>1, ReplaySteps
<1> QED BY <1>1, <1>2, <1>3 DEF more

-----------------------------------------------------------------------------
(* What replay does not derive                                              *)

\* States that may differ in what the live loop also changes without an item:
\* the operations, and the three values that history holds as replay has them.
Agrees(d, e) ==
  /\ d.turn = e.turn /\ d.compactionTurns = e.compactionTurns /\ d.calls = e.calls
  /\ d.available = e.available /\ d.delivered = e.delivered /\ d.turnInputs = e.turnInputs
  /\ d.asked = e.asked /\ d.compacted = e.compacted /\ d.since = e.since
  /\ d.failed = e.failed /\ d.refills = e.refills /\ d.reminded = e.reminded
  /\ d.history.verifications = e.history.verifications
  /\ d.history.work = e.history.work /\ d.history.stopped = e.history.stopped

LEMMA SameState ==
  ASSUME NEW d \in DerivedState, NEW e \in DerivedState, Agrees(d, e), d.ops = e.ops,
         d.verifications = e.verifications, d.work = e.work, d.stopped = e.stopped
  PROVE  d = e
<1> DEFINE H == {"verifications", "work", "stopped"}
           F == {"turn", "compactionTurns", "calls", "ops", "available", "delivered",
                 "turnInputs", "asked", "compacted", "since", "failed", "refills", "reminded",
                 "verifications", "work", "stopped", "history"}
<1>1. \A x \in DerivedState : x = [f \in F |-> x[f]] /\ x.history = [f \in H |-> x.history[f]]
  BY SMT DEF DerivedState
<1>2. d.history = e.history
  <2>1. \A f \in H : d.history[f] = e.history[f]
    BY Zenon DEF Agrees
  <2> HIDE DEF H
  <2> QED BY <1>1, <2>1, Zenon
<1>3. \A f \in F : d[f] = e[f]
  BY <1>2, Zenon DEF Agrees
<1> HIDE DEF F
<1> QED BY <1>1, <1>3, Zenon

LEMMA ReplayedFields ==
  ASSUME NEW d \in DerivedState
  PROVE  /\ Replayed(d) \in DerivedState
         /\ Agrees(Replayed(d), d)
         /\ Replayed(d).ops = [o \in Ops |-> "none"] /\ Replayed(d).verifications = 0
         /\ Replayed(d).work = FALSE /\ Replayed(d).stopped = FALSE
<1> DEFINE ops == [o \in Ops |-> "none"]
<1>1. ops \in [Ops -> Statuses \cup {"none"}] /\ 0 \in Nat
  OBVIOUS
<1>2. Replayed(d) = [d EXCEPT !.verifications = 0, !.work = FALSE, !.stopped = FALSE,
                              !.ops = ops]
  BY Zenon DEF Replayed
<1> HIDE DEF ops
<1>3. Replayed(d) \in DerivedState
  BY <1>1, <1>2, ZenonT(60) DEF DerivedState
<1>4. Agrees(Replayed(d), d)
  BY <1>2, ZenonT(60) DEF DerivedState, Agrees
<1>5. /\ Replayed(d).ops = ops /\ Replayed(d).verifications = 0
      /\ Replayed(d).work = FALSE /\ Replayed(d).stopped = FALSE
  BY <1>2, ZenonT(60) DEF DerivedState
<1> QED BY <1>3, <1>4, <1>5 DEF ops

\* States that differ in what the live loop changes are the same to a replay.
LEMMA AgreedIsReplayed ==
  ASSUME NEW d \in DerivedState, NEW e \in DerivedState
  PROVE  Agrees(d, e) <=> Replayed(d) = Replayed(e)
<1>1. ASSUME Agrees(d, e) PROVE Replayed(d) = Replayed(e)
  <2>1. Agrees(Replayed(d), Replayed(e))
    BY <1>1, ReplayedFields, Zenon DEF Agrees
  <2> QED BY <2>1, ReplayedFields, SameState, Zenon
<1>2. ASSUME Replayed(d) = Replayed(e) PROVE Agrees(d, e)
  <2>1. Agrees(Replayed(d), d) /\ Agrees(Replayed(d), e)
    BY <1>2, ReplayedFields, Zenon
  <2> QED BY <2>1, SMT DEF Agrees
<1> QED BY <1>1, <1>2

LEMMA AddInputAgrees ==
  ASSUME NEW d \in DerivedState, NEW e \in DerivedState, Agrees(d, e), NEW id
  PROVE  Agrees(AddInput(d, id), AddInput(e, id))
<1>1. ASSUME NEW x \in DerivedState
      PROVE  LET y == AddInput(x, id) IN
             /\ y.turn = x.turn /\ y.compactionTurns = x.compactionTurns /\ y.calls = x.calls
             /\ y.available = IF id \in External \cup Heartbeats THEN x.available + 1
                              ELSE x.available
             /\ y.delivered = x.delivered /\ y.turnInputs = x.turnInputs
             /\ y.compacted = x.compacted /\ y.since = x.since
             /\ y.failed = x.failed /\ y.refills = x.refills
             /\ y.history.verifications = CountVerifications(x.history.verifications, id)
             /\ y.history.work = x.history.work
  BY ZenonT(60) DEF AddInput, DerivedState
<1>2. ASSUME NEW x \in DerivedState
      PROVE  LET y == AddInput(x, id) IN
             /\ y.asked = (x.asked \/ id = "compact") /\ y.reminded = (x.reminded \/ id = "reminder")
             /\ y.history.stopped = (x.history.stopped \/ id = "stop_hard")
  BY ZenonT(60) DEF AddInput, DerivedState
<1> QED BY <1>1, <1>2, SMT DEF Agrees

LEMMA AddTurnAgrees ==
  ASSUME NEW d \in DerivedState, NEW e \in DerivedState, Agrees(d, e), NEW n, NEW compaction \in BOOLEAN
  PROVE  Agrees(AddTurn(d, n, compaction), AddTurn(e, n, compaction))
<1> DEFINE No == FALSE
           Turns(turns) == IF compaction THEN turns \cup {n} ELSE turns \ {n}
           Refills(refills, asked, since) ==
             IF ~compaction THEN refills
             ELSE IF ~asked /\ since >= 0 /\ since < RapidRefillTurns THEN refills + 1 ELSE 0
           Waits(waits) == StopWaits(waits, compaction)
<1>1. ASSUME NEW x \in DerivedState
      PROVE  LET y == AddTurn(x, n, compaction) IN
             /\ y.turn = n /\ y.calls = x.calls
             /\ y.compactionTurns = Turns(x.compactionTurns)
             /\ y.refills = Refills(x.refills, x.asked, x.since)
             /\ y.available = x.available
             /\ y.delivered = x.delivered /\ y.turnInputs = x.available
             /\ y.compacted = x.compacted /\ y.since = x.since /\ y.reminded = x.reminded
             /\ y.failed = x.failed 
             /\ y.history.verifications = x.history.verifications
             /\ y.history.work = x.history.work
             /\ y.history.stopped = Waits(x.history.stopped)
             /\ y.asked = No
  BY ZenonT(60) DEF AddTurn, DerivedState, RefilledRapidly
<1> HIDE DEF No, Turns, Refills, Waits
<1> QED BY <1>1, SMT DEF Agrees

LEMMA AddSummaryAgrees ==
  ASSUME NEW d \in DerivedState, NEW e \in DerivedState, Agrees(d, e), NEW n, NEW compacted \in BOOLEAN
  PROVE  Agrees(AddSummary(d, n, compacted), AddSummary(e, n, compacted))
<1> DEFINE Yes == TRUE
           Since(since) == IF compacted THEN 0 ELSE since
           Reminded(reminded) == reminded /\ ~compacted
           Failed(failed) == IF compacted THEN 0 ELSE failed + 1
<1>1. ASSUME NEW x \in DerivedState, n = x.turn
      PROVE  LET y == AddSummary(x, n, compacted) IN
             /\ y.turn = x.turn /\ y.calls = x.calls /\ y.compactionTurns = x.compactionTurns
             /\ y.refills = x.refills /\ y.available = x.available
             /\ y.delivered = x.delivered /\ y.turnInputs = x.turnInputs
             /\ y.compacted = Yes /\ y.since = Since(x.since)
             /\ y.reminded = Reminded(x.reminded)
             /\ y.failed = Failed(x.failed)
             /\ y.history = x.history /\ y.asked = x.asked
  BY <1>1, ZenonT(60) DEF AddSummary, DerivedState
<1> HIDE DEF Yes, Since, Reminded, Failed
<1>2. CASE n = d.turn
  BY <1>1, <1>2, SMT DEF Agrees
<1>3. CASE n # d.turn
  BY <1>3, Zenon DEF Agrees, AddSummary
<1> QED BY <1>2, <1>3

LEMMA AddAnswerAgrees ==
  ASSUME NEW d \in DerivedState, NEW e \in DerivedState, Agrees(d, e), NEW n, NEW calls
  PROVE  Agrees(AddAnswer(d, n, calls), AddAnswer(e, n, calls))
<1> DEFINE No == FALSE
           Asked(cs) == [c \in Calls |-> IF c \in calls THEN "asked" ELSE cs[c]]
           Works(work) == work \/ calls # {}
<1>1. ASSUME NEW x \in DerivedState
      PROVE  LET y == AddAnswer(x, n, calls) IN
             /\ y.turn = x.turn /\ y.compactionTurns = x.compactionTurns
             /\ y.calls = Asked(x.calls)
             /\ y.refills = x.refills /\ y.available = x.available
             /\ y.delivered = (IF n = x.turn THEN x.turnInputs ELSE x.delivered)
             /\ y.turnInputs = x.turnInputs
             /\ y.compacted = No /\ y.since = (IF x.since >= 0 THEN x.since + 1 ELSE x.since)
             /\ y.reminded = x.reminded /\ y.failed = x.failed /\ y.asked = x.asked
             /\ y.history.verifications = x.history.verifications
             /\ y.history.stopped = x.history.stopped
             /\ y.history.work = Works(x.history.work)
  BY ZenonT(60) DEF AddAnswer, DerivedState
<1> HIDE DEF No, Asked, Works
<1> QED BY <1>1, SMT DEF Agrees

LEMMA AddStatusAgrees ==
  ASSUME NEW d \in DerivedState, NEW e \in DerivedState, Agrees(d, e), NEW o, NEW status
  PROVE  Agrees(AddStatus(d, o, status), AddStatus(e, o, status))
<1> DEFINE Answered(calls, open) ==
             IF o \notin open THEN calls
             ELSE [calls EXCEPT ![o] = IF status \in Unfinished THEN "waiting" ELSE "done"]
<1>1. ASSUME NEW x \in DerivedState
      PROVE  LET y == AddStatus(x, o, status)
             IN
             /\ y.turn = x.turn /\ y.compactionTurns = x.compactionTurns
             /\ y.calls = Answered(x.calls, OpenCalls(x))
             /\ y.available = (IF o \in OpenCalls(x) /\ status \notin Unfinished
                               THEN x.available + 1 ELSE x.available)
             /\ y.refills = x.refills /\ y.delivered = x.delivered
             /\ y.turnInputs = x.turnInputs
             /\ y.compacted = x.compacted /\ y.since = x.since
             /\ y.reminded = x.reminded /\ y.failed = x.failed /\ y.asked = x.asked
             /\ y.history = x.history
  BY ZenonT(60) DEF AddStatus, DerivedState
<1> HIDE DEF Answered
<1>2. OpenCalls(d) = OpenCalls(e)
  BY Zenon DEF OpenCalls, Agrees
<1> QED BY <1>1, <1>2, SMT DEF Agrees

LEMMA AddForkAgrees ==
  ASSUME NEW d \in DerivedState, NEW e \in DerivedState, Agrees(d, e)
  PROVE  Agrees(AddFork(d), AddFork(e))
<1> DEFINE Forked(calls) == [c \in Calls |-> IF calls[c] = "none" THEN "none" ELSE "done"]
<1>1. ASSUME NEW x \in DerivedState
      PROVE  LET y == AddFork(x) IN
             /\ y.turn = x.turn /\ y.compactionTurns = x.compactionTurns
             /\ y.calls = Forked(x.calls)
             /\ y.available = x.available
             /\ y.refills = x.refills /\ y.delivered = x.delivered
             /\ y.turnInputs = x.turnInputs
             /\ y.compacted = x.compacted /\ y.since = x.since
             /\ y.reminded = x.reminded /\ y.failed = x.failed /\ y.asked = x.asked
             /\ y.history = x.history
  BY ZenonT(60) DEF AddFork, DerivedState
<1> HIDE DEF Forked
<1> QED BY <1>1, SMT DEF Agrees

\* An item does the same to states that agree.
LEMMA AddItemAgrees ==
  ASSUME NEW d \in DerivedState, NEW e \in DerivedState, Agrees(d, e), NEW item \in Items
  PROVE  Agrees(AddItem(d, item), AddItem(e, item))
<1>1. d.compactionTurns = e.compactionTurns /\ (item.ending = "summary") \in BOOLEAN
  BY Zenon DEF Agrees
<1>2. CASE item.kind = "response"
  BY <1>1, <1>2, AddSummaryAgrees, AddAnswerAgrees, Zenon DEF AddItem
<1>3. CASE item.kind # "response"
  BY <1>3, ItemFields, AddInputAgrees, AddTurnAgrees, AddStatusAgrees, AddForkAgrees, Zenon
     DEF AddItem
<1> QED BY <1>2, <1>3

-----------------------------------------------------------------------------
(* The three values replay takes from history                               *)

FromHistory(d) ==
  /\ d.verifications = d.history.verifications
  /\ d.work = d.history.work
  /\ d.stopped = d.history.stopped

LEMMA AddItemFromHistory ==
  ASSUME NEW d \in DerivedState, FromHistory(d), NEW item \in Items
  PROVE  FromHistory(AddItem(d, item))
<1> USE DEF FromHistory
<1>1. CASE item.kind = "input"
  <2> DEFINE e == AddInput(d, item.id)
             Stopped(stopped) == stopped \/ item.id = "stop_hard"
  <2>1. /\ e.verifications = CountVerifications(d.verifications, item.id)
        /\ e.history.verifications = CountVerifications(d.history.verifications, item.id)
        /\ e.work = d.work /\ e.history.work = d.history.work
        /\ e.stopped = Stopped(d.stopped) /\ e.history.stopped = Stopped(d.history.stopped)
    BY ZenonT(60) DEF AddInput, DerivedState
  <2> HIDE DEF Stopped, e
  <2>2. FromHistory(e)
    BY <2>1, SMT
  <2> QED BY <1>1, <2>2 DEF AddItem, e
<1>2. CASE item.kind = "turn"
  <2> DEFINE e == AddTurn(d, item.turn, item.compaction)
             Waits(waits) == StopWaits(waits, item.compaction)
  <2>1. /\ e.verifications = d.verifications /\ e.history.verifications = d.history.verifications
        /\ e.work = d.work /\ e.history.work = d.history.work
        /\ e.stopped = Waits(d.stopped) /\ e.history.stopped = Waits(d.history.stopped)
    BY ZenonT(60) DEF AddTurn, DerivedState
  <2> HIDE DEF Waits, e
  <2>2. FromHistory(e)
    BY <2>1, SMT
  <2> QED BY <1>2, <2>2 DEF AddItem, e
<1>3. CASE item.kind = "response"
  <2>1. FromHistory(AddSummary(d, item.turn, item.ending = "summary"))
    <3> DEFINE compacted == item.ending = "summary"
               e == AddSummary(d, item.turn, compacted)
    <3>1. CASE item.turn = d.turn
      <4>1. /\ e.verifications = d.verifications /\ e.work = d.work /\ e.stopped = d.stopped
            /\ e.history = d.history
        BY <3>1, ZenonT(60) DEF AddSummary, DerivedState
      <4> HIDE DEF e
      <4>2. FromHistory(e)
        BY <4>1, SMT
      <4> QED BY <4>2 DEF e
    <3>2. CASE item.turn # d.turn
      BY <3>2, Zenon DEF AddSummary
    <3> QED BY <3>1, <3>2
  <2>2. FromHistory(AddAnswer(d, item.turn, item.calls))
    <3> DEFINE e == AddAnswer(d, item.turn, item.calls)
               Works(work) == work \/ item.calls # {}
    <3>1. /\ e.verifications = d.verifications
          /\ e.history.verifications = d.history.verifications
          /\ e.work = Works(d.work) /\ e.history.work = Works(d.history.work)
          /\ e.stopped = d.stopped /\ e.history.stopped = d.history.stopped
      BY ZenonT(60) DEF AddAnswer, DerivedState
    <3> HIDE DEF Works, e
    <3> QED BY <3>1, SMT DEF e
  <2> QED BY <1>3, <2>1, <2>2, Zenon DEF AddItem
<1>4. CASE item.kind = "status"
  <2> DEFINE e == AddStatus(d, item.op, item.status)
  <2>1. /\ e.verifications = d.verifications /\ e.work = d.work /\ e.stopped = d.stopped
        /\ e.history = d.history
    BY ZenonT(60) DEF AddStatus, DerivedState
  <2> HIDE DEF e
  <2>2. FromHistory(e)
    BY <2>1, SMT
  <2> QED BY <1>4, <2>2 DEF AddItem, e
<1>5. CASE item.kind = "fork"
  <2> DEFINE e == AddFork(d)
  <2>1. /\ e.verifications = d.verifications /\ e.work = d.work /\ e.stopped = d.stopped
        /\ e.history = d.history
    BY ZenonT(60) DEF AddFork, DerivedState
  <2> HIDE DEF e
  <2>2. FromHistory(e)
    BY <2>1, SMT
  <2> QED BY <1>5, <2>2 DEF AddItem, e
<1> QED BY <1>1, <1>2, <1>3, <1>4, <1>5, ItemFields

LEMMA ReplayFromHistory ==
  ASSUME NEW items \in Seq(Items), NEW n \in 0 .. Len(items)
  PROVE  FromHistory(Replay(items)[n])
<1> DEFINE S == {m \in Nat : m <= Len(items) => FromHistory(Replay(items)[m])}
<1>0. Len(items) \in Nat
  BY LenProperties
<1>1. 0 \in S
  <2>1. FromHistory(Blank)
    BY DEF FromHistory, Blank
  <2> QED BY <2>1, ReplaySteps
<1>2. ASSUME NEW m \in Nat, m \in S PROVE m + 1 \in S
  <2> SUFFICES ASSUME m + 1 <= Len(items) PROVE FromHistory(Replay(items)[m + 1])
    OBVIOUS
  <2>1. m + 1 \in 1 .. Len(items) /\ (m + 1) - 1 = m /\ m \in 0 .. Len(items)
    BY <1>0
  <2>2. FromHistory(Replay(items)[m]) /\ Replay(items)[m] \in DerivedState
    BY <1>2, <2>1, ReplayType
  <2>3. items[m + 1] \in Items
    BY <2>1, ElementOfSeq
  <2>4. Replay(items)[m + 1] = AddItem(Replay(items)[m], items[m + 1])
    BY <2>1, ReplaySteps
  <2> QED BY <2>2, <2>3, <2>4, AddItemFromHistory
<1> HIDE DEF S
<1>3. n \in S
  BY <1>0, <1>1, <1>2, NatSetInduction
<1> QED BY <1>0, <1>3 DEF S


-----------------------------------------------------------------------------
(* The invariant *)

\* A run that begins has done nothing yet; one that ended left nothing.
Fresh ==
  pc \in Down \cup {"replay"} =>
    /\ todo = <<>> /\ r = NewRun /\ updates = <<>>
    /\ mgr = [o \in Ops |-> "absent"]

\* Replay is at the state that the items up to pos lead to.
ReplayIsAt ==
  pc = "replay" =>
    /\ pos <= Len(log)
    /\ Agrees(h, Replay(log)[pos])
    /\ FromHistory(h)

\* The live loop is at the state that the whole log leads to.
LiveIsAt == Up /\ pc # "replay" => pos <= Len(log) /\ Agrees(h, Derived)

\* A checkpoint is the state that the items up to it lead to.
CheckpointIsAt ==
  \A c \in ckpt :
    /\ c.at <= Len(log)
    /\ Agrees(c.state, Replay(log)[c.at])
    /\ FromHistory(c.state)

RInv ==
  /\ TypeOK
  /\ Fresh
  /\ ReplayIsAt
  /\ LiveIsAt
  /\ CheckpointIsAt

Loop == Labels \ (Down \cup {"replay"})

LEMMA AgreesRefl == \A d : Agrees(d, d)
BY DEF Agrees

LEMMA AgreesTrans == \A d, e, f : Agrees(d, e) /\ Agrees(e, f) => Agrees(d, f)
BY DEF Agrees

LEMMA LogReplay ==
  ASSUME TypeOK
  PROVE  /\ log \in Seq(Items) /\ Len(log) \in Nat /\ pos \in Nat
         /\ h \in DerivedState /\ Derived \in DerivedState
         /\ \A n \in 0 .. Len(log) : Replay(log)[n] \in DerivedState
BY LenProperties, ReplayType DEF TypeOK, Derived

-----------------------------------------------------------------------------
(* Kinds of steps *)

\* The loop goes on, with nothing recorded, and a state that agrees.
LEMMA LoopStepAgrees ==
  ASSUME RInv, TypeOK', pc \in Loop, pc' \in Loop, UNCHANGED <<log, ckpt, pos>>, Agrees(h', h)
  PROVE  RInv'
<1> USE DEF RInv
<1>1. Derived' = Derived
  BY DEF Derived
<1>2. Fresh' /\ ReplayIsAt'
  BY DEF Fresh, ReplayIsAt, Loop, Down
<1>3. LiveIsAt'
  BY <1>1, AgreesTrans DEF LiveIsAt, Loop, Up
<1>4. CheckpointIsAt'
  BY DEF CheckpointIsAt
<1> QED BY <1>2, <1>3, <1>4

\* An item is recorded.
LEMMA RecordStepAgrees ==
  ASSUME RInv, TypeOK', pc \in Loop, pc' \in Loop, UNCHANGED <<ckpt, pos>>,
         NEW item \in Items, log' = Append(log, item), Agrees(h', AddItem(h, item))
  PROVE  RInv'
<1> USE DEF RInv
<1>1. /\ Len(log') = Len(log) + 1 /\ Len(log) \in Nat
      /\ Derived' = AddItem(Derived, item)
      /\ \A n \in 0 .. Len(log) : Replay(log')[n] = Replay(log)[n]
  BY LogReplay, ReplayAppend DEF Derived
<1>2. Fresh' /\ ReplayIsAt'
  BY DEF Fresh, ReplayIsAt, Loop, Down
<1>3. LiveIsAt'
  <2>1. Agrees(h, Derived) /\ pos <= Len(log)
    BY DEF LiveIsAt, Loop, Up
  <2>2. Agrees(AddItem(h, item), AddItem(Derived, item))
    BY <2>1, LogReplay, AddItemAgrees
  <2>3. pos <= Len(log')
    BY <1>1, <2>1, LogReplay
  <2> QED BY <1>1, <2>2, <2>3, AgreesTrans DEF LiveIsAt
<1>4. CheckpointIsAt'
  <2> SUFFICES ASSUME NEW c \in ckpt
               PROVE  /\ c.at <= Len(log')
                      /\ Agrees(c.state, Replay(log')[c.at])
                      /\ FromHistory(c.state)
    BY DEF CheckpointIsAt
  <2>1. c.at \in 0 .. Len(log)
    <3>1. c.at \in Nat /\ c.at <= Len(log)
      BY DEF TypeOK, Checkpoints, CheckpointIsAt
    <3> QED BY <1>1, <3>1
  <2> QED BY <1>1, <2>1 DEF CheckpointIsAt
<1> QED BY <1>2, <1>3, <1>4

\* Only what is outside the coordinator changes.
LEMMA OutsideStepAgrees ==
  ASSUME RInv, TypeOK', UNCHANGED <<log, ckpt, pc, pos, h, r, todo>>,
         pc \in Down \cup {"replay"} => UNCHANGED manager
  PROVE  RInv'
<1>1. Derived' = Derived
  BY DEF Derived
<1> QED
  BY <1>1 DEF RInv, Fresh, ReplayIsAt, LiveIsAt, CheckpointIsAt, Up, manager

LEMMA ExitAgrees ==
  ASSUME RInv, TypeOK', NEW how \in Down, Exit(how)
  PROVE  RInv'
<1>1. pc' \in Down /\ UNCHANGED durable
  BY DEF Exit
<1>2. Fresh'
  BY DEF Exit, Fresh
<1>3. ReplayIsAt' /\ LiveIsAt'
  BY <1>1 DEF ReplayIsAt, LiveIsAt, Up, Down
<1>4. CheckpointIsAt'
  BY <1>1 DEF RInv, CheckpointIsAt, durable
<1> QED BY <1>2, <1>3, <1>4 DEF RInv

-----------------------------------------------------------------------------
(* The actions, by kind *)

\* The loop goes on; neither the log, the store nor the manager changes.
QuietStep ==
  /\ pc \in Loop /\ pc' \in Loop
  /\ UNCHANGED <<durable, pos, manager>>
  /\ Agrees(h', h) /\ h'.ops = h.ops

LEMMA QuietSteps ==
  ASSUME TypeOK,
         \/ ScheduledAll \/ ReconciledAll \/ InputsSlurped \/ UpdatesSlurped \/ TakeInput
         \/ Timers \/ DropResult \/ QuotaRefuses \/ SummaryOverflows
         \/ CountTurn \/ AnswerStands \/ AnswerCut \/ AnswerRefused \/ AnswerWhole
         \/ ProcessDue \/ Decide \/ DropCompaction \/ TellFirst
  PROVE  QuietStep
<1> USE DEF At, Loop, Labels, Down, QuietStep
<1>0. Agrees(h, h)
  BY AgreesRefl
<1>1. CASE ScheduledAll \/ ReconciledAll \/ InputsSlurped \/ UpdatesSlurped \/ TakeInput
  BY <1>0, <1>1 DEF ScheduledAll, ReconciledAll, InputsSlurped, UpdatesSlurped, TakeInput
<1>2. CASE Timers
  BY <1>0, <1>2 DEF Timers, DeadlinePasses, ReportDue, QuotaLifts, GraceEnds, ToolWaitEnds,
                    PostHeartbeat
<1>3. CASE DropResult \/ QuotaRefuses \/ SummaryOverflows
  BY <1>0, <1>3 DEF DropResult, QuotaRefuses, SummaryOverflows
<1>4. CASE CountTurn \/ AnswerStands \/ AnswerCut \/ AnswerRefused \/ AnswerWhole
  BY <1>0, <1>4 DEF CountTurn, AnswerStands, AnswerCut, AnswerRefused, AnswerWhole, Recovers
<1>5. CASE ProcessDue \/ Decide \/ DropCompaction
  BY <1>0, <1>5 DEF ProcessDue, Decide, DropCompaction
<1>6. CASE TellFirst
  <2>1. h' = [h EXCEPT !.stopped = FALSE] /\ h \in DerivedState
    BY <1>6 DEF TellFirst, TypeOK
  <2>2. Agrees(h', h) /\ h'.ops = h.ops
    BY <2>1, ZenonT(60) DEF Agrees, DerivedState
  <2> QED BY <1>6, <2>2 DEF TellFirst
<1> QED BY <1>1, <1>2, <1>3, <1>4, <1>5, <1>6

\* An input, a turn or a response is recorded; a response asks for calls that
\* were not made before.
MessageStep(item) ==
  /\ pc \in Loop /\ pc' \in Loop
  /\ UNCHANGED <<saved, ckpt, pos, manager>>
  /\ log' = Append(log, item) /\ h' = AddItem(h, item)
  /\ item.kind \in {"input", "turn", "response"}
  /\ item.kind = "response" =>
       /\ \A c \in item.calls : h.calls[c] = "none"
       /\ pc' # pc /\ (pc' = "schedule" \/ item.calls = {})
  /\ pc' = pc \/ (pc # "schedule" /\ pc' \notin {"due", "decide"})

LEMMA MessageSteps ==
  ASSUME TypeOK, Fresh,
         \/ RecordInput \/ AnswerArrives \/ SummaryArrives \/ AnswerOverflows
         \/ BeginCompaction \/ BeginTurn
  PROVE  \E item \in Items : MessageStep(item)
<1> USE DEF At, Loop, Labels, Down
<1>1. h.turn + 1 \in Nat
  <2>1. h.turn \in Nat
    BY Zenon DEF TypeOK, DerivedState
  <2> QED BY <2>1
<1>2. CASE RecordInput
  <2>1. Head(todo) \in Inputs
    BY <1>2, HeadTailProperties DEF RecordInput, TypeOK
  <2>2. pc \in Loop /\ pc' = pc
    BY <1>2 DEF RecordInput, TypeOK, Fresh
  <2>3. InputItem(Head(todo)).kind = "input"
    BY DEF InputItem
  <2> QED BY <1>2, <2>1, <2>2, <2>3, ItemTypes DEF RecordInput, Record, MessageStep
<1>3. CASE AnswerArrives
  <2> PICK n \in flying, calls \in SUBSET {c \in Calls : h.calls[c] = "none"},
           ending \in {"whole", "empty", "cut", "refused", "failed"} :
             Record(ResponseItem(n, calls, ending))
    BY <1>3, Zenon DEF AnswerArrives
  <2>1. n \in Nat /\ calls \in SUBSET Calls /\ ending \in Endings
    BY DEF TypeOK, Endings
  <2>2. /\ ResponseItem(n, calls, ending).kind = "response"
        /\ ResponseItem(n, calls, ending).calls = calls
    BY DEF ResponseItem
  <2> QED BY <1>3, <2>1, <2>2, ItemTypes DEF AnswerArrives, Record, MessageStep
<1>4. CASE SummaryArrives
  <2> PICK n \in flying, ending \in {"summary", "nosummary"} : Record(ResponseItem(n, {}, ending))
    BY <1>4, Zenon DEF SummaryArrives
  <2>1. n \in Nat /\ {} \in SUBSET Calls /\ ending \in Endings
    BY DEF TypeOK, Endings
  <2>2. /\ ResponseItem(n, {}, ending).kind = "response"
        /\ ResponseItem(n, {}, ending).calls = {}
    BY DEF ResponseItem
  <2> QED BY <1>4, <2>1, <2>2, ItemTypes DEF SummaryArrives, Record, MessageStep
<1>5. CASE AnswerOverflows \/ BeginCompaction \/ BeginTurn
  <2>1. \A compaction \in BOOLEAN : TurnItem(h.turn + 1, compaction) \in Items
                                    /\ TurnItem(h.turn + 1, compaction).kind = "turn"
    BY <1>1, ItemTypes DEF TurnItem
  <2> QED BY <1>5, <2>1 DEF AnswerOverflows, BeginCompaction, BeginTurn, Record, MessageStep
<1> QED BY <1>2, <1>3, <1>4, <1>5

\* A status is recorded.
StatusStep(item) ==
  /\ pc \in Loop /\ pc' \in Loop
  /\ UNCHANGED <<ckpt, pos, manager>>
  /\ log' = Append(log, item)
  /\ Agrees(h', AddItem(h, item)) /\ h'.ops = AddItem(h, item).ops

LEMMA ScheduleSteps ==
  ASSUME TypeOK, ScheduleToolCall
  PROVE  \E c \in Calls, status \in {"ready", "none"} :
           /\ StatusItem(c, status) \in Items /\ StatusStep(StatusItem(c, status))
           /\ h.calls[c] = "asked" /\ Store(c, status) /\ pc = "schedule" /\ pc' = "schedule"
<1> PICK c \in Calls, status \in {"ready", "none"} :
      h.calls[c] = "asked" /\ Record(StatusItem(c, status)) /\ Store(c, status)
  BY Zenon DEF ScheduleToolCall
<1>1. StatusItem(c, status) \in Items
  BY ItemTypes DEF Ops, Statuses, Unfinished
<1>2. StatusStep(StatusItem(c, status)) /\ pc = "schedule" /\ pc' = "schedule"
  BY AgreesRefl DEF ScheduleToolCall, Record, StatusStep, At, Loop, Labels, Down
<1> QED BY <1>1, <1>2

LEMMA ReconcileSteps ==
  ASSUME TypeOK, ReconcileToolCall
  PROVE  \E c \in FinishedCalls :
           /\ StatusItem(c, h.ops[c]) \in Items /\ StatusStep(StatusItem(c, h.ops[c]))
           /\ UNCHANGED saved /\ pc = "reconcile" /\ pc' = "reconcile"
<1> PICK c \in FinishedCalls : Record(StatusItem(c, h.ops[c]))
  BY Zenon DEF ReconcileToolCall
<1>1. StatusItem(c, h.ops[c]) \in Items
  BY ItemTypes DEF FinishedCalls, Ops, Statuses
<1>2. /\ StatusStep(StatusItem(c, h.ops[c]))
      /\ UNCHANGED saved /\ pc = "reconcile" /\ pc' = "reconcile"
  BY AgreesRefl DEF ReconcileToolCall, Record, StatusStep, At, Loop, Labels, Down
<1> QED BY <1>1, <1>2

LEMMA VerifySteps ==
  ASSUME TypeOK, Verify
  PROVE  \E k \in UnusedChecks :
           /\ StatusItem(k, "ready") \in Items /\ StatusStep(StatusItem(k, "ready"))
           /\ Store(k, "ready") /\ pc = "verify" /\ pc' = "dispatch"
<1> PICK k \in UnusedChecks :
      /\ log' = Append(log, StatusItem(k, "ready"))
      /\ h' = [AddItem(h, StatusItem(k, "ready")) EXCEPT !.work = FALSE]
      /\ Store(k, "ready")
  BY Zenon DEF Verify
<1> DEFINE added == AddItem(h, StatusItem(k, "ready"))
<1>1. k \in Ops /\ StatusItem(k, "ready") \in Items /\ added \in DerivedState
  <2>1. k \in Ops /\ StatusItem(k, "ready") \in Items
    BY ItemTypes DEF UnusedChecks, Ops, Statuses, Unfinished
  <2> QED BY <2>1, AddItemType DEF TypeOK
<1> HIDE DEF added
<1>2. Agrees(h', added) /\ h'.ops = added.ops
  <2>1. h' = [added EXCEPT !.work = FALSE]
    BY DEF added
  <2> QED BY <1>1, <2>1, ZenonT(60) DEF Agrees, DerivedState
<1>3. StatusStep(StatusItem(k, "ready")) /\ pc = "verify" /\ pc' = "dispatch"
  BY <1>2 DEF Verify, StatusStep, At, Loop, Labels, Down, added
<1> QED BY <1>1, <1>3

\* The store and the live state take an update.
LEMMA UpdateSteps ==
  ASSUME TypeOK, TakeUpdate
  PROVE  LET u == Head(updates) IN
           /\ pc \in {"select", "updates"} /\ pc' \in {"inputs", "updates"}
           /\ updates # <<>> /\ u \in [op : Ops, status : Statuses]
           /\ updates' = Tail(updates)
           /\ saved' = [saved EXCEPT ![u.op] = u.status]
           /\ h'.ops = [h.ops EXCEPT ![u.op] = u.status]
           /\ Agrees(h', h) /\ UNCHANGED <<log, ckpt, pos, mgr>>
<1> DEFINE u == Head(updates)
<1>1. updates # <<>> /\ u \in [op : Ops, status : Statuses]
  BY HeadTailProperties DEF TakeUpdate, TypeOK
<1> DEFINE verified == Verifies /\ u.op = r.verifying /\ u.status \in Terminal
           n == IF verified THEN h.verifications + 1 ELSE h.verifications
           ops == [h.ops EXCEPT ![u.op] = u.status]
           h1 == [h EXCEPT !.ops = ops]
<1>2. h' = [h1 EXCEPT !.verifications = n]
  <2>1. h' = [h EXCEPT !.ops[u.op] = u.status, !.verifications = n]
    BY Zenon DEF TakeUpdate
  <2> QED BY <2>1, ZenonT(60) DEF TypeOK, DerivedState
<1> HIDE DEF verified, n, ops
<1>3. h'.ops = ops /\ Agrees(h', h)
  BY <1>2, ZenonT(60) DEF TypeOK, DerivedState, Agrees
<1> HIDE DEF u
<1>4. /\ pc \in {"select", "updates"} /\ pc' \in {"inputs", "updates"}
      /\ updates' = Tail(updates) /\ saved' = [saved EXCEPT ![u.op] = u.status]
      /\ UNCHANGED <<log, ckpt, pos, mgr>>
  BY DEF TakeUpdate, At, u
<1> QED BY <1>1, <1>3, <1>4 DEF u, ops

-----------------------------------------------------------------------------
(* The actions                                                              *)

LEMMA QuietAgrees ==
  ASSUME RInv, TypeOK',
         \/ ScheduledAll \/ ReconciledAll \/ InputsSlurped \/ UpdatesSlurped \/ TakeInput
         \/ Timers \/ DropResult \/ QuotaRefuses \/ SummaryOverflows
         \/ CountTurn \/ AnswerStands \/ AnswerCut \/ AnswerRefused \/ AnswerWhole
         \/ ProcessDue \/ Decide \/ DropCompaction \/ TellFirst
  PROVE  RInv'
<1>1. QuietStep
  BY QuietSteps, Zenon DEF RInv
<1> QED BY <1>1, LoopStepAgrees DEF QuietStep, durable

LEMMA MessageAgrees ==
  ASSUME RInv, TypeOK',
         \/ RecordInput \/ AnswerArrives \/ SummaryArrives \/ AnswerOverflows
         \/ BeginCompaction \/ BeginTurn
  PROVE  RInv'
<1> PICK item \in Items : MessageStep(item)
  BY MessageSteps, Zenon DEF RInv
<1> QED BY RecordStepAgrees, AgreesRefl DEF MessageStep

LEMMA StatusAgrees ==
  ASSUME RInv, TypeOK', ScheduleToolCall \/ ReconcileToolCall \/ Verify
  PROVE  RInv'
<1>1. \E item \in Items : StatusStep(item)
  <2>1. CASE ScheduleToolCall
    BY <2>1, ScheduleSteps, Zenon DEF RInv
  <2>2. CASE ReconcileToolCall
    BY <2>2, ReconcileSteps, Zenon DEF RInv
  <2>3. CASE Verify
    BY <2>3, VerifySteps, Zenon DEF RInv
  <2> QED BY <2>1, <2>2, <2>3
<1> PICK item \in Items : StatusStep(item)
  BY <1>1
<1> QED BY RecordStepAgrees DEF StatusStep

\* The loop works with the manager.
LEMMA ManagerAgrees ==
  ASSUME RInv, TypeOK', StartLoop \/ DispatchCalls \/ CancelOperations \/ TakeUpdate
  PROVE  RInv'
<1>1. /\ pc \in Loop /\ pc' \in Loop /\ UNCHANGED <<log, ckpt, pos>> /\ Agrees(h', h)
  <2>1. CASE StartLoop \/ DispatchCalls \/ CancelOperations
    BY <2>1, AgreesRefl DEF StartLoop, DispatchCalls, CancelOperations, At, Loop, Labels, Down,
                            durable
  <2>2. CASE TakeUpdate
    BY <2>2, UpdateSteps DEF RInv, Loop, Labels, Down
  <2> QED BY <2>1, <2>2
<1> QED BY <1>1, LoopStepAgrees

LEMMA EnvironmentAgrees ==
  ASSUME RInv, TypeOK', Submit \/ OperationAwaits \/ (\E o \in Ops : OperationEnds(o))
  PROVE  RInv'
<1>1. UNCHANGED <<log, ckpt, pc, pos, h, r, todo>>
  BY DEF Submit, OperationAwaits, OperationEnds, durable
<1>2. ASSUME pc \in Down \cup {"replay"} PROVE UNCHANGED manager
  <2>1. \A o \in Ops : mgr[o] = "absent"
    BY <1>2 DEF RInv, Fresh
  <2>2. CASE Submit
    BY <2>2 DEF Submit
  <2>3. CASE OperationAwaits \/ (\E o \in Ops : OperationEnds(o))
    BY <2>1, <2>3 DEF OperationAwaits, OperationEnds
  <2> QED BY <2>2, <2>3
<1> QED BY <1>1, <1>2, OutsideStepAgrees

LEMMA EndingAgrees ==
  ASSUME RInv, TypeOK',
         Crash \/ RequestFails \/ AnswerFailed \/ AwaitCancellation \/ StopWhenIdle
  PROVE  RInv'
<1>1. CASE \E how \in Down : Exit(how)
  BY <1>1, ExitAgrees
<1>2. CASE ~ \E how \in Down : Exit(how)
  <2>1. \A how \in {"crashed", "failed", "stopped", "idle"} : ~Exit(how)
    BY <1>2 DEF Down
  <2>2. CASE AnswerFailed \/ AwaitCancellation \/ StopWhenIdle
    <3>1. pc \in Loop /\ pc' \in Loop /\ UNCHANGED <<log, ckpt, pos, h>>
      BY <2>1, <2>2 DEF AnswerFailed, AwaitCancellation, StopWhenIdle, Recovers, At, Loop,
                        Labels, Down, durable
    <3> QED BY <3>1, LoopStepAgrees, AgreesRefl
  <2>3. CASE Crash \/ RequestFails
    BY <2>1, <2>3 DEF Crash, RequestFails
  <2> QED BY <2>2, <2>3
<1> QED BY <1>1, <1>2

\* What a checkpoint keeps agrees with the state it is taken of, and has what
\* replay would give.
LEMMA SnapshotAgrees ==
  ASSUME NEW d \in DerivedState
  PROVE  Agrees(Snapshot(d), d) /\ FromHistory(Snapshot(d))
<1> DEFINE ops == [o \in Ops |-> IF o \in OpenCalls(d) \/ d.ops[o] \in Unfinished
                                 THEN d.ops[o] ELSE "none"]
<1>1. Snapshot(d) = [d EXCEPT !.verifications = d.history.verifications,
                              !.work = d.history.work,
                              !.stopped = d.history.stopped,
                              !.ops = ops]
  BY Zenon DEF Snapshot, DerivedState
<1> HIDE DEF ops
<1>2. Agrees(Snapshot(d), d)
  BY <1>1, ZenonT(60) DEF DerivedState, Agrees
<1>3. /\ Snapshot(d).verifications = d.history.verifications
      /\ Snapshot(d).work = d.history.work
      /\ Snapshot(d).stopped = d.history.stopped
      /\ Snapshot(d).history = d.history
  BY <1>1, ZenonT(60) DEF DerivedState
<1> QED BY <1>2, <1>3, Zenon DEF FromHistory

LEMMA SaveCheckpointAgrees == RInv /\ TypeOK' /\ SaveCheckpoint => RInv'
<1> SUFFICES ASSUME RInv, TypeOK', SaveCheckpoint PROVE RInv'
  OBVIOUS
<1> USE DEF RInv
<1>1. pc \in Loop /\ pc' \in Loop /\ UNCHANGED <<log, pos, h>>
  BY DEF SaveCheckpoint, At, Loop, Labels, Down
<1>2. Derived' = Derived
  BY <1>1 DEF Derived
<1>3. Fresh' /\ ReplayIsAt' /\ LiveIsAt'
  BY <1>1, <1>2 DEF Fresh, ReplayIsAt, LiveIsAt, Loop, Up
<1>4. CheckpointIsAt'
  <2>1. ckpt' = ckpt \/ ckpt' = {[at |-> Len(log), state |-> Snapshot(h)]}
    BY Zenon DEF SaveCheckpoint
  <2>2. CASE ckpt' = ckpt
    BY <1>1, <2>2 DEF CheckpointIsAt
  <2>3. CASE ckpt' = {[at |-> Len(log), state |-> Snapshot(h)]}
    <3>1. Agrees(h, Derived)
      BY <1>1 DEF LiveIsAt, Loop, Up
    <3>2. Agrees(Snapshot(h), Derived) /\ FromHistory(Snapshot(h))
      BY <3>1, LogReplay, SnapshotAgrees, AgreesTrans
    <3>3. Len(log) <= Len(log)
      BY LogReplay
    <3> QED BY <1>1, <2>3, <3>2, <3>3 DEF CheckpointIsAt, Derived
  <2> QED BY <2>1, <2>2, <2>3
<1> QED BY <1>3, <1>4

LEMMA StartAgrees == RInv /\ TypeOK' /\ Start => RInv'
<1> SUFFICES ASSUME RInv, TypeOK', Start PROVE RInv'
  OBVIOUS
<1> USE DEF RInv
<1>1. /\ pc \in Down /\ pc' = "replay" /\ UNCHANGED <<log, ckpt, r, todo, mgr, updates>>
  BY DEF Start, Up, durable, manager
<1>2. Fresh' /\ LiveIsAt' /\ CheckpointIsAt'
  BY <1>1 DEF Fresh, LiveIsAt, CheckpointIsAt
<1>3. /\ pos' <= Len(log) /\ Agrees(h', Replay(log)[pos']) /\ FromHistory(h')
  <2>1. CASE pos' = 0 /\ h' = Blank
    <3>1. FromHistory(Blank)
      BY DEF FromHistory, Blank
    <3>2. Replay(log)[0] = Blank /\ 0 <= Len(log)
      BY LogReplay, ReplaySteps
    <3> QED BY <2>1, <3>1, <3>2, AgreesRefl
  <2>2. CASE \E c \in ckpt : pos' = c.at /\ h' = c.state
    BY <2>2 DEF CheckpointIsAt
  <2> QED BY <2>1, <2>2 DEF Start
<1>4. ReplayIsAt'
  BY <1>1, <1>3 DEF ReplayIsAt
<1> QED BY <1>2, <1>4

LEMMA ReplayItemAgrees == RInv /\ TypeOK' /\ ReplayItem => RInv'
<1> SUFFICES ASSUME RInv, TypeOK', ReplayItem PROVE RInv'
  OBVIOUS
<1> USE DEF RInv
<1>1. /\ pc = "replay" /\ pc' = "replay" /\ UNCHANGED <<log, ckpt, r, todo, mgr, updates>>
      /\ pos < Len(log) /\ pos' = pos + 1 /\ h' = AddItem(h, log[pos + 1])
  BY DEF ReplayItem, durable, manager
<1>2. Fresh' /\ LiveIsAt' /\ CheckpointIsAt'
  BY <1>1 DEF Fresh, LiveIsAt, CheckpointIsAt, Down
<1>3. /\ pos + 1 \in 1 .. Len(log) /\ (pos + 1) - 1 = pos /\ pos \in 0 .. Len(log)
      /\ pos' <= Len(log)
  BY <1>1, LogReplay
<1>4. log[pos + 1] \in Items
  BY <1>3, LogReplay, ElementOfSeq
<1>5. Replay(log)[pos + 1] = AddItem(Replay(log)[pos], log[pos + 1])
  BY <1>3, LogReplay, ReplaySteps
<1>6. Agrees(h, Replay(log)[pos]) /\ FromHistory(h)
  BY <1>1 DEF ReplayIsAt
<1>7. Agrees(h', Replay(log)[pos']) /\ FromHistory(h')
  BY <1>1, <1>3, <1>4, <1>5, <1>6, LogReplay, AddItemAgrees, AddItemFromHistory
<1>8. ReplayIsAt'
  BY <1>1, <1>3, <1>7 DEF ReplayIsAt
<1> QED BY <1>2, <1>8

\* Restoring operations changes nothing else.
LEMMA RestoreOperationsAgrees ==
  ASSUME NEW d \in DerivedState
  PROVE  /\ Agrees(RestoreOperations(d), d)
         /\ RestoreOperations(d).ops = [o \in Ops |-> IF Restorable(o) THEN saved[o] ELSE d.ops[o]]
         /\ RestoreOperations(d).verifications = d.verifications
         /\ RestoreOperations(d).work = d.work /\ RestoreOperations(d).stopped = d.stopped
<1> DEFINE ops == [o \in Ops |-> IF Restorable(o) THEN saved[o] ELSE d.ops[o]]
<1>1. RestoreOperations(d) = [d EXCEPT !.ops = ops]
  BY Zenon DEF RestoreOperations, DerivedState
<1> HIDE DEF ops
<1>2. Agrees(RestoreOperations(d), d)
  BY <1>1, ZenonT(60) DEF DerivedState, Agrees
<1>3. /\ RestoreOperations(d).ops = ops /\ RestoreOperations(d).verifications = d.verifications
      /\ RestoreOperations(d).work = d.work /\ RestoreOperations(d).stopped = d.stopped
  BY <1>1, ZenonT(60) DEF DerivedState
<1> QED BY <1>2, <1>3 DEF ops

LEMMA RestoreAgrees == RInv /\ TypeOK' /\ Restore => RInv'
<1> SUFFICES ASSUME RInv, TypeOK', Restore PROVE RInv'
  OBVIOUS
<1> USE DEF RInv
<1>1. /\ pc = "replay" /\ pc' = "schedule" /\ UNCHANGED <<log, ckpt, pos, todo, mgr, updates>>
      /\ pos = Len(log) /\ h' = RestoreOperations(h)
  BY DEF Restore, durable, manager
<1>2. Fresh' /\ ReplayIsAt' /\ CheckpointIsAt'
  BY <1>1 DEF Fresh, ReplayIsAt, CheckpointIsAt, Down
<1>3. Agrees(h, Derived)
  BY <1>1 DEF ReplayIsAt, Derived
<1>4. Agrees(h', Derived) /\ Derived' = Derived
  BY <1>1, <1>3, LogReplay, RestoreOperationsAgrees, AgreesTrans DEF Derived
<1>5. pos <= Len(log)
  BY <1>1, LogReplay
<1>6. LiveIsAt'
  BY <1>1, <1>4, <1>5 DEF LiveIsAt
<1> QED BY <1>2, <1>6

-----------------------------------------------------------------------------

LEMMA InitAgrees == Init => RInv
<1> SUFFICES ASSUME Init PROVE RInv
  OBVIOUS
<1>1. TypeOK
  BY InitTypes
<1> USE DEF Init
<1>2. Fresh /\ ReplayIsAt /\ LiveIsAt /\ CheckpointIsAt
  BY DEF Fresh, ReplayIsAt, LiveIsAt, CheckpointIsAt, Up, Down
<1> QED BY <1>1, <1>2 DEF RInv

LEMMA StepAgrees == RInv /\ [Next]_vars => RInv'
<1> SUFFICES ASSUME RInv, [Next]_vars PROVE RInv'
  OBVIOUS
<1>1. TypeOK'
  BY StepTypes DEF RInv
<1>2. CASE Start
  BY <1>1, <1>2, StartAgrees
<1>3. CASE Working
  BY <1>1, <1>3, ReplayItemAgrees, RestoreAgrees, MessageAgrees, StatusAgrees, QuietAgrees,
     ManagerAgrees, SaveCheckpointAgrees, EndingAgrees, Zenon
     DEF Working
<1>4. CASE Crash \/ TakeInput \/ TakeUpdate \/ Timers
  BY <1>1, <1>4, EndingAgrees, QuietAgrees, ManagerAgrees, Zenon
<1>5. CASE ModelResults
  BY <1>1, <1>5, QuietAgrees, MessageAgrees, EndingAgrees, Zenon DEF ModelResults
<1>6. CASE Submit \/ OperationAwaits \/ \E o \in Ops : OperationEnds(o)
  BY <1>1, <1>6, EnvironmentAgrees
<1>7. CASE UNCHANGED vars
  <2>1. UNCHANGED <<log, ckpt, pc, pos, h, r, todo, manager>>
    BY <1>7 DEF vars, durable
  <2> QED BY <1>1, <2>1, OutsideStepAgrees
<1> QED BY <1>2, <1>3, <1>4, <1>5, <1>6, <1>7 DEF Next

LEMMA ReplayAgrees == RInv => LiveIsReplay
<1> SUFFICES ASSUME RInv, Up, pc # "replay" PROVE Replayed(h) = Replayed(Derived)
  BY DEF LiveIsReplay
<1>1. Agrees(h, Derived)
  BY DEF RInv, LiveIsAt
<1> QED BY <1>1, LogReplay, AgreedIsReplayed DEF RInv

\* The live state is at every moment what a later run would derive from the
\* log, for every log and however often runs crashed and were restored, with a
\* checkpoint or without: no handler changes what it derives without the item
\* that says so (addItemToLocalState beside storeItemInSessionStore).
THEOREM LiveStateIsReplay == Spec => []LiveIsReplay
<1>1. Init => RInv
  BY InitAgrees
<1>2. RInv /\ [Next]_vars => RInv'
  BY StepAgrees
<1>3. RInv => LiveIsReplay
  BY ReplayAgrees
<1> QED BY <1>1, <1>2, <1>3, PTL DEF Spec
=============================================================================
