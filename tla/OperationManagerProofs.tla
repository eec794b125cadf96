----------------------- MODULE OperationManagerProofs -----------------------
(***************************************************************************)
(* The operation manager counts what it waits for, leaves no command       *)
(* behind, begins nothing again that is known to have begun, and keeps the *)
(* lifecycle of operations: for any operations of any types.               *)
(***************************************************************************)
EXTENDS OperationManagerChecks, FiniteSetTheorems, SequenceTheorems, TLAPS

(***************************************************************************)
(* Steps of an operation.                                                  *)
(***************************************************************************)
\* A checkpoint of an operation of this type: a shell operation that awaits
\* something is in one of its phases; one that is ready is in none, and other
\* operations have none.
Good(type, rec) ==
  /\ rec \in Checkpoints
  /\ (type = "shell" /\ rec.status = "awaiting") => rec.phase \in Phases
  /\ (type # "shell" \/ rec.status = "ready") => rec.phase = "none"

\* A step that ends its operation is saved and starts nothing; others start
\* something.
GoodStep(type, step) ==
  /\ step.saved \in BOOLEAN
  /\ Finished(step.rec) => step.saved
  /\ step.next \in {"none", "create", "read", "start"}
  /\ Good(type, step.rec)
  /\ Finished(step.rec) <=> step.next = "none"
  /\ (type = "shell" /\ ~Finished(step.rec)) => step.rec.status = "awaiting"
  /\ (type = "shell" /\ step.next = "start") => step.rec.phase = "process"

LEMMA EndIsGood ==
  ASSUME NEW type, NEW rec \in Checkpoints, NEW status \in Terminal
  PROVE  GoodStep(type, End(rec, status)) /\ Finished(End(rec, status).rec)
BY DEF GoodStep, Good, End, StepTo, Finished, Checkpoints, Statuses, Terminal

LEMMA AwaitIsGood ==
  ASSUME NEW type, NEW rec \in Checkpoints, NEW next \in {"create", "read", "start"},
         type = "shell" => /\ rec.phase \in Phases
                           /\ next = "start" => rec.phase = "process",
         type # "shell" => rec.phase = "none"
  PROVE  /\ GoodStep(type, Await(rec, next))
         /\ ~Finished(Await(rec, next).rec)
         /\ Await(rec, next).rec.phase = rec.phase
         /\ Await(rec, next).next = next
BY DEF GoodStep, Good, Await, StepTo, Finished, Checkpoints, Statuses, Terminal

LEMMA DispatchIsGood ==
  ASSUME NEW rec \in Checkpoints, NEW phase \in Phases
  PROVE  /\ GoodStep("shell", Dispatch(rec, phase))
         /\ ~Finished(Dispatch(rec, phase).rec)
         /\ Dispatch(rec, phase).rec.phase = phase
         /\ Dispatch(rec, phase).next = "start" => phase = "process"
<1> DEFINE moved == [rec EXCEPT !.phase = phase]
<1>1. moved \in Checkpoints /\ moved.phase = phase
  BY DEF Checkpoints
<1>2. /\ FirstStage(phase) \in {"create", "read", "start"}
      /\ FirstStage(phase) = "start" => phase = "process"
  BY DEF FirstStage, Phases, CreatePhases, ReadPhases
<1>3. Dispatch(rec, phase) = Await(moved, FirstStage(phase))
  BY DEF Dispatch
<1> HIDE DEF moved
<1> QED BY <1>1, <1>2, <1>3, AwaitIsGood

\* What is known to have begun is not begun when it is added again.
LEMMA FirstStepOfBegun ==
  ASSUME NEW type \in {"code", "edit", "shell"}, NEW rec \in Checkpoints,
         rec.status = "awaiting",
         type = "shell" => rec.phase \in {"process"} \cup ReadPhases
  PROVE  LET step == FirstStep(type, rec)
         IN  /\ step.next # "start"
             /\ Finished(step.rec) \/ (type = "shell" /\ step.rec.phase \in ReadPhases)
<1>1. Finished(End(rec, "failed").rec) /\ End(rec, "failed").next # "start"
  BY EndIsGood DEF End, StepTo, Terminal
<1>2. CASE type # "shell"
  <2>1. FirstStep(type, rec) = End(rec, "failed")
    BY <1>2 DEF FirstStep, AddOnce
  <2> QED BY <1>1, <2>1
<1>3. CASE type = "shell" /\ rec.phase = "process"
  <2>1. FirstStep(type, rec) = End(rec, "failed")
    BY <1>3 DEF FirstStep, AddShell
  <2> QED BY <1>1, <2>1
<1>4. CASE type = "shell" /\ rec.phase \in ReadPhases
  <2>1. rec.phase # "process" /\ rec.phase \in Phases
    BY <1>4 DEF ReadPhases, Phases
  <2>2. FirstStep(type, rec) = Dispatch(rec, rec.phase)
    BY <1>4, <2>1 DEF FirstStep, AddShell
  <2> QED BY <1>4, <2>1, <2>2, DispatchIsGood
<1> QED BY <1>2, <1>3, <1>4

LEMMA FirstStepIsGood ==
  ASSUME NEW type \in LocalTypes, NEW rec, Good(type, rec), ~Finished(rec)
  PROVE  GoodStep(type, FirstStep(type, rec))
<1>1. rec \in Checkpoints
  BY DEF Good
<1>2. CASE rec.status = "canceling"
  BY <1>1, <1>2, EndIsGood DEF FirstStep, Terminal
<1>3. CASE rec.status # "canceling" /\ type = "shell"
  <2>1. rec.status \in {"ready", "awaiting"}
    BY <1>1, <1>3 DEF Checkpoints, Statuses, Finished
  <2>2. FirstStep(type, rec) = AddShell(rec)
    BY <1>3 DEF FirstStep
  <2>3. CASE rec.status = "ready"
    BY <1>1, <1>3, <2>2, <2>3, DispatchIsGood DEF AddShell, Phases, CreatePhases
  <2>4. CASE rec.status = "awaiting" /\ rec.phase = "process"
    BY <1>1, <2>2, <2>4, EndIsGood DEF AddShell, Terminal
  <2>5. CASE rec.status = "awaiting" /\ rec.phase # "process"
    <3>1. rec.phase \in Phases
      BY <1>3, <2>5 DEF Good
    <3>2. AddShell(rec) = Dispatch(rec, rec.phase)
      BY <2>5 DEF AddShell
    <3> QED BY <1>1, <1>3, <2>2, <3>1, <3>2, DispatchIsGood
  <2> QED BY <2>1, <2>3, <2>4, <2>5
<1>4. CASE rec.status # "canceling" /\ type \in {"code", "edit"}
  BY <1>1, <1>4, EndIsGood, AwaitIsGood DEF FirstStep, AddOnce, Terminal, Good
<1>5. CASE rec.status # "canceling" /\ type = "file"
  BY <1>1, <1>5, AwaitIsGood DEF FirstStep, Good
<1>6. CASE rec.status # "canceling" /\ type \in {"skill", "image"}
  BY <1>1, <1>6, AwaitIsGood DEF FirstStep, Good
<1>7. CASE rec.status # "canceling" /\ type = "value"
  BY <1>1, <1>7, EndIsGood DEF FirstStep, Terminal
<1> QED BY <1>2, <1>3, <1>4, <1>5, <1>6, <1>7 DEF LocalTypes

\* What an operation that runs may do next: a shell operation begins its
\* command only when the files for its output are there, and never leaves the
\* phases that read them but for its end.
LEMMA ShellDoneIsGood ==
  ASSUME NEW rec \in Checkpoints, rec.phase \in Phases, NEW step \in ShellDone(rec)
  PROVE  /\ GoodStep("shell", step)
         /\ step.next = "start" => rec.phase = "create_err"
         /\ rec.phase \in {"process"} \cup ReadPhases =>
              Finished(step.rec) \/ step.rec.phase \in ReadPhases
<1> USE DEF Phases, CreatePhases, ReadPhases
<1>1. CASE rec.phase = "create_directory"
  BY <1>1, DispatchIsGood DEF ShellDone
<1>2. CASE rec.phase = "create_out"
  BY <1>2, DispatchIsGood DEF ShellDone
<1>3. CASE rec.phase = "create_err"
  BY <1>3, DispatchIsGood DEF ShellDone
<1>4. CASE rec.phase = "process"
  <2> DEFINE exited == [rec EXCEPT !.pid = FALSE, !.exit = TRUE]
  <2>1. exited \in Checkpoints
    BY DEF Checkpoints
  <2>2. step = Dispatch(exited, "read_out")
    BY <1>4 DEF ShellDone
  <2> QED BY <1>4, <2>1, <2>2, DispatchIsGood
<1>5. GoodStep("shell", Finish(rec)) /\ Finished(Finish(rec).rec)
  <2>1. [rec EXCEPT !.exit = FALSE] \in Checkpoints
    BY DEF Checkpoints
  <2> QED BY <2>1, EndIsGood DEF Finish, Terminal
<1>6. Finish(rec).next = "none"
  BY DEF Finish, End, StepTo
<1>7. CASE rec.phase = "read_out"
  BY <1>7, DispatchIsGood DEF ShellDone
<1>8. CASE rec.phase = "read_out_tail"
  BY <1>8, DispatchIsGood DEF ShellDone
<1>9. CASE rec.phase = "read_err"
  <2>1. step \in {Dispatch(rec, "read_err_tail"), Finish(rec)}
    BY <1>9 DEF ShellDone
  <2> QED BY <1>5, <1>6, <1>9, <2>1, DispatchIsGood
<1>10. CASE rec.phase = "read_err_tail"
  <2>1. step = Finish(rec)
    BY <1>10 DEF ShellDone
  <2> QED BY <1>5, <1>6, <2>1
<1> QED BY <1>1, <1>2, <1>3, <1>4, <1>7, <1>8, <1>9, <1>10

LEMMA StepsAreGood ==
  ASSUME NEW type \in LocalTypes, NEW rec, Good(type, rec), ~Finished(rec),
         type = "shell" => rec.status = "awaiting",
         NEW at, NEW event \in {"done", "failed", "canceled"},
         NEW step \in Steps(type, rec, at, event)
  PROVE  /\ GoodStep(type, step)
         /\ step.next = "start" =>
              type = "image" \/ (type = "shell" /\ rec.phase = "create_err")
         /\ (type = "shell" /\ rec.phase \in {"process"} \cup ReadPhases) =>
              Finished(step.rec) \/ step.rec.phase \in ReadPhases
<1>1. rec \in Checkpoints
  BY DEF Good
<1>2. \A status \in Terminal :
        /\ GoodStep(type, End(rec, status))
        /\ Finished(End(rec, status).rec)
        /\ End(rec, status).next = "none"
  BY <1>1, EndIsGood DEF End, StepTo
<1>3. type # "shell" => GoodStep(type, Unsaved(rec, "start"))
  BY DEF Unsaved, GoodStep, Good, Finished
<1>4. CASE event = "canceled"
  <2>1. step = End(rec, "canceled")
    BY <1>4 DEF Steps
  <2> QED BY <1>2, <2>1 DEF Terminal
<1>5. CASE event = "failed"
  <2>1. step = End(rec, "failed") \/ (type = "image" /\ step = Unsaved(rec, "start"))
    BY <1>5 DEF Steps, Failed
  <2> QED BY <1>2, <1>3, <2>1 DEF Terminal
<1>6. CASE event = "done" /\ type = "shell"
  <2>1. step \in ShellDone(rec) /\ rec.phase \in Phases
    BY <1>6 DEF Steps, Done, Good
  <2> QED BY <1>1, <1>6, <2>1, ShellDoneIsGood
<1>7. CASE event = "done" /\ type # "shell"
  <2>1. \/ step = End(rec, "completed")
        \/ step = End(rec, "failed")
        \/ type = "image" /\ step = Unsaved(rec, "start")
    BY <1>7 DEF Steps, Done, ImageDone
  <2>2. CASE step = End(rec, "completed") \/ step = End(rec, "failed")
    BY <1>2, <2>2 DEF Terminal
  <2>3. CASE type = "image" /\ step = Unsaved(rec, "start")
    BY <1>3, <1>7, <2>3
  <2> QED BY <2>1, <2>2, <2>3
<1> QED BY <1>4, <1>5, <1>6, <1>7
(***************************************************************************)
(* Steps of an operation go forward (Rank).                                *)
(***************************************************************************)
LEMMA RankType ==
  ASSUME NEW rec \in Checkpoints
  PROVE  /\ Rank(rec) \in 1 .. 12
         /\ Finished(rec) <=> Rank(rec) = 12
<1>1. rec # None
  BY NoneAssumption
<1>2. CASE Finished(rec)
  BY <1>1, <1>2 DEF Rank
<1>3. CASE ~Finished(rec)
  <2>1. rec.phase \in {"none", "create_directory", "create_out", "create_err", "process", "read_out",
                      "read_out_tail", "read_err", "read_err_tail"}
    BY DEF Checkpoints, Phases, CreatePhases, ReadPhases
  <2>2. CASE rec.phase \in {"create_directory", "create_out", "create_err", "process"}
    BY <1>1, <1>3, <2>2 DEF Rank
  <2>3. CASE rec.phase \in {"read_out", "read_out_tail", "read_err", "read_err_tail"}
    BY <1>1, <1>3, <2>3 DEF Rank
  <2>4. CASE rec.phase = "none"
    BY <1>1, <1>3, <2>4 DEF Rank
  <2> QED BY <2>1, <2>2, <2>3, <2>4
<1> QED BY <1>2, <1>3

\* Of an operation that awaits something.
LEMMA RankOfPhase ==
  ASSUME NEW rec \in Checkpoints, rec.status \in {"ready", "awaiting"}
  PROVE  /\ rec.phase = "none" => Rank(rec) = IF rec.status = "ready" THEN 1 ELSE 2
         /\ rec.phase = "create_directory" => Rank(rec) = 3
         /\ rec.phase = "create_out" => Rank(rec) = 4
         /\ rec.phase = "create_err" => Rank(rec) = 5
         /\ rec.phase = "process" =>
              Rank(rec) = IF rec.timedOut THEN 8 ELSE IF rec.pid THEN 7 ELSE 6
         /\ rec.phase \in {"read_out", "read_out_tail"} => Rank(rec) = 9
         /\ rec.phase \in {"read_err", "read_err_tail"} => Rank(rec) = 10
<1>1. rec # None /\ ~Finished(rec)
  BY NoneAssumption DEF Finished, Terminal
<1> QED BY <1>1 DEF Rank

LEMMA EndGoesForward ==
  ASSUME NEW rec \in Checkpoints, NEW from \in Checkpoints, NEW status \in Terminal
  PROVE  Rank(from) <= Rank(End(rec, status).rec)
<1>1. End(rec, status).rec \in Checkpoints /\ Finished(End(rec, status).rec)
  BY EndIsGood DEF GoodStep, Good
<1>2. Rank(End(rec, status).rec) = 12 /\ Rank(from) \in 1 .. 12
  BY <1>1, RankType
<1> QED BY <1>2

LEMMA DispatchesWhat ==
  ASSUME NEW rec \in Checkpoints, NEW phase \in Phases
  PROVE  /\ Dispatch(rec, phase).rec \in Checkpoints
         /\ Dispatch(rec, phase).rec.status = "awaiting"
         /\ Dispatch(rec, phase).rec.phase = phase
BY DEF Await, Dispatch, StepTo, Checkpoints, Statuses

LEMMA FirstStepGoesForward ==
  ASSUME NEW type \in LocalTypes, NEW rec, Good(type, rec), ~Finished(rec)
  PROVE  Rank(rec) <= Rank(FirstStep(type, rec).rec)
<1>1. rec \in Checkpoints /\ rec.status \in {"ready", "awaiting", "canceling"}
  BY DEF Good, Checkpoints, Statuses, Finished
<1>2. \A status \in Terminal : Rank(rec) <= Rank(End(rec, status).rec)
  BY <1>1, EndGoesForward
<1>3. CASE rec.status = "canceling"
  BY <1>2, <1>3 DEF FirstStep, Terminal
<1>4. CASE rec.status = "ready" /\ type = "shell"
  <2>1. FirstStep(type, rec) = Dispatch(rec, "create_directory") /\ rec.phase = "none"
    BY <1>4 DEF FirstStep, AddShell, Good
  <2>2. Rank(rec) = 1
    BY <1>1, <1>4, <2>1, RankOfPhase
  <2>3. FirstStep(type, rec).rec \in Checkpoints
    BY <1>1, <2>1, DispatchesWhat DEF Phases, CreatePhases
  <2> QED BY <2>2, <2>3, RankType
<1>5. CASE rec.status = "awaiting" /\ type = "shell" /\ rec.phase = "process"
  BY <1>2, <1>5 DEF FirstStep, AddShell, Terminal
<1>6. CASE rec.status = "awaiting" /\ type = "shell" /\ rec.phase # "process"
  <2>1. rec.phase \in Phases
    BY <1>6 DEF Good
  <2>2. FirstStep(type, rec) = Dispatch(rec, rec.phase)
    BY <1>6 DEF FirstStep, AddShell
  <2>3. /\ FirstStep(type, rec).rec \in Checkpoints
        /\ FirstStep(type, rec).rec.status = "awaiting"
        /\ FirstStep(type, rec).rec.phase = rec.phase
    BY <1>1, <2>1, <2>2, DispatchesWhat
  <2> QED BY <1>1, <1>6, <2>1, <2>3, RankOfPhase DEF Phases, CreatePhases, ReadPhases
<1>7. CASE rec.status # "canceling" /\ type # "shell"
  <2>1. rec.phase = "none"
    BY <1>7 DEF Good
  <2>2. Rank(rec) \in {1, 2}
    BY <1>1, <1>7, <2>1, RankOfPhase
  <2>3. \A next : Rank(Await(rec, next).rec) = 2
    <3>1. \A next : /\ Await(rec, next).rec \in Checkpoints
                    /\ Await(rec, next).rec.status = "awaiting"
                    /\ Await(rec, next).rec.phase = "none"
      BY <1>1, <2>1 DEF Await, StepTo, Checkpoints, Statuses
    <3> QED BY <3>1, RankOfPhase
  <2>4. \/ \E next : FirstStep(type, rec) = Await(rec, next)
        \/ \E status \in Terminal : FirstStep(type, rec) = End(rec, status)
    BY <1>7 DEF FirstStep, AddOnce, LocalTypes, Terminal
  <2> QED BY <1>2, <2>2, <2>3, <2>4
<1> QED BY <1>1, <1>3, <1>4, <1>5, <1>6, <1>7

LEMMA ShellDoneGoesForward ==
  ASSUME NEW rec \in Checkpoints, rec.status = "awaiting", rec.phase \in Phases,
         NEW step \in ShellDone(rec)
  PROVE  Rank(rec) <= Rank(step.rec)
<1> DEFINE exited == [rec EXCEPT !.pid = FALSE, !.exit = TRUE]
<1>1. exited \in Checkpoints /\ [rec EXCEPT !.exit = FALSE] \in Checkpoints
  BY DEF Checkpoints
<1>2. Rank(rec) <= Rank(Finish(rec).rec)
  BY <1>1, EndGoesForward DEF Finish, Terminal
<1>3. \A phase \in Phases :
        /\ Dispatch(rec, phase).rec \in Checkpoints
        /\ Dispatch(rec, phase).rec.status = "awaiting"
        /\ Dispatch(rec, phase).rec.phase = phase
  BY DispatchesWhat
<1>4. /\ Rank(Dispatch(rec, "create_out").rec) = 4
      /\ Rank(Dispatch(rec, "create_err").rec) = 5
      /\ Rank(Dispatch(rec, "process").rec) \in 6 .. 8
      /\ Rank(Dispatch(rec, "read_out_tail").rec) = 9
      /\ Rank(Dispatch(rec, "read_err").rec) = 10
      /\ Rank(Dispatch(rec, "read_err_tail").rec) = 10
  BY <1>3, RankOfPhase DEF Phases, CreatePhases, ReadPhases
<1>5. Rank(Dispatch(exited, "read_out").rec) = 9
  <2>1. "read_out" \in Phases
    BY DEF Phases, ReadPhases
  <2> HIDE DEF exited
  <2> QED BY <1>1, <2>1, DispatchesWhat, RankOfPhase
<1>6. /\ rec.phase = "create_directory" => Rank(rec) = 3
      /\ rec.phase = "create_out" => Rank(rec) = 4
      /\ rec.phase = "create_err" => Rank(rec) = 5
      /\ rec.phase = "process" => Rank(rec) \in 6 .. 8
      /\ rec.phase \in {"read_out", "read_out_tail"} => Rank(rec) = 9
      /\ rec.phase \in {"read_err", "read_err_tail"} => Rank(rec) = 10
  BY RankOfPhase
<1>7. \/ rec.phase = "create_directory" /\ step = Dispatch(rec, "create_out")
      \/ rec.phase = "create_out" /\ step = Dispatch(rec, "create_err")
      \/ rec.phase = "create_err" /\ step = Dispatch(rec, "process")
      \/ rec.phase = "process" /\ step = Dispatch(exited, "read_out")
      \/ /\ rec.phase = "read_out"
         /\ step \in {Dispatch(rec, "read_out_tail"), Dispatch(rec, "read_err")}
      \/ rec.phase = "read_out_tail" /\ step = Dispatch(rec, "read_err")
      \/ rec.phase = "read_err" /\ step \in {Dispatch(rec, "read_err_tail"), Finish(rec)}
      \/ rec.phase = "read_err_tail" /\ step = Finish(rec)
  BY DEF ShellDone, Phases, CreatePhases, ReadPhases
<1> HIDE DEF exited
<1> QED BY <1>2, <1>4, <1>5, <1>6, <1>7

LEMMA StepsGoForward ==
  ASSUME NEW type \in LocalTypes, NEW rec, Good(type, rec), ~Finished(rec),
         type = "shell" => rec.status = "awaiting",
         NEW at, NEW event \in {"done", "failed", "canceled"},
         NEW step \in Steps(type, rec, at, event)
  PROVE  Rank(rec) <= Rank(step.rec)
<1>1. rec \in Checkpoints
  BY DEF Good
<1>2. \A status \in Terminal : Rank(rec) <= Rank(End(rec, status).rec)
  BY <1>1, EndGoesForward
<1>3. Unsaved(rec, "start").rec = rec /\ Rank(rec) <= Rank(rec)
  BY <1>1, RankType DEF Unsaved
<1>4. CASE event = "done" /\ type = "shell"
  <2>1. step \in ShellDone(rec) /\ rec.phase \in Phases
    BY <1>4 DEF Steps, Done, Good
  <2> QED BY <1>1, <1>4, <2>1, ShellDoneGoesForward
<1>5. CASE event # "done" \/ type # "shell"
  <2>1. \/ \E status \in Terminal : step = End(rec, status)
        \/ step = Unsaved(rec, "start")
    BY <1>5 DEF Steps, Done, ImageDone, Failed, Terminal
  <2> QED BY <1>2, <1>3, <2>1
<1> QED BY <1>4, <1>5

(***************************************************************************)
(* The inductive invariant.                                                *)
(***************************************************************************)
InGroup == {"launched", "wait", "exiting", "canceling"}
Timers == {"timeout", "kill"}

\* What the store, the manager and its updates hold of operations is theirs.
Known ==
  /\ \A o \in Operations :
       /\ stored[o] # None => o \in DOMAIN kind /\ Good(kind[o], stored[o])
       /\ o \in accepted => stored[o] # None
       /\ Running(o) => /\ o \in accepted
                        /\ Good(kind[o], ops[o])
                        /\ ~Finished(ops[o])
                        /\ kind[o] = "shell" => ops[o].status = "awaiting"
  /\ \A i \in DOMAIN pending :
       pending[i].op \in accepted /\ Good(kind[pending[i].op], pending[i].rec)

\* Only a running operation works, and its command is at work while the
\* operation is in the phase of its command.
Works ==
  \A o \in Operations :
    /\ <<o, "work">> \in prims =>
         /\ Running(o)
         /\ kind[o] # "remote"
         /\ (kind[o] = "shell" /\ stage[o] = "start") => ops[o].phase = "process"
    /\ stage[o] \in InGroup =>
         /\ <<o, "work">> \in prims
         /\ kind[o] = "shell"
         /\ ops[o].phase = "process"
    /\ Alive(o) => stage[o] \in InGroup

\* A timer is set when its command was started, and the second one when the
\* first one fired.
TimersSet ==
  \A o \in Operations :
    /\ \A timer \in Timers :
         <<o, timer>> \in prims =>
           /\ o \in accepted
           /\ kind[o] = "shell"
           /\ stage[o] \notin {"start", "launched"}
           /\ Running(o) => ops[o].phase \in {"process"} \cup ReadPhases
    /\ <<o, "timeout">> \notin prims \/ <<o, "kill">> \notin prims

\* What was known to have begun is not at its beginning.
NotAtStart ==
  \A o \in begun :
    /\ o \in DOMAIN kind /\ kind[o] \in {"code", "edit", "shell"}
    /\ o \notin accepted => KnownBegun(o)
    /\ <<o, "work">> \in prims => stage[o] # "start"
    /\ (Running(o) /\ kind[o] = "shell") => ops[o].phase \in ReadPhases

\* The last update of an operation is its end, on its way or received.
LastIsEnd ==
  /\ \A i \in DOMAIN pending :
       Finished(pending[i].rec) =>
         /\ ~Running(pending[i].op)
         /\ \A j \in DOMAIN pending : j > i => pending[j].op # pending[i].op
  /\ \A o \in Operations :
       (stored[o] # None /\ Finished(stored[o])) =>
         /\ ~Running(o)
         /\ \A i \in DOMAIN pending : pending[i].op # o

ClosedIsEmpty == manager = "closed" => prims = {}

Inv ==
  /\ TypeOK /\ ActiveIsOutstanding /\ Known /\ Works /\ TimersSet
  /\ NotAtStart /\ LastIsEnd /\ ClosedIsEmpty
(***************************************************************************)
(* The two actions that take a step of an operation.                       *)
(***************************************************************************)
LEMMA CheckpointIsNotNone == ASSUME NEW rec \in Checkpoints PROVE rec # None
BY NoneAssumption

\* The operation the manager takes begins nothing that is known to have begun.
LEMMA Added ==
  ASSUME Inv, NEW o \in Operations, AddLocal(o)
  PROVE  /\ kind[o] \in LocalTypes
         /\ \A primitive \in prims : primitive[1] # o
         /\ stage[o] \notin InGroup
         /\ \E step :
              /\ GoodStep(kind[o], step)
              /\ step.saved
              /\ Rank(stored[o]) <= Rank(step.rec)
              /\ Accept(o, step, active, prims)
              /\ o \in begun =>
                   /\ step.next # "start"
                   /\ Finished(step.rec) \/ (kind[o] = "shell" /\ step.rec.phase \in ReadPhases)
<1> DEFINE step == FirstStep(kind[o], stored[o])
<1>1. /\ stored[o] # None /\ ~Finished(stored[o])
      /\ Good(kind[o], stored[o])
      /\ o \in DOMAIN kind /\ o \notin accepted
  BY DEF Inv, AddLocal, Addable, New, Known
<1>2. kind[o] \in LocalTypes
  BY <1>1 DEF AddLocal, Inv, TypeOK, Types
<1>3. \A primitive \in prims : primitive[1] # o
  <2> SUFFICES ASSUME NEW primitive \in prims, primitive[1] = o PROVE FALSE
    OBVIOUS
  <2>1. PICK c \in Correlations : primitive = <<o, c>>
    BY DEF Inv, TypeOK, Primitives
  <2>2. CASE c = "work"
    BY <1>1, <2>1, <2>2 DEF Inv, Works, Known
  <2>3. CASE c \in Timers
    BY <1>1, <2>1, <2>3 DEF Inv, TimersSet
  <2> QED BY <2>1, <2>2, <2>3 DEF Correlations, Timers
<1>4. stage[o] \notin InGroup
  BY <1>3 DEF Inv, Works
<1>5. GoodStep(kind[o], step)
  BY <1>1, <1>2, FirstStepIsGood
<1>6. step.saved /\ Rank(stored[o]) <= Rank(step.rec)
  <2>1. step.saved
    BY <1>2 DEF FirstStep, AddShell, AddOnce, Dispatch, Await, End, StepTo, LocalTypes
  <2> QED BY <1>1, <1>2, <2>1, FirstStepGoesForward
<1>7. ASSUME o \in begun
      PROVE  /\ step.next # "start"
             /\ Finished(step.rec) \/ (kind[o] = "shell" /\ step.rec.phase \in ReadPhases)
  <2>1. kind[o] \in {"code", "edit", "shell"} /\ KnownBegun(o)
    BY <1>1, <1>7 DEF Inv, NotAtStart
  <2>2. /\ stored[o] \in Checkpoints
        /\ stored[o].status = "awaiting"
        /\ kind[o] = "shell" => stored[o].phase \in {"process"} \cup ReadPhases
    BY <1>1, <2>1 DEF KnownBegun, Good
  <2> QED BY <2>1, <2>2, FirstStepOfBegun
<1>8. Accept(o, step, active, prims)
  BY DEF AddLocal
<1> HIDE DEF step
<1> QED BY <1>2, <1>3, <1>4, <1>5, <1>6, <1>7, <1>8

\* The operation whose work ended.
LEMMA Worked ==
  ASSUME Inv, NEW o \in Operations, WorkEnds(o)
  PROVE  /\ kind[o] \in LocalTypes
         /\ Running(o)
         /\ <<o, "work">> \in prims
         /\ stage[o] \notin InGroup
         /\ \E step :
              /\ GoodStep(kind[o], step)
              /\ Rank(ops[o]) <= Rank(step.rec)
              /\ Accept(o, step, active - 1, prims \ {<<o, "work">>})
              /\ step.next = "start" =>
                   \/ kind[o] = "image"
                   \/ kind[o] = "shell" /\ ops[o].phase = "create_err"
              /\ (kind[o] = "shell" /\ ops[o].phase \in {"process"} \cup ReadPhases) =>
                   Finished(step.rec) \/ step.rec.phase \in ReadPhases
<1>1. Running(o) /\ <<o, "work">> \in prims
  BY DEF WorkEnds
<1>2. /\ Good(kind[o], ops[o]) /\ ~Finished(ops[o])
      /\ kind[o] = "shell" => ops[o].status = "awaiting"
      /\ o \in accepted
  BY <1>1 DEF Inv, Known
<1>3. kind[o] \in LocalTypes
  <2>1. o \in DOMAIN kind /\ kind[o] # "remote"
    BY <1>1, <1>2 DEF Inv, Known, Works
  <2> QED BY <2>1 DEF Inv, TypeOK, Types
<1>4. PICK event \in Outcomes(o) :
        \E step \in Steps(kind[o], ops[o], stage[o], Verdict(o, event)) :
          Accept(o, step, active - 1, prims \ {<<o, "work">>})
  BY DEF WorkEnds
<1>5. event \in {"done", "failed", "canceled"} /\ stage[o] \notin InGroup
  BY <1>4 DEF Outcomes, InGroup
<1>6. PICK step \in Steps(kind[o], ops[o], stage[o], Verdict(o, event)) :
        Accept(o, step, active - 1, prims \ {<<o, "work">>})
  BY <1>4
<1>7. Verdict(o, event) \in {"done", "failed", "canceled"}
  BY <1>5 DEF Verdict
<1>8. /\ GoodStep(kind[o], step)
      /\ step.next = "start" =>
           kind[o] = "image" \/ (kind[o] = "shell" /\ ops[o].phase = "create_err")
      /\ (kind[o] = "shell" /\ ops[o].phase \in {"process"} \cup ReadPhases) =>
           Finished(step.rec) \/ step.rec.phase \in ReadPhases
  BY <1>2, <1>3, <1>6, <1>7, StepsAreGood
<1>9. Rank(ops[o]) <= Rank(step.rec)
  BY <1>2, <1>3, <1>6, <1>7, StepsGoForward
<1> QED BY <1>1, <1>3, <1>5, <1>6, <1>8, <1>9
(***************************************************************************)
(* The count is that of the primitives whose end is not received.          *)
(***************************************************************************)
LEMMA PrimitivesAreFinite ==
  ASSUME NEW set \in SUBSET Primitives
  PROVE  IsFiniteSet(set)
<1>1. Correlations = ({} \cup {"work"}) \cup {"timeout"} \cup {"kill"}
  BY DEF Correlations
<1>2. IsFiniteSet(Correlations)
  BY <1>1, FS_EmptySet, FS_AddElement
<1>3. IsFiniteSet(Operations)
  BY OperationManagerAssumption
<1>4. IsFiniteSet(Primitives)
  BY <1>2, <1>3, FS_Product DEF Primitives
<1> QED BY <1>4, FS_Subset

\* The primitives are counted.
Counted == prims \subseteq Primitives /\ ActiveIsOutstanding

LEMMA OneMore ==
  ASSUME NEW set \in SUBSET Primitives, NEW n, n = Cardinality(set),
         NEW primitive \in Primitives, primitive \notin set
  PROVE  n + 1 = Cardinality(set \cup {primitive})
BY PrimitivesAreFinite, FS_AddElement

LEMMA OneLess ==
  ASSUME NEW set \in SUBSET Primitives, NEW n, n = Cardinality(set), NEW primitive \in set
  PROVE  n - 1 = Cardinality(set \ {primitive})
BY PrimitivesAreFinite, FS_RemoveElement

LEMMA CountStep == Inv /\ [Next]_vars => Counted'
<1> SUFFICES ASSUME Inv, [Next]_vars PROVE Counted'
  OBVIOUS
<1> USE DEF Counted, ActiveIsOutstanding
<1>1. Counted
  BY DEF Inv, TypeOK
<1>2. CASE UNCHANGED <<prims, active>>
  BY <1>1, <1>2
<1>3. ASSUME NEW o \in Operations, NEW step, NEW waited, NEW left \in SUBSET Primitives,
             waited = Cardinality(left), <<o, "work">> \notin left,
             Accept(o, step, waited, left)
      PROVE  Counted'
  <2>1. <<o, "work">> \in Primitives
    BY DEF Primitives, Correlations
  <2>2. CASE step.next = "none"
    BY <1>3, <2>2 DEF Accept
  <2>3. CASE step.next # "none"
    <3>1. active' = waited + 1 /\ prims' = left \cup {<<o, "work">>}
      BY <1>3, <2>3 DEF Accept
    <3> QED BY <1>3, <2>1, <3>1, OneMore
  <2> QED BY <2>2, <2>3
<1>4. ASSUME NEW o \in Operations, AddLocal(o) PROVE Counted'
  <2>1. PICK step : Accept(o, step, active, prims)
    BY <1>4 DEF AddLocal
  <2>2. <<o, "work">> \notin prims
    <3>1. <<o, "work">>[1] = o
      OBVIOUS
    <3> QED BY <1>4, <3>1, Added
  <2> QED BY <1>1, <1>3, <2>1, <2>2
<1>5. ASSUME NEW o \in Operations, WorkEnds(o) PROVE Counted'
  <2>1. /\ <<o, "work">> \in prims
        /\ \E step : Accept(o, step, active - 1, prims \ {<<o, "work">>})
    BY <1>5, Worked
  <2>2. active - 1 = Cardinality(prims \ {<<o, "work">>})
    BY <1>1, <2>1, OneLess
  <2> QED BY <1>1, <1>3, <2>1, <2>2
<1>6. ASSUME NEW o \in Operations, CommandStarted(o) PROVE Counted'
  <2>1. <<o, "timeout">> \in Primitives /\ <<o, "timeout">> \notin prims
    BY <1>6 DEF CommandStarted, Inv, TimersSet, Timers, Primitives, Correlations
  <2>2. CASE o \in Timed
    <3>1. active' = active + 1 /\ prims' = prims \cup {<<o, "timeout">>}
      BY <1>6, <2>2 DEF CommandStarted
    <3> QED BY <1>1, <2>1, <3>1, OneMore
  <2>3. CASE o \notin Timed
    BY <1>2, <1>6, <2>3 DEF CommandStarted
  <2> QED BY <2>2, <2>3
<1>7. ASSUME NEW primitive \in prims, active' = active - 1, prims' = prims \ {primitive}
      PROVE  Counted'
  BY <1>1, <1>7, OneLess
<1>8. ASSUME NEW o \in Operations, TimesOut(o) PROVE Counted'
  <2> DEFINE left == prims \ {<<o, "timeout">>}
  <2>1. <<o, "timeout">> \in prims /\ prims' = left \cup {<<o, "kill">>} /\ active' = active
    BY <1>8 DEF TimesOut
  <2>2. active - 1 = Cardinality(left)
    BY <1>1, <2>1, OneLess
  <2>3. <<o, "kill">> \in Primitives /\ <<o, "kill">> \notin left
    BY <2>1 DEF Inv, TimersSet, Timers, Primitives, Correlations
  <2>4. (active - 1) + 1 = Cardinality(left \cup {<<o, "kill">>})
    BY <1>1, <2>2, <2>3, OneMore
  <2>5. active \in Nat
    BY DEF Inv, TypeOK
  <2> QED BY <1>1, <2>1, <2>3, <2>4, <2>5
<1>9. CASE Restart
  BY <1>9, FS_EmptySet DEF Restart
<1>10. ASSUME NEW o \in Operations, ManagerNext(o) PROVE Counted'
  <2>1. CASE AddRemote(o) \/ Cancel(o) \/ Progress(o) \/ RemoteUpdate(o)
    BY <1>2, <2>1 DEF AddRemote, Cancel, Progress, RemoteUpdate, pvars
  <2>2. ASSUME NEW timer \in Timers, TimerPasses(o, timer) PROVE Counted'
    BY <1>7, <2>2 DEF TimerPasses
  <2>3. CASE Kill(o)
    BY <1>7, <2>3 DEF Kill
  <2>4. ASSUME NEW c \in Correlations, Unclaimed(o, c) \/ Drained(o, c) PROVE Counted'
    BY <1>7, <2>4 DEF Unclaimed, Drained
  <2> QED BY <1>4, <1>5, <1>6, <1>8, <1>10, <2>1, <2>2, <2>3, <2>4 DEF ManagerNext, Timers
<1>11. ASSUME NEW o \in Operations, Record(o) \/ PrimitiveNext(o) PROVE Counted'
  BY <1>2, <1>11 DEF Record, PrimitiveNext, Launch, StartEnds, CommandExits, OthersExit,
                     SkipStarted, Terminate, GroupEnds, mvars, pvars
<1>12. CASE \/ Receive \/ HandlerCloses \/ HandlerStops \/ Stop \/ Drains \/ Close
            \/ UNCHANGED vars
  BY <1>2, <1>12 DEF Receive, HandlerCloses, HandlerStops, Stop, Drains, Close, vars,
                     mvars, pvars
<1> QED BY <1>9, <1>10, <1>11, <1>12 DEF Next
(***************************************************************************)
(* What the actions leave alone.                                           *)
(***************************************************************************)
\* The store and what the manager knows of operations.
LEMMA Quiet ==
  ASSUME NEW o \in Operations,
         \/ Cancel(o) \/ PrimitiveNext(o)
         \/ TimerPasses(o, "timeout") \/ TimerPasses(o, "kill") \/ Kill(o)
         \/ \E c \in Correlations : Unclaimed(o, c) \/ Drained(o, c)
  PROVE  UNCHANGED <<stored, kind, ops, accepted, pending>>
BY DEF Cancel, PrimitiveNext, TimerPasses, Kill, Unclaimed, Drained, Launch, StartEnds,
       CommandExits, OthersExit, SkipStarted, Terminate, GroupEnds, mvars

LEMMA QuietWithoutOperation ==
  ASSUME HandlerCloses \/ Stop \/ Drains \/ Close \/ UNCHANGED vars
  PROVE  UNCHANGED <<stored, kind, ops, accepted, pending, pvars, svars>>
BY DEF HandlerCloses, Stop, Drains, Close, vars, mvars

\* A step of an operation changes that operation only.
LEMMA AcceptedStep ==
  ASSUME TypeOK, NEW o \in Operations, NEW step, GoodStep(kind[o], step),
         NEW waited, NEW left, Accept(o, step, waited, left)
  PROVE  /\ ops' = [ops EXCEPT ![o] = IF Finished(step.rec) THEN None ELSE step.rec]
         /\ stage' = [stage EXCEPT ![o] = step.next]
         /\ canceled' \subseteq canceled \cup {o}
         /\ prims' = IF Finished(step.rec) THEN left ELSE left \cup {<<o, "work">>}
         /\ pending' = IF step.saved THEN Append(pending, [op |-> o, rec |-> step.rec])
                       ELSE pending
         /\ step.rec \in Checkpoints
         /\ step.next \in Stages \ InGroup
<1>1. /\ Finished(step.rec) <=> step.next = "none"
      /\ step.rec \in Checkpoints
      /\ step.next \in {"none", "create", "read", "start"}
  BY DEF GoodStep, Good
<1>2. ops' = [ops EXCEPT ![o] = IF Finished(step.rec) THEN None ELSE step.rec]
  BY DEF Accept, Forget
<1>3. pending' = IF step.saved THEN Append(pending, [op |-> o, rec |-> step.rec]) ELSE pending
  BY DEF Accept, Save
<1> QED BY <1>1, <1>2, <1>3 DEF Accept, Forget, Stages, Ended, InGroup

(***************************************************************************)
(* Types.                                                                  *)
(***************************************************************************)
LEMMA UpdateIsTyped ==
  ASSUME TypeOK, NEW o \in Operations, NEW rec \in Checkpoints
  PROVE  /\ Append(pending, [op |-> o, rec |-> rec]) \in Seq([op : Operations, rec : Checkpoints])
         /\ [ops EXCEPT ![o] = rec] \in [Operations -> Checkpoints \cup {None}]
         /\ [ops EXCEPT ![o] = None] \in [Operations -> Checkpoints \cup {None}]
BY DEF TypeOK

LEMMA FunctionIsSequence ==
  ASSUME NEW S, NEW n \in Nat, NEW f \in [1 .. n -> S]
  PROVE  f \in Seq(S) /\ Len(f) = n
<1>1. f \in Seq(S)
  BY SeqDef
<1> QED BY <1>1, LenProperties

LEMMA TypeStep == Inv /\ [Next]_vars => TypeOK'
<1> SUFFICES ASSUME Inv, [Next]_vars PROVE TypeOK'
  OBVIOUS
<1>1. TypeOK
  BY DEF Inv
<1>2. Counted' /\ active' \in Nat
  <2>1. Counted'
    BY CountStep
  <2>2. ASSUME NEW set \in SUBSET Primitives PROVE Cardinality(set) \in Nat
    BY PrimitivesAreFinite, FS_CardinalityType
  <2> QED BY <2>1, <2>2 DEF Counted, ActiveIsOutstanding
<1>3. prims' \subseteq Primitives
  BY <1>2 DEF Counted
<1>4. ASSUME NEW o \in Operations, NEW step, GoodStep(kind[o], step),
             NEW waited, NEW left, Accept(o, step, waited, left),
             UNCHANGED <<stored, kind, manager, stopping, svars, handler, history>>,
             accepted' \subseteq Operations
      PROVE  TypeOK'
  <2>1. /\ ops' = [ops EXCEPT ![o] = IF Finished(step.rec) THEN None ELSE step.rec]
        /\ stage' = [stage EXCEPT ![o] = step.next]
        /\ canceled' \subseteq canceled \cup {o}
        /\ pending' = IF step.saved THEN Append(pending, [op |-> o, rec |-> step.rec])
                      ELSE pending
        /\ step.rec \in Checkpoints
        /\ step.next \in Stages
    BY <1>1, <1>4, AcceptedStep
  <2>2. /\ ops' \in [Operations -> Checkpoints \cup {None}]
        /\ pending' \in Seq([op : Operations, rec : Checkpoints])
    BY <1>1, <2>1, UpdateIsTyped DEF TypeOK
  <2> QED BY <1>1, <1>2, <1>3, <1>4, <2>1, <2>2 DEF TypeOK, svars, history
<1>5. ASSUME NEW o \in Operations, AddLocal(o) PROVE TypeOK'
  <2>1. PICK step : GoodStep(kind[o], step) /\ Accept(o, step, active, prims)
    BY <1>5, Added
  <2> QED BY <1>1, <1>4, <1>5, <2>1 DEF AddLocal, TypeOK
<1>6. ASSUME NEW o \in Operations, WorkEnds(o) PROVE TypeOK'
  <2>1. PICK step : /\ GoodStep(kind[o], step)
                    /\ Accept(o, step, active - 1, prims \ {<<o, "work">>})
    BY <1>6, Worked
  <2> QED BY <1>1, <1>4, <1>6, <2>1 DEF WorkEnds, TypeOK
<1>7. ASSUME NEW o \in Operations, CommandStarted(o) PROVE TypeOK'
  <2> DEFINE rec == [ops[o] EXCEPT !.pid = TRUE]
  <2>1. rec \in Checkpoints
    BY <1>1, <1>7 DEF CommandStarted, Running, TypeOK, Checkpoints
  <2>2. /\ ops' = [ops EXCEPT ![o] = rec]
        /\ pending' = Append(pending, [op |-> o, rec |-> rec])
    BY <1>7 DEF CommandStarted, Save
  <2> HIDE DEF rec
  <2>3. /\ ops' \in [Operations -> Checkpoints \cup {None}]
        /\ pending' \in Seq([op : Operations, rec : Checkpoints])
    BY <1>1, <2>1, <2>2, UpdateIsTyped
  <2> QED BY <1>1, <1>2, <1>3, <1>7, <2>3 DEF CommandStarted, TypeOK, Stages, svars, history
<1>8. ASSUME NEW o \in Operations, TimesOut(o) PROVE TypeOK'
  <2> DEFINE rec == [ops[o] EXCEPT !.timedOut = TRUE]
  <2>1. rec \in Checkpoints
    <3>1. ops[o] \in Checkpoints
      BY <1>1, <1>8 DEF TimesOut, Running, TypeOK
    <3> QED BY <3>1 DEF Checkpoints
  <2>2. /\ ops' = [ops EXCEPT ![o] = rec]
        /\ pending' = Append(pending, [op |-> o, rec |-> rec])
    BY <1>8 DEF TimesOut, Save
  <2> HIDE DEF rec
  <2>3. /\ ops' \in [Operations -> Checkpoints \cup {None}]
        /\ pending' \in Seq([op : Operations, rec : Checkpoints])
    BY <1>1, <2>1, <2>2, UpdateIsTyped
  <2> QED BY <1>1, <1>2, <1>3, <1>8, <2>3 DEF TimesOut, TypeOK, svars, history
<1>9. ASSUME NEW o \in Operations, RemoteUpdate(o) PROVE TypeOK'
  <2>1. PICK status \in Statuses, samePlan \in BOOLEAN :
          LET valid == samePlan /\ ValidTransition(ops[o].status, status)
              rec == [ops[o] EXCEPT !.status = IF valid THEN status ELSE "failed"]
          IN  /\ Save(o, rec)
              /\ IF Finished(rec) THEN Forget(o)
                 ELSE ops' = [ops EXCEPT ![o] = rec] /\ UNCHANGED canceled
    BY <1>9 DEF RemoteUpdate
  <2> DEFINE valid == samePlan /\ ValidTransition(ops[o].status, status)
             rec == [ops[o] EXCEPT !.status = IF valid THEN status ELSE "failed"]
  <2>2. rec \in Checkpoints
    <3> DEFINE next == IF valid THEN status ELSE "failed"
    <3>1. next \in Statuses
      BY DEF Statuses, Terminal
    <3>2. ops[o] \in Checkpoints
      BY <1>1, <1>9 DEF RemoteUpdate, Running, TypeOK
    <3> HIDE DEF next
    <3>3. [ops[o] EXCEPT !.status = next] \in Checkpoints
      BY <3>1, <3>2 DEF Checkpoints
    <3> QED BY <3>3 DEF next
  <2>3. /\ pending' = Append(pending, [op |-> o, rec |-> rec])
        /\ IF Finished(rec) THEN Forget(o)
           ELSE ops' = [ops EXCEPT ![o] = rec] /\ UNCHANGED canceled
    BY <2>1 DEF Save
  <2> HIDE DEF rec
  <2>4. /\ ops' \in [Operations -> Checkpoints \cup {None}]
        /\ pending' \in Seq([op : Operations, rec : Checkpoints])
        /\ canceled' \subseteq Operations
    <3>1. /\ ops' = [ops EXCEPT ![o] = IF Finished(rec) THEN None ELSE rec]
          /\ canceled' \subseteq canceled \cup {o}
      BY <2>3 DEF Forget
    <3>2. canceled' \subseteq Operations
      BY <1>1, <3>1 DEF TypeOK
    <3> QED BY <1>1, <2>2, <2>3, <3>1, <3>2, UpdateIsTyped
  <2> QED BY <1>1, <1>2, <1>3, <1>9, <2>4 DEF RemoteUpdate, TypeOK, pvars, svars, history
<1>10. CASE HandlerStops
  <2>1. PICK order \in Orders({o \in Operations : Running(o) /\ kind[o] = "remote"}) :
          pending' = pending \o
            [i \in DOMAIN order |->
               [op |-> order[i], rec |-> [ops[order[i]] EXCEPT !.status = "failed"]]]
    BY <1>10 DEF HandlerStops
  <2>2. \A i \in DOMAIN order :
          order[i] \in Operations /\ [ops[order[i]] EXCEPT !.status = "failed"] \in Checkpoints
    <3> SUFFICES ASSUME NEW i \in DOMAIN order
                 PROVE  /\ order[i] \in Operations
                        /\ [ops[order[i]] EXCEPT !.status = "failed"] \in Checkpoints
      OBVIOUS
    <3>1. order[i] \in Operations /\ Running(order[i])
      BY DEF Orders
    <3>2. ops[order[i]] \in Checkpoints
      BY <1>1, <3>1 DEF Running, TypeOK
    <3> QED BY <3>1, <3>2 DEF Checkpoints, Statuses, Terminal
  <2>3. pending' \in Seq([op : Operations, rec : Checkpoints])
    <3> DEFINE lost == {o \in Operations : Running(o) /\ kind[o] = "remote"}
    <3>1. Cardinality(lost) \in Nat
      BY OperationManagerAssumption, FS_Subset, FS_CardinalityType
    <3>2. DOMAIN order = 1 .. Cardinality(lost)
      BY DEF Orders
    <3> DEFINE failed == [i \in DOMAIN order |->
               [op |-> order[i], rec |-> [ops[order[i]] EXCEPT !.status = "failed"]]]
    <3>3. failed \in [1 .. Cardinality(lost) -> [op : Operations, rec : Checkpoints]]
      BY <2>2, <3>2
    <3>4. failed \in Seq([op : Operations, rec : Checkpoints])
      <4> HIDE DEF failed, lost
      <4> QED BY <3>1, <3>3, FunctionIsSequence
    <3>5. pending' = pending \o failed
      BY <2>1
    <3> HIDE DEF failed
    <3> QED BY <1>1, <3>4, <3>5 DEF TypeOK
  <2>4. ops' \in [Operations -> Checkpoints \cup {None}] /\ canceled' \subseteq Operations
    BY <1>1, <1>10 DEF HandlerStops, TypeOK
  <2> QED BY <1>1, <1>2, <1>3, <1>10, <2>3, <2>4 DEF HandlerStops, TypeOK, pvars, svars, history
<1>11. CASE Receive
  <2>1. pending \in Seq([op : Operations, rec : Checkpoints]) /\ pending # <<>>
    BY <1>1, <1>11 DEF Receive, TypeOK
  <2>2. /\ Head(pending) \in [op : Operations, rec : Checkpoints]
        /\ Tail(pending) \in Seq([op : Operations, rec : Checkpoints])
    BY <2>1, HeadTailProperties
  <2>3. /\ stored' \in [Operations -> Checkpoints \cup {None}]
        /\ pending' \in Seq([op : Operations, rec : Checkpoints])
    BY <1>1, <1>11, <2>2 DEF Receive, TypeOK
  <2> QED BY <1>1, <1>11, <2>3 DEF Receive, TypeOK, pvars, svars, history
<1>12. CASE Restart
  <2>1. kind' = kind /\ stored' = stored /\ launched' = launched /\ restarts' \in 0 .. Restarts
    BY <1>1, <1>12, OperationManagerAssumption DEF Restart, TypeOK
  <2>2. pending' \in Seq([op : Operations, rec : Checkpoints])
    BY <1>12, EmptySeq DEF Restart
  <2>3. /\ ops' \in [Operations -> Checkpoints \cup {None}]
        /\ stage' \in [Operations -> Stages]
        /\ command' \in [Operations -> {"none", "running", "ended"}]
    BY <1>12 DEF Restart, Stages
  <2>4. begun' \subseteq Operations /\ orphans' \subseteq Operations
    BY <1>1, <1>12 DEF Restart, TypeOK
  <2> QED BY <1>1, <1>2, <1>12, <2>1, <2>2, <2>3, <2>4 DEF Restart, TypeOK
<1>13. ASSUME NEW o \in Operations, Record(o) \/ AddRemote(o) \/ Cancel(o) \/ Progress(o)
       PROVE  TypeOK'
  <2>1. CASE Record(o)
    <3>1. Ready \in Checkpoints
      BY DEF Ready, Checkpoints, Statuses
    <3> QED BY <1>1, <2>1, <3>1 DEF Record, TypeOK, mvars, pvars, svars, history
  <2>2. CASE AddRemote(o)
    BY <1>1, <1>2, <2>2 DEF AddRemote, Addable, TypeOK, pvars, svars, history
  <2>3. CASE Cancel(o)
    BY <1>1, <2>3 DEF Cancel, TypeOK, pvars, svars, history
  <2>4. CASE Progress(o)
    <3>1. ops[o] \in Checkpoints /\ pending' = Append(pending, [op |-> o, rec |-> ops[o]])
      BY <1>1, <2>4 DEF Progress, Running, Save, TypeOK
    <3>2. pending' \in Seq([op : Operations, rec : Checkpoints])
      BY <1>1, <3>1, UpdateIsTyped
    <3> QED BY <1>1, <2>4, <3>2 DEF Progress, TypeOK, pvars, svars, history
  <2> QED BY <1>13, <2>1, <2>2, <2>3, <2>4
<1>14. ASSUME NEW o \in Operations, PrimitiveNext(o) PROVE TypeOK'
  <2>1. CASE Launch(o)
    BY <1>1, <2>1 DEF Launch, TypeOK, Stages, mvars
  <2>2. CASE StartEnds(o) \/ SkipStarted(o) \/ Terminate(o)
    BY <1>1, <2>2 DEF StartEnds, SkipStarted, Terminate, TypeOK, Stages, Ended, mvars,
                      svars, history
  <2>3. CASE CommandExits(o) \/ OthersExit(o)
    BY <1>1, <2>3 DEF CommandExits, OthersExit, TypeOK, mvars, pvars, history
  <2>4. CASE GroupEnds(o)
    BY <1>1, <2>4 DEF GroupEnds, TypeOK, Stages, Ended, mvars, history
  <2> QED BY <1>14, <2>1, <2>2, <2>3, <2>4 DEF PrimitiveNext
<1>15. ASSUME NEW o \in Operations,
              \/ TimerPasses(o, "timeout") \/ TimerPasses(o, "kill") \/ Kill(o)
              \/ \E c \in Correlations : Unclaimed(o, c) \/ Drained(o, c)
       PROVE  TypeOK'
  BY <1>1, <1>2, <1>3, <1>15 DEF TimerPasses, Kill, Unclaimed, Drained, TypeOK, svars, history
<1>16. CASE HandlerCloses \/ Stop \/ Drains \/ Close \/ UNCHANGED vars
  BY <1>1, <1>16 DEF HandlerCloses, Stop, Drains, Close, TypeOK, vars, mvars, pvars, svars,
                     history
<1> QED BY <1>5, <1>6, <1>7, <1>8, <1>9, <1>10, <1>11, <1>12, <1>13, <1>14, <1>15, <1>16
       DEF Next, ManagerNext
(***************************************************************************)
(* What a step does to an operation and its updates.                       *)
(***************************************************************************)
\* What is held of an operation in the manager, or before it takes it.
Held(o) == IF Running(o) THEN ops[o] ELSE stored[o]

\* An operation that runs, or that the manager takes, goes on or ends.
MovesTo(o, rec) ==
  /\ UNCHANGED <<stored, kind>>
  /\ o \in DOMAIN kind /\ Good(kind[o], rec)
  /\ kind[o] = "shell" /\ ~Finished(rec) => rec.status = "awaiting"
  /\ Rank(Held(o)) <= Rank(rec)
  /\ Running(o) \/ (o \notin accepted /\ stored[o] # None /\ ~Finished(stored[o]))
  /\ accepted' = accepted \cup {o}
  /\ ops' = [ops EXCEPT ![o] = IF Finished(rec) THEN None ELSE rec]
  /\ \/ pending' = Append(pending, [op |-> o, rec |-> rec])
     \/ ~Finished(rec) /\ pending' = pending

StepKinds ==
  \/ UNCHANGED <<stored, kind, ops, accepted, pending>>
  \/ \E o \in Operations : Record(o) \/ \E rec \in Checkpoints : MovesTo(o, rec)
  \/ Receive \/ HandlerStops \/ Restart

LEMMA AcceptedMoves ==
  ASSUME Inv, NEW o \in Operations, NEW step, GoodStep(kind[o], step), o \in DOMAIN kind,
         NEW waited, NEW left, Accept(o, step, waited, left),
         Running(o) \/ (o \notin accepted /\ stored[o] # None /\ ~Finished(stored[o])),
         Rank(Held(o)) <= Rank(step.rec),
         UNCHANGED <<stored, kind>>, accepted' = accepted \cup {o}
  PROVE  MovesTo(o, step.rec) /\ step.rec \in Checkpoints
<1>1. /\ ops' = [ops EXCEPT ![o] = IF Finished(step.rec) THEN None ELSE step.rec]
      /\ pending' = IF step.saved THEN Append(pending, [op |-> o, rec |-> step.rec])
                    ELSE pending
      /\ step.rec \in Checkpoints
  BY AcceptedStep DEF Inv
<1> QED BY <1>1 DEF MovesTo, GoodStep

\* A remote job's status never goes back: from canceling only to its end.
LEMMA RemoteGoesForward ==
  ASSUME NEW from \in Checkpoints, NEW rec \in Checkpoints, from.phase = "none", rec.phase = "none",
         ~Finished(from), NEW status \in Statuses, NEW samePlan \in BOOLEAN,
         rec.status = IF samePlan /\ ValidTransition(from.status, status)
                      THEN status ELSE "failed"
  PROVE  Rank(from) <= Rank(rec)
<1>1. \A r \in {from, rec} : r # None
  BY NoneAssumption
<1>2. Rank(from) = (IF from.status = "ready" THEN 1 ELSE IF from.status = "awaiting" THEN 2 ELSE 3)
  BY <1>1 DEF Rank, Finished, Checkpoints, Statuses, Terminal
<1>3. CASE samePlan /\ ValidTransition(from.status, status)
  <2>1. rec.status = status
    BY <1>3
  <2>2. Finished(rec) \/ (status = "canceling")
        \/ (status = "awaiting" /\ from.status \in {"ready", "awaiting"})
    BY <1>3, <2>1 DEF ValidTransition, Finished, Statuses, Checkpoints, Terminal
  <2>3. /\ status = "canceling" => Rank(rec) = 3
        /\ status = "awaiting" => Rank(rec) = 2
    BY <1>1, <2>1 DEF Rank, Finished, Terminal
  <2> QED BY <1>2, <2>2, <2>3, RankType
<1>4. CASE ~(samePlan /\ ValidTransition(from.status, status))
  <2>1. Finished(rec)
    BY <1>4 DEF Finished, Terminal
  <2> QED BY <1>2, <2>1, RankType
<1> QED BY <1>3, <1>4

LEMMA StepKind == Inv /\ [Next]_vars => StepKinds
<1> SUFFICES ASSUME Inv, [Next]_vars PROVE StepKinds
  OBVIOUS
<1>1. ASSUME NEW o \in Operations, Running(o)
      PROVE  /\ o \in accepted /\ o \in DOMAIN kind /\ ops[o] \in Checkpoints
             /\ Good(kind[o], ops[o]) /\ ~Finished(ops[o])
             /\ kind[o] = "shell" => ops[o].status = "awaiting"
  BY <1>1 DEF Inv, Known, Good
<1>2. ASSUME NEW o \in Operations, AddLocal(o) PROVE StepKinds
  <2>1. PICK step : /\ GoodStep(kind[o], step) /\ Accept(o, step, active, prims)
                    /\ Rank(stored[o]) <= Rank(step.rec)
    BY <1>2, Added
  <2>2. /\ o \in DOMAIN kind /\ ~Running(o)
        /\ o \notin accepted /\ stored[o] # None /\ ~Finished(stored[o])
    BY <1>2 DEF AddLocal, Addable, New, Inv, Known
  <2>3. UNCHANGED <<stored, kind>> /\ accepted' = accepted \cup {o}
    BY <1>2 DEF AddLocal
  <2>4. MovesTo(o, step.rec) /\ step.rec \in Checkpoints
    BY <2>1, <2>2, <2>3, AcceptedMoves DEF Held
  <2> QED BY <2>4 DEF StepKinds
<1>3. ASSUME NEW o \in Operations, AddRemote(o) PROVE StepKinds
  <2>1. /\ o \in DOMAIN kind /\ Good(kind[o], stored[o])
        /\ o \notin accepted /\ stored[o] # None /\ ~Finished(stored[o]) /\ ~Running(o)
    BY <1>3 DEF AddRemote, Addable, New, Inv, Known
  <2>2. stored[o] \in Checkpoints /\ Rank(Held(o)) <= Rank(stored[o])
    BY <2>1, RankType DEF Held, Good
  <2>3. MovesTo(o, stored[o])
    BY <1>3, <2>1, <2>2 DEF AddRemote, MovesTo
  <2> QED BY <2>2, <2>3 DEF StepKinds
<1>4. ASSUME NEW o \in Operations, WorkEnds(o) PROVE StepKinds
  <2>1. Running(o) /\ \E step : /\ GoodStep(kind[o], step)
                                /\ Rank(ops[o]) <= Rank(step.rec)
                                /\ Accept(o, step, active - 1, prims \ {<<o, "work">>})
    BY <1>4, Worked
  <2>2. PICK step : /\ GoodStep(kind[o], step)
                    /\ Rank(ops[o]) <= Rank(step.rec)
                    /\ Accept(o, step, active - 1, prims \ {<<o, "work">>})
    BY <2>1
  <2>3. /\ o \in DOMAIN kind /\ UNCHANGED <<stored, kind>>
        /\ accepted' = accepted \cup {o}
    BY <1>1, <1>4, <2>1 DEF WorkEnds
  <2>4. MovesTo(o, step.rec) /\ step.rec \in Checkpoints
    BY <2>1, <2>2, <2>3, AcceptedMoves DEF Held
  <2> QED BY <2>4 DEF StepKinds
<1>5. ASSUME NEW o \in Operations, NEW rec \in Checkpoints, Running(o),
             Good(kind[o], rec), kind[o] = "shell" => rec.status = "awaiting",
             Rank(ops[o]) <= Rank(rec),
             ops' = [ops EXCEPT ![o] = IF Finished(rec) THEN None ELSE rec],
             Save(o, rec), UNCHANGED <<stored, kind, accepted>>
      PROVE  StepKinds
  BY <1>1, <1>5 DEF MovesTo, StepKinds, Save, Held
<1>6. ASSUME NEW o \in Operations, CommandStarted(o) PROVE StepKinds
  <2> DEFINE rec == [ops[o] EXCEPT !.pid = TRUE]
  <2>1. Running(o) /\ ops' = [ops EXCEPT ![o] = rec] /\ Save(o, rec)
        /\ UNCHANGED <<stored, kind, accepted>>
    BY <1>6 DEF CommandStarted
  <2>2. /\ rec \in Checkpoints /\ rec.status = ops[o].status /\ rec.phase = ops[o].phase
    BY <1>1, <2>1 DEF Checkpoints
  <2>3. /\ ops[o].phase = "process" /\ ops[o].status = "awaiting" /\ ops[o] \in Checkpoints
        /\ rec.pid = TRUE /\ rec.timedOut = ops[o].timedOut
    BY <1>1, <1>6, <2>1 DEF CommandStarted, Inv, Works, InGroup, Checkpoints
  <2> HIDE DEF rec
  <2>4. Rank(ops[o]) <= Rank(rec)
    BY <2>2, <2>3, RankOfPhase
  <2> QED BY <1>1, <1>5, <2>1, <2>2, <2>4 DEF Good, Finished
<1>7. ASSUME NEW o \in Operations, TimesOut(o) PROVE StepKinds
  <2> DEFINE rec == [ops[o] EXCEPT !.timedOut = TRUE]
  <2>1. Running(o) /\ ops' = [ops EXCEPT ![o] = rec] /\ Save(o, rec)
        /\ UNCHANGED <<stored, kind, accepted>>
    BY <1>7 DEF TimesOut
  <2>2. /\ rec \in Checkpoints /\ rec.status = ops[o].status /\ rec.phase = ops[o].phase
    BY <1>1, <2>1 DEF Checkpoints
  <2>3. /\ ops[o].phase = "process" /\ ops[o].status = "awaiting" /\ ops[o] \in Checkpoints
        /\ rec.timedOut = TRUE
    <3>1. ops[o].phase = "process" /\ kind[o] = "shell"
      BY <1>7 DEF TimesOut, TimerActs, Inv, TimersSet, Timers
    <3> QED BY <1>1, <2>1, <3>1 DEF Checkpoints
  <2> HIDE DEF rec
  <2>4. Rank(ops[o]) <= Rank(rec)
    BY <2>2, <2>3, RankOfPhase
  <2> QED BY <1>1, <1>5, <2>1, <2>2, <2>4 DEF Good, Finished
<1>8. ASSUME NEW o \in Operations, Progress(o) PROVE StepKinds
  <2>1. Running(o) /\ Save(o, ops[o]) /\ UNCHANGED <<stored, kind, ops, accepted>>
    BY <1>8 DEF Progress
  <2>2. ops' = [ops EXCEPT ![o] = ops[o]]
    BY <2>1 DEF Inv, TypeOK
  <2>3. Rank(ops[o]) <= Rank(ops[o])
    BY <1>1, <2>1, RankType
  <2> QED BY <1>1, <1>5, <2>1, <2>2, <2>3
<1>9. ASSUME NEW o \in Operations, RemoteUpdate(o) PROVE StepKinds
  <2>1. PICK status \in Statuses, samePlan \in BOOLEAN :
          LET valid == samePlan /\ ValidTransition(ops[o].status, status)
              rec == [ops[o] EXCEPT !.status = IF valid THEN status ELSE "failed"]
          IN  /\ Save(o, rec)
              /\ IF Finished(rec) THEN Forget(o)
                 ELSE ops' = [ops EXCEPT ![o] = rec] /\ UNCHANGED canceled
    BY <1>9 DEF RemoteUpdate
  <2> DEFINE valid == samePlan /\ ValidTransition(ops[o].status, status)
             rec == [ops[o] EXCEPT !.status = IF valid THEN status ELSE "failed"]
  <2>2. Running(o) /\ kind[o] = "remote" /\ UNCHANGED <<stored, kind, accepted>>
    BY <1>9 DEF RemoteUpdate
  <2>3. rec \in Checkpoints
    BY <1>1, <2>2 DEF Checkpoints, Statuses, Terminal
  <2>4. /\ Save(o, rec)
        /\ ops' = [ops EXCEPT ![o] = IF Finished(rec) THEN None ELSE rec]
    BY <2>1 DEF Forget
  <2>5. rec.phase = "none" /\ ops[o].phase = "none" /\ rec.status = (IF valid THEN status ELSE "failed")
    BY <1>1, <2>2 DEF Good, Checkpoints
  <2> HIDE DEF rec
  <2>6. Rank(ops[o]) <= Rank(rec)
    BY <1>1, <2>2, <2>3, <2>5, RemoteGoesForward
  <2> QED BY <1>5, <2>2, <2>3, <2>4, <2>5, <2>6 DEF Good
<1>10. ASSUME NEW o \in Operations, ManagerNext(o) \/ Record(o) \/ PrimitiveNext(o)
       PROVE  StepKinds
  <2>1. CASE Record(o)
    BY <2>1 DEF StepKinds
  <2>2. CASE \/ Cancel(o) \/ PrimitiveNext(o)
             \/ TimerPasses(o, "timeout") \/ TimerPasses(o, "kill") \/ Kill(o)
             \/ \E c \in Correlations : Unclaimed(o, c) \/ Drained(o, c)
    BY <2>2, Quiet DEF StepKinds
  <2> QED BY <1>2, <1>3, <1>4, <1>6, <1>7, <1>8, <1>9, <1>10, <2>1, <2>2 DEF ManagerNext
<1>11. CASE HandlerCloses \/ Stop \/ Drains \/ Close \/ UNCHANGED vars
  BY <1>11, QuietWithoutOperation DEF StepKinds
<1>12. CASE Receive \/ HandlerStops \/ Restart
  BY <1>12 DEF StepKinds
<1> QED BY <1>10, <1>11, <1>12 DEF Next

\* The jobs of a handler that stopped fail, each once.
LEMMA LostFail ==
  ASSUME TypeOK, HandlerStops
  PROVE  /\ \A i \in DOMAIN pending : i \in DOMAIN pending' /\ pending'[i] = pending[i]
         /\ \A i \in DOMAIN pending' :
              i \notin DOMAIN pending =>
                LET o == pending'[i].op
                IN  /\ i > Len(pending)
                    /\ o \in Operations /\ Running(o) /\ kind[o] = "remote"
                    /\ pending'[i].rec \in Checkpoints /\ Finished(pending'[i].rec)
                    /\ pending'[i].rec.phase = ops[o].phase
                    /\ ops'[o] = None
                    /\ \A j \in DOMAIN pending' : j > i => pending'[j].op # o
<1> DEFINE lost == {o \in Operations : Running(o) /\ kind[o] = "remote"}
           Failed1(o) == [op |-> o, rec |-> [ops[o] EXCEPT !.status = "failed"]]
<1>1. PICK order \in Orders(lost) :
        pending' = pending \o [i \in DOMAIN order |-> Failed1(order[i])]
  BY DEF HandlerStops
<1> DEFINE failed == [i \in DOMAIN order |-> Failed1(order[i])]
<1>2. /\ DOMAIN order = 1 .. Cardinality(lost)
      /\ \A i \in DOMAIN order : order[i] \in lost
      /\ \A i, j \in DOMAIN order : order[i] = order[j] => i = j
  BY DEF Orders
<1>3. Cardinality(lost) \in Nat
  BY OperationManagerAssumption, FS_Subset, FS_CardinalityType
<1>4. \A o \in lost : /\ Failed1(o) \in [op : Operations, rec : Checkpoints]
                      /\ Finished(Failed1(o).rec) /\ Failed1(o).op = o
                      /\ Failed1(o).rec.phase = ops[o].phase
  <2> SUFFICES ASSUME NEW o \in lost
               PROVE  /\ Failed1(o) \in [op : Operations, rec : Checkpoints]
                      /\ Finished(Failed1(o).rec) /\ Failed1(o).op = o
                      /\ Failed1(o).rec.phase = ops[o].phase
    OBVIOUS
  <2>1. ops[o] \in Checkpoints
    BY DEF Running, TypeOK
  <2> QED BY <2>1 DEF Checkpoints, Statuses, Terminal, Finished
<1>5. ops' = [o \in Operations |-> IF o \in lost THEN None ELSE ops[o]]
  BY DEF HandlerStops
<1>6. \A o \in lost : ops'[o] = None
  BY <1>5
<1> HIDE DEF lost, Failed1
<1>7. failed \in [1 .. Cardinality(lost) -> [op : Operations, rec : Checkpoints]]
  BY <1>2, <1>4
<1>8. /\ failed \in Seq([op : Operations, rec : Checkpoints])
      /\ Len(failed) = Cardinality(lost)
  <2> HIDE DEF failed
  <2> QED BY <1>3, <1>7, FunctionIsSequence
<1>9. \A i \in 1 .. Len(failed) :
        /\ failed[i].op \in lost /\ failed[i].rec \in Checkpoints
        /\ Finished(failed[i].rec) /\ failed[i].rec.phase = ops[failed[i].op].phase
        /\ \A j \in 1 .. Len(failed) : failed[i].op = failed[j].op => i = j
  <2>1. \A i \in 1 .. Len(failed) : failed[i] = Failed1(order[i]) /\ order[i] \in lost
    BY <1>2, <1>8
  <2> HIDE DEF failed
  <2> QED BY <1>2, <1>4, <1>8, <2>1
<1>10. /\ pending \in Seq([op : Operations, rec : Checkpoints])
       /\ Len(pending) \in Nat /\ DOMAIN pending = 1 .. Len(pending)
  BY LenProperties DEF TypeOK
<1>11. /\ pending' \in Seq([op : Operations, rec : Checkpoints])
       /\ Len(pending') = Len(pending) + Len(failed)
       /\ \A i \in 1 .. Len(pending) + Len(failed) :
            pending'[i] = IF i <= Len(pending) THEN pending[i] ELSE failed[i - Len(pending)]
  <2>1. pending' = pending \o failed
    BY <1>1
  <2> HIDE DEF failed
  <2> QED BY <1>8, <1>10, <2>1, ConcatProperties
<1>12. DOMAIN pending' = 1 .. Len(pending) + Len(failed)
  <2> HIDE DEF failed
  <2> QED BY <1>11, LenProperties
<1> HIDE DEF failed
<1>13. ASSUME NEW i \in DOMAIN pending PROVE i \in DOMAIN pending' /\ pending'[i] = pending[i]
  BY <1>3, <1>8, <1>10, <1>11, <1>12
<1>14. ASSUME NEW i \in DOMAIN pending', i \notin DOMAIN pending
       PROVE  LET o == pending'[i].op
              IN  /\ i > Len(pending)
                  /\ o \in Operations /\ Running(o) /\ kind[o] = "remote"
                  /\ pending'[i].rec \in Checkpoints /\ Finished(pending'[i].rec)
                  /\ pending'[i].rec.phase = ops[o].phase
                  /\ ops'[o] = None
                  /\ \A j \in DOMAIN pending' : j > i => pending'[j].op # o
  <2> DEFINE k == i - Len(pending)
  <2>1. i > Len(pending) /\ k \in 1 .. Len(failed) /\ pending'[i] = failed[k]
    BY <1>3, <1>8, <1>10, <1>11, <1>12, <1>14
  <2>2. /\ failed[k].op \in lost /\ failed[k].rec \in Checkpoints /\ Finished(failed[k].rec)
        /\ failed[k].rec.phase = ops[failed[k].op].phase
    BY <1>9, <2>1
  <2>3. ASSUME NEW j \in DOMAIN pending', j > i PROVE pending'[j].op # pending'[i].op
    <3>1. /\ j - Len(pending) \in 1 .. Len(failed) /\ j - Len(pending) # k
          /\ pending'[j] = failed[j - Len(pending)]
      BY <1>3, <1>8, <1>10, <1>11, <1>12, <2>1, <2>3
    <3> QED BY <1>9, <2>1, <3>1
  <2>4. /\ failed[k].op \in Operations /\ Running(failed[k].op)
        /\ kind[failed[k].op] = "remote"
    BY <2>2 DEF lost
  <2> QED BY <1>6, <2>1, <2>2, <2>3, <2>4
<1> QED BY <1>13, <1>14
(***************************************************************************)
(* The store, the manager and the updates between them.                    *)
(***************************************************************************)
LEMMA PendingIsSequence ==
  ASSUME TypeOK
  PROVE  /\ Len(pending) \in Nat /\ DOMAIN pending = 1 .. Len(pending)
         /\ \A i \in DOMAIN pending :
              pending[i].op \in Operations /\ pending[i].rec \in Checkpoints
<1> DEFINE R == [op : Operations, rec : Checkpoints]
<1>1. pending \in Seq(R)
  BY DEF TypeOK
<1>2. \A update \in R : update.op \in Operations /\ update.rec \in Checkpoints
  OBVIOUS
<1> HIDE DEF R
<1>3. Len(pending) \in Nat /\ DOMAIN pending = 1 .. Len(pending)
  BY <1>1, LenProperties
<1>4. \A i \in DOMAIN pending : pending[i] \in R
  BY <1>1, <1>3, ElementOfSeq
<1> QED BY <1>2, <1>3, <1>4

\* An update more.
LEMMA OneUpdateMore ==
  ASSUME TypeOK, NEW o \in Operations, NEW rec \in Checkpoints,
         pending' = Append(pending, [op |-> o, rec |-> rec])
  PROVE  /\ DOMAIN pending' = DOMAIN pending \cup {Len(pending) + 1}
         /\ \A i \in DOMAIN pending : pending'[i] = pending[i] /\ i < Len(pending) + 1
         /\ Len(pending) + 1 \notin DOMAIN pending
         /\ pending'[Len(pending) + 1].op = o
         /\ pending'[Len(pending) + 1].rec = rec
<1> DEFINE R == [op : Operations, rec : Checkpoints]
           update == [op |-> o, rec |-> rec]
<1>1. pending \in Seq(R) /\ update \in R
  BY DEF TypeOK
<1>2. update.op = o /\ update.rec = rec
  OBVIOUS
<1> HIDE DEF R, update
<1>3. /\ pending' \in Seq(R)
      /\ Len(pending') = Len(pending) + 1
      /\ \A i \in 1 .. Len(pending) : pending'[i] = pending[i]
      /\ pending'[Len(pending) + 1] = update
  BY <1>1, AppendProperties DEF update
<1>4. DOMAIN pending' = 1 .. Len(pending) + 1
  BY <1>3, LenProperties
<1>5. Len(pending) \in Nat /\ DOMAIN pending = 1 .. Len(pending)
  BY PendingIsSequence
<1> QED BY <1>2, <1>3, <1>4, <1>5

\* The first update is received.
LEMMA OneUpdateLess ==
  ASSUME TypeOK, Receive
  PROVE  /\ 1 \in DOMAIN pending
         /\ stored' = [stored EXCEPT ![pending[1].op] = pending[1].rec]
         /\ \A i \in DOMAIN pending' : i + 1 \in DOMAIN pending /\ pending'[i] = pending[i + 1]
<1>1. pending \in Seq([op : Operations, rec : Checkpoints]) /\ pending # <<>>
  BY DEF TypeOK, Receive
<1>2. /\ Len(pending) \in Nat \ {0} /\ DOMAIN pending = 1 .. Len(pending)
  BY <1>1, EmptySeq, LenProperties
<1>3. /\ pending' \in Seq([op : Operations, rec : Checkpoints])
      /\ Len(pending') = Len(pending) - 1
      /\ \A i \in 1 .. Len(pending') : pending'[i] = pending[i + 1]
  BY <1>1, HeadTailProperties DEF Receive
<1>4. DOMAIN pending' = 1 .. Len(pending')
  BY <1>3, LenProperties
<1>5. Head(pending) = pending[1] /\ 1 \in DOMAIN pending
  BY <1>1, <1>2
<1>6. \A i \in DOMAIN pending' : i + 1 \in DOMAIN pending /\ pending'[i] = pending[i + 1]
  BY <1>2, <1>3, <1>4
<1>7. stored' = [stored EXCEPT ![Head(pending).op] = Head(pending).rec]
  BY DEF Receive
<1> QED BY <1>5, <1>6, <1>7

LEMMA KnownStep == Inv /\ [Next]_vars => Known'
<1> SUFFICES ASSUME Inv, [Next]_vars PROVE Known'
  OBVIOUS
<1>1. TypeOK /\ Known /\ StepKinds
  BY StepKind DEF Inv
<1>2. CASE UNCHANGED <<stored, kind, ops, accepted, pending>>
  BY <1>1, <1>2 DEF Known, Running
<1>3. ASSUME NEW o \in Operations, Record(o) PROVE Known'
  <2>1. /\ stored' = [stored EXCEPT ![o] = Ready] /\ stored[o] = None /\ o \in DOMAIN kind
        /\ UNCHANGED <<kind, ops, accepted, pending>>
    BY <1>3 DEF Record, mvars
  <2>2. Ready \in Checkpoints /\ Good(kind[o], Ready) /\ Ready # None
    BY CheckpointIsNotNone DEF Good, Ready, Checkpoints, Statuses
  <2> QED BY <1>1, <2>1, <2>2 DEF Known, Running, TypeOK
<1>4. ASSUME NEW o \in Operations, NEW rec \in Checkpoints, MovesTo(o, rec) PROVE Known'
  <2>1. \A q \in Operations :
          /\ stored'[q] # None => q \in DOMAIN kind' /\ Good(kind'[q], stored'[q])
          /\ q \in accepted' => stored'[q] # None
    BY <1>1, <1>4 DEF MovesTo, Known
  <2>2. \A q \in Operations :
          ops'[q] # None => /\ q \in accepted' /\ Good(kind'[q], ops'[q]) /\ ~Finished(ops'[q])
                            /\ kind'[q] = "shell" => ops'[q].status = "awaiting"
    BY <1>1, <1>4 DEF MovesTo, Known, Running, TypeOK
  <2>3. \A i \in DOMAIN pending' :
          pending'[i].op \in accepted' /\ Good(kind'[pending'[i].op], pending'[i].rec)
    <3>1. CASE pending' = pending
      BY <1>1, <1>4, <3>1 DEF MovesTo, Known
    <3>2. CASE pending' = Append(pending, [op |-> o, rec |-> rec])
      BY <1>1, <1>4, <3>2, OneUpdateMore DEF MovesTo, Known
    <3> QED BY <1>4, <3>1, <3>2 DEF MovesTo
  <2> QED BY <2>1, <2>2, <2>3 DEF Known, Running
<1>5. CASE Receive
  <2>1. /\ UNCHANGED <<kind, ops, accepted>>
        /\ 1 \in DOMAIN pending
        /\ stored' = [stored EXCEPT ![pending[1].op] = pending[1].rec]
        /\ \A i \in DOMAIN pending' : i + 1 \in DOMAIN pending /\ pending'[i] = pending[i + 1]
    BY <1>1, <1>5, OneUpdateLess DEF Receive
  <2>2. /\ pending[1].op \in accepted /\ pending[1].rec \in Checkpoints
        /\ Good(kind[pending[1].op], pending[1].rec)
        /\ pending[1].op \in DOMAIN kind
        /\ pending[1].rec # None
    BY <1>1, <2>1, PendingIsSequence, CheckpointIsNotNone DEF Known
  <2> QED BY <1>1, <2>1, <2>2 DEF Known, Running, TypeOK
<1>6. CASE HandlerStops
  <2>1. /\ UNCHANGED <<stored, kind, accepted>>
        /\ \A o \in Operations : ops'[o] = None \/ ops'[o] = ops[o]
    BY <1>1, <1>6 DEF HandlerStops
  <2>2. ASSUME NEW i \in DOMAIN pending'
        PROVE  pending'[i].op \in accepted' /\ Good(kind'[pending'[i].op], pending'[i].rec)
    <3>1. CASE i \in DOMAIN pending
      BY <1>1, <1>6, <2>1, <3>1, LostFail DEF Known
    <3>2. CASE i \notin DOMAIN pending
      <4> DEFINE o == pending'[i].op
      <4>1. /\ o \in Operations /\ Running(o) /\ kind[o] = "remote"
            /\ pending'[i].rec \in Checkpoints /\ Finished(pending'[i].rec)
            /\ pending'[i].rec.phase = ops[o].phase
        BY <1>1, <1>6, <3>2, LostFail
      <4>2. o \in accepted /\ ops[o].phase = "none"
        BY <1>1, <4>1 DEF Known, Good
      <4> QED BY <2>1, <4>1, <4>2 DEF Good
    <3> QED BY <3>1, <3>2
  <2> QED BY <1>1, <2>1, <2>2 DEF Known, Running
<1>7. CASE Restart
  BY <1>1, <1>7 DEF Known, Running, Restart
<1> QED BY <1>1, <1>2, <1>3, <1>4, <1>5, <1>6, <1>7 DEF StepKinds

\* The end of an operation is the last the session learns of it.
LEMMA LastIsEndStep == Inv /\ [Next]_vars => LastIsEnd'
<1> SUFFICES ASSUME Inv, [Next]_vars PROVE LastIsEnd'
  OBVIOUS
<1>1. TypeOK /\ Known /\ LastIsEnd /\ StepKinds
  BY StepKind DEF Inv
<1>2. CASE UNCHANGED <<stored, kind, ops, accepted, pending>>
  BY <1>1, <1>2 DEF LastIsEnd, Running
<1>3. ASSUME NEW o \in Operations, Record(o) PROVE LastIsEnd'
  <2>1. /\ stored' = [stored EXCEPT ![o] = Ready]
        /\ UNCHANGED <<kind, ops, accepted, pending>>
    BY <1>3 DEF Record, mvars
  <2>2. ~Finished(Ready)
    BY DEF Finished, Ready, Terminal
  <2> QED BY <1>1, <2>1, <2>2 DEF LastIsEnd, Running, TypeOK
<1>4. ASSUME NEW o \in Operations, NEW rec \in Checkpoints, MovesTo(o, rec) PROVE LastIsEnd'
  <2>1. stored' = stored /\ (Finished(stored[o]) => stored[o] = None)
    BY <1>1, <1>4 DEF MovesTo, LastIsEnd
  <2>2. \A i \in DOMAIN pending : pending[i].op = o => ~Finished(pending[i].rec)
    BY <1>1, <1>4 DEF MovesTo, LastIsEnd, Known
  <2>3. /\ \A q \in Operations : q # o => ops'[q] = ops[q]
        /\ Finished(rec) => ops'[o] = None
    BY <1>1, <1>4 DEF MovesTo, TypeOK
  <2>4. ASSUME pending' = pending PROVE LastIsEnd'
    BY <1>1, <2>1, <2>2, <2>3, <2>4, PendingIsSequence DEF LastIsEnd, Running
  <2>5. ASSUME pending' = Append(pending, [op |-> o, rec |-> rec]) PROVE LastIsEnd'
    <3> DEFINE n == Len(pending) + 1
    <3>1. /\ DOMAIN pending' = DOMAIN pending \cup {n}
          /\ \A i \in DOMAIN pending : pending'[i] = pending[i] /\ i < n
          /\ n \notin DOMAIN pending
          /\ pending'[n].op = o /\ pending'[n].rec = rec
      BY <1>1, <2>5, OneUpdateMore
    <3>2. n \in Nat /\ \A i \in DOMAIN pending : i \in Nat /\ pending[i].op \in Operations
      BY <1>1, PendingIsSequence
    <3> HIDE DEF n
    <3>3. ASSUME NEW i \in DOMAIN pending', Finished(pending'[i].rec)
          PROVE  /\ ops'[pending'[i].op] = None
                 /\ \A j \in DOMAIN pending' : j > i => pending'[j].op # pending'[i].op
      <4>1. CASE i = n
        <5>1. \A j \in DOMAIN pending' : ~(j > n)
          BY <3>1, <3>2
        <5> QED BY <2>3, <3>1, <3>3, <4>1, <5>1
      <4>2. CASE i \in DOMAIN pending
        <5>1. Finished(pending[i].rec) /\ pending[i].op # o /\ pending'[i] = pending[i]
          BY <2>2, <3>1, <3>3, <4>2
        <5>2. /\ ops[pending[i].op] = None
              /\ \A j \in DOMAIN pending : j > i => pending[j].op # pending[i].op
          BY <1>1, <4>2, <5>1 DEF LastIsEnd, Running
        <5> QED BY <2>3, <3>1, <3>2, <4>2, <5>1, <5>2
      <4> QED BY <3>1, <4>1, <4>2
    <3>4. ASSUME NEW q \in Operations, stored'[q] # None, Finished(stored'[q])
          PROVE  ops'[q] = None /\ \A i \in DOMAIN pending' : pending'[i].op # q
      BY <1>1, <2>1, <2>3, <3>1, <3>4 DEF LastIsEnd, Running
    <3> QED BY <3>3, <3>4 DEF LastIsEnd, Running
  <2> QED BY <1>4, <2>4, <2>5 DEF MovesTo
<1>5. CASE Receive
  <2>1. /\ UNCHANGED <<kind, ops, accepted>>
        /\ 1 \in DOMAIN pending
        /\ stored' = [stored EXCEPT ![pending[1].op] = pending[1].rec]
        /\ \A i \in DOMAIN pending' : i + 1 \in DOMAIN pending /\ pending'[i] = pending[i + 1]
    BY <1>1, <1>5, OneUpdateLess DEF Receive
  <2>2. \A i \in DOMAIN pending : i \in Nat /\ i >= 1
    BY <1>1, PendingIsSequence
  <2>3. \A i \in DOMAIN pending' : i \in Nat
    <3>1. \A i \in DOMAIN pending' : i \in DOMAIN Tail(pending)
      BY <1>5 DEF Receive
    <3>2. Tail(pending) \in Seq([op : Operations, rec : Checkpoints])
      BY <1>1, <1>5, HeadTailProperties DEF Receive, TypeOK
    <3> QED BY <3>1, <3>2, LenProperties
  <2>4. ASSUME NEW i \in DOMAIN pending', Finished(pending'[i].rec)
        PROVE  /\ ops'[pending'[i].op] = None
               /\ \A j \in DOMAIN pending' : j > i => pending'[j].op # pending'[i].op
    <3>1. /\ ops[pending[i + 1].op] = None
          /\ \A j \in DOMAIN pending : j > i + 1 => pending[j].op # pending[i + 1].op
      BY <1>1, <2>1, <2>4 DEF LastIsEnd, Running
    <3> QED BY <2>1, <2>3, <3>1
  <2>5. ASSUME NEW q \in Operations, stored'[q] # None, Finished(stored'[q])
        PROVE  ops'[q] = None /\ \A i \in DOMAIN pending' : pending'[i].op # q
    <3>1. CASE q = pending[1].op
      <4>1. Finished(pending[1].rec)
        BY <1>1, <2>1, <2>5, <3>1 DEF TypeOK
      <4>2. /\ ops[q] = None
            /\ \A j \in DOMAIN pending : j > 1 => pending[j].op # q
        BY <1>1, <2>1, <3>1, <4>1 DEF LastIsEnd, Running
      <4>3. \A i \in DOMAIN pending' : i + 1 > 1
        BY <2>1, <2>2, <2>3, PendingIsSequence, <1>5, <1>1, HeadTailProperties
           DEF Receive, TypeOK
      <4> QED BY <2>1, <4>2, <4>3
    <3>2. CASE q # pending[1].op
      BY <1>1, <2>1, <2>5, <3>2 DEF LastIsEnd, Running, TypeOK
    <3> QED BY <3>1, <3>2
  <2> QED BY <2>4, <2>5 DEF LastIsEnd, Running
<1>6. CASE HandlerStops
  <2>1. /\ UNCHANGED <<stored, kind, accepted>>
        /\ \A o \in Operations : ops'[o] = None \/ ops'[o] = ops[o]
    BY <1>1, <1>6 DEF HandlerStops
  <2>2. ASSUME NEW i \in DOMAIN pending', Finished(pending'[i].rec)
        PROVE  /\ ops'[pending'[i].op] = None
               /\ \A j \in DOMAIN pending' : j > i => pending'[j].op # pending'[i].op
    <3>1. CASE i \in DOMAIN pending
      <4>1. /\ pending'[i] = pending[i] /\ ops[pending[i].op] = None
            /\ pending[i].op \in Operations
            /\ \A j \in DOMAIN pending : j > i => pending[j].op # pending[i].op
        BY <1>1, <1>6, <2>2, <3>1, LostFail, PendingIsSequence DEF LastIsEnd, Running
      <4>2. \A j \in DOMAIN pending' : j \notin DOMAIN pending => ops[pending'[j].op] # None
        BY <1>1, <1>6, LostFail DEF Running
      <4> QED BY <1>1, <1>6, <2>1, <4>1, <4>2, LostFail
    <3>2. CASE i \notin DOMAIN pending
      BY <1>1, <1>6, <3>2, LostFail
    <3> QED BY <3>1, <3>2
  <2>3. ASSUME NEW q \in Operations, stored'[q] # None, Finished(stored'[q])
        PROVE  ops'[q] = None /\ \A i \in DOMAIN pending' : pending'[i].op # q
    <3>1. ops[q] = None /\ \A i \in DOMAIN pending : pending[i].op # q
      BY <1>1, <2>1, <2>3 DEF LastIsEnd, Running
    <3> QED BY <1>1, <1>6, <2>1, <3>1, LostFail DEF Running
  <2> QED BY <2>2, <2>3 DEF LastIsEnd, Running
<1>7. CASE Restart
  BY <1>1, <1>7 DEF LastIsEnd, Running, Restart
<1> QED BY <1>1, <1>2, <1>3, <1>4, <1>5, <1>6, <1>7 DEF StepKinds
(***************************************************************************)
(* Commands and their process groups.                                      *)
(***************************************************************************)
LEMMA WorksStep == Inv /\ [Next]_vars => Works'
<1> SUFFICES ASSUME Inv, [Next]_vars PROVE Works'
  OBVIOUS
<1>1. TypeOK /\ Known /\ Works
  BY DEF Inv
<1>2. CASE UNCHANGED <<prims, ops, kind, stage, command, background>>
  BY <1>1, <1>2 DEF Works, Running, Alive
<1>3. ASSUME NEW o \in Operations, NEW step, GoodStep(kind[o], step), NEW waited,
             Accept(o, step, waited, prims \ {<<o, "work">>}),
             kind[o] \in LocalTypes, stage[o] \notin InGroup,
             UNCHANGED <<kind, command, background>>
      PROVE  Works'
  <2>1. /\ ops' = [ops EXCEPT ![o] = IF Finished(step.rec) THEN None ELSE step.rec]
        /\ stage' = [stage EXCEPT ![o] = step.next]
        /\ prims' = IF Finished(step.rec) THEN prims \ {<<o, "work">>}
                    ELSE (prims \ {<<o, "work">>}) \cup {<<o, "work">>}
        /\ step.rec # None /\ step.next \notin InGroup
    BY <1>1, <1>3, AcceptedStep, CheckpointIsNotNone
  <2>2. kind[o] # "remote" /\ ~Alive(o)
    BY <1>1, <1>3 DEF LocalTypes, Works
  <2>3. /\ <<o, "work">> \in prims' =>
             /\ ops'[o] = step.rec
             /\ kind[o] = "shell" /\ stage'[o] = "start" => step.rec.phase = "process"
        /\ stage'[o] = step.next
    BY <1>1, <1>3, <2>1 DEF GoodStep, TypeOK
  <2>4. ASSUME NEW q \in Operations, q # o
        PROVE  /\ <<q, "work">> \in prims' <=> <<q, "work">> \in prims
               /\ ops'[q] = ops[q] /\ stage'[q] = stage[q]
    BY <1>1, <2>1, <2>4 DEF TypeOK
  <2> QED BY <1>1, <1>3, <2>1, <2>2, <2>3, <2>4, ZenonT(60) DEF Works, Running, Alive
<1>4. ASSUME NEW o \in Operations, AddLocal(o) PROVE Works'
  <2>1. /\ kind[o] \in LocalTypes /\ stage[o] \notin InGroup
        /\ \A primitive \in prims : primitive[1] # o
        /\ \E step : GoodStep(kind[o], step) /\ Accept(o, step, active, prims)
    BY <1>4, Added
  <2>2. prims = prims \ {<<o, "work">>}
    <3>1. <<o, "work">>[1] = o
      OBVIOUS
    <3> QED BY <2>1, <3>1
  <2> QED BY <1>3, <1>4, <2>1, <2>2 DEF AddLocal, svars
<1>5. ASSUME NEW o \in Operations, WorkEnds(o) PROVE Works'
  <2>1. /\ kind[o] \in LocalTypes /\ stage[o] \notin InGroup
        /\ \E step : /\ GoodStep(kind[o], step)
                     /\ Accept(o, step, active - 1, prims \ {<<o, "work">>})
    BY <1>5, Worked
  <2> QED BY <1>3, <1>5, <2>1 DEF WorkEnds, svars
<1>6. ASSUME NEW o \in Operations, NEW rec \in Checkpoints, Running(o),
             ops' = [ops EXCEPT ![o] = rec], rec.phase = ops[o].phase,
             stage' = stage \/ (stage[o] \in InGroup /\ stage' = [stage EXCEPT ![o] = "wait"]),
             \A q \in Operations : <<q, "work">> \in prims' <=> <<q, "work">> \in prims,
             UNCHANGED <<kind, command, background>>
      PROVE  Works'
  <2>1. /\ \A q \in Operations : ops'[q] # None <=> ops[q] # None
        /\ \A q \in Operations : ops'[q].phase = ops[q].phase
    BY <1>1, <1>6, CheckpointIsNotNone DEF TypeOK, Running
  <2>2. CASE stage' = stage
    BY <1>1, <1>6, <2>1, <2>2 DEF Works, Running, Alive
  <2>3. CASE stage[o] \in InGroup /\ stage' = [stage EXCEPT ![o] = "wait"]
    <3>1. /\ stage'[o] = "wait" /\ \A q \in Operations : q # o => stage'[q] = stage[q]
          /\ "wait" \in InGroup /\ "wait" # "start"
      BY <1>1, <2>3 DEF TypeOK, InGroup
    <3>2. \A q \in Operations :
            /\ stage'[q] \in InGroup <=> stage[q] \in InGroup
            /\ stage'[q] = "start" => stage[q] = "start"
      BY <2>3, <3>1
    <3> QED BY <1>1, <1>6, <2>1, <3>2 DEF Works, Running, Alive
  <2> QED BY <1>6, <2>2, <2>3
<1>7. ASSUME NEW o \in Operations, CommandStarted(o) PROVE Works'
  <2> DEFINE rec == [ops[o] EXCEPT !.pid = TRUE]
  <2>1. ops[o] \in Checkpoints /\ Running(o) /\ stage[o] \in InGroup
    BY <1>1, <1>7 DEF CommandStarted, Running, TypeOK, InGroup
  <2>2. rec \in Checkpoints /\ rec.phase = ops[o].phase
    BY <2>1 DEF Checkpoints
  <2>3. ops' = [ops EXCEPT ![o] = rec] /\ stage' = [stage EXCEPT ![o] = "wait"]
    BY <1>7 DEF CommandStarted
  <2>4. /\ \A q \in Operations : <<q, "work">> \in prims' <=> <<q, "work">> \in prims
        /\ UNCHANGED <<kind, command, background>>
    BY <1>7 DEF CommandStarted, svars
  <2> HIDE DEF rec
  <2> QED BY <1>6, <2>1, <2>2, <2>3, <2>4
<1>8. ASSUME NEW o \in Operations, TimesOut(o) PROVE Works'
  <2> DEFINE rec == [ops[o] EXCEPT !.timedOut = TRUE]
  <2>1. ops[o] \in Checkpoints /\ Running(o)
    BY <1>1, <1>8 DEF TimesOut, Running, TypeOK
  <2>2. rec \in Checkpoints /\ rec.phase = ops[o].phase
    BY <2>1 DEF Checkpoints
  <2>3. ops' = [ops EXCEPT ![o] = rec] /\ stage' = stage
    BY <1>8 DEF TimesOut
  <2>4. /\ \A q \in Operations : <<q, "work">> \in prims' <=> <<q, "work">> \in prims
        /\ UNCHANGED <<kind, command, background>>
    BY <1>8 DEF TimesOut, svars
  <2> HIDE DEF rec
  <2> QED BY <1>6, <2>1, <2>2, <2>3, <2>4
<1>9. ASSUME NEW o \in Operations,
             TimerPasses(o, "timeout") \/ TimerPasses(o, "kill") \/ Kill(o)
      PROVE  Works'
  <2>1. /\ \A q \in Operations : <<q, "work">> \in prims' <=> <<q, "work">> \in prims
        /\ UNCHANGED <<kind, ops, stage>>
    BY <1>9 DEF TimerPasses, Kill
  <2>2. \A q \in Operations : Alive(q)' => Alive(q)
    BY <1>1, <1>9 DEF TimerPasses, Kill, Alive, svars, TypeOK
  <2> QED BY <1>1, <2>1, <2>2 DEF Works, Running
<1>10. ASSUME NEW o \in Operations, NEW c \in Correlations, Unclaimed(o, c) \/ Drained(o, c)
       PROVE  Works'
  <2>1. /\ prims' = prims \ {<<o, c>>}
        /\ UNCHANGED <<kind, ops, stage, command, background>>
        /\ c = "work" => stage[o] \notin InGroup
    BY <1>10 DEF Unclaimed, Drained, Outcomes, InGroup, svars
  <2>2. \A q \in Operations : <<q, "work">> \in prims /\ <<q, "work">> \notin prims' => q = o /\ c = "work"
    BY <2>1
  <2>3. \A q \in Operations : <<q, "work">> \in prims' => <<q, "work">> \in prims
    BY <2>1
  <2>4. ASSUME NEW q \in Operations, stage'[q] \in InGroup PROVE <<q, "work">> \in prims'
    BY <1>1, <2>1, <2>2, <2>4 DEF Works
  <2> QED BY <1>1, <2>1, <2>3, <2>4 DEF Works, Running, Alive
<1>11. ASSUME NEW lost \in SUBSET Operations,
              \A o \in lost : <<o, "work">> \notin prims,
              \A o \in Operations : o \notin lost => ops'[o] = ops[o],
              UNCHANGED <<kind, prims, stage, command, background>>
       PROVE  Works'
  BY <1>1, <1>11 DEF Works, Running, Alive
<1>12. ASSUME NEW o \in Operations, AddRemote(o) \/ RemoteUpdate(o) PROVE Works'
  <2>1. <<o, "work">> \notin prims
    BY <1>1, <1>12 DEF AddRemote, RemoteUpdate, Works
  <2>2. /\ \A q \in Operations : q # o => ops'[q] = ops[q]
        /\ UNCHANGED <<kind, prims, stage, command, background>>
    BY <1>1, <1>12 DEF AddRemote, RemoteUpdate, Forget, TypeOK, pvars, svars
  <2>3. /\ {o} \in SUBSET Operations
        /\ \A q \in {o} : <<q, "work">> \notin prims
        /\ \A q \in Operations : q \notin {o} => ops'[q] = ops[q]
    BY <2>1, <2>2
  <2> QED BY <1>11, <2>2, <2>3
<1>13. CASE HandlerStops
  <2> DEFINE lost == {o \in Operations : Running(o) /\ kind[o] = "remote"}
  <2>1. \A o \in lost : <<o, "work">> \notin prims
    BY <1>1 DEF Works
  <2>2. /\ \A o \in Operations : o \notin lost => ops'[o] = ops[o]
        /\ UNCHANGED <<kind, prims, stage, command, background>>
    BY <1>13 DEF HandlerStops, pvars, svars
  <2> HIDE DEF lost
  <2>3. lost \in SUBSET Operations
    BY DEF lost
  <2> QED BY <1>11, <2>1, <2>2, <2>3
<1>14. ASSUME NEW o \in Operations, PrimitiveNext(o) PROVE Works'
  <2>1. CASE Launch(o)
    BY <1>1, <2>1, ZenonT(60) DEF Launch, Works, Running, Alive, InGroup, TypeOK, mvars
  <2>2. CASE StartEnds(o)
    BY <1>1, <2>2, ZenonT(60) DEF StartEnds, Works, Running, Alive, InGroup, TypeOK, mvars, svars
  <2>3. CASE SkipStarted(o) \/ Terminate(o)
    <3>1. /\ stage[o] \in InGroup
          /\ stage'[o] \in InGroup \ {"start"}
          /\ \A q \in Operations : q # o => stage'[q] = stage[q]
          /\ UNCHANGED <<prims, ops, kind, command, background>>
      BY <1>1, <2>3 DEF SkipStarted, Terminate, InGroup, TypeOK, mvars, svars
    <3> QED BY <1>1, <3>1 DEF Works, Running, Alive
  <2>4. CASE CommandExits(o)
    BY <1>1, <2>4 DEF CommandExits, Works, Running, Alive, TypeOK, mvars, pvars
  <2>5. CASE OthersExit(o)
    BY <1>1, <2>5 DEF OthersExit, Works, Running, Alive, mvars, pvars
  <2>6. CASE GroupEnds(o)
    <3>1. /\ ~Alive(o)' /\ \A q \in Operations : q # o => (Alive(q)' => Alive(q))
      BY <1>1, <2>6 DEF GroupEnds, Alive, TypeOK
    <3>2. /\ stage'[o] \notin InGroup \cup {"start"}
          /\ \A q \in Operations : q # o => stage'[q] = stage[q]
          /\ UNCHANGED <<prims, ops, kind>>
      BY <1>1, <2>6 DEF GroupEnds, TypeOK, InGroup, mvars
    <3> QED BY <1>1, <3>1, <3>2 DEF Works, Running
  <2> QED BY <1>14, <2>1, <2>2, <2>3, <2>4, <2>5, <2>6 DEF PrimitiveNext
<1>15. CASE Restart
  BY <1>15 DEF Restart, Works, Running, Alive, InGroup
<1>16. ASSUME NEW o \in Operations, Record(o) \/ Cancel(o) \/ Progress(o) PROVE Works'
  BY <1>2, <1>16 DEF Record, Cancel, Progress, mvars, pvars, svars
<1>17. CASE Receive \/ HandlerCloses \/ Stop \/ Drains \/ Close \/ UNCHANGED vars
  BY <1>2, <1>17 DEF Receive, HandlerCloses, Stop, Drains, Close, vars, mvars, pvars, svars
<1> QED BY <1>4, <1>5, <1>7, <1>8, <1>9, <1>10, <1>12, <1>13, <1>14, <1>15, <1>16, <1>17
       DEF Next, ManagerNext

LEMMA ClosedStep == Inv /\ [Next]_vars => ClosedIsEmpty'
<1> SUFFICES ASSUME Inv, [Next]_vars PROVE ClosedIsEmpty'
  OBVIOUS
<1>1. TypeOK /\ ClosedIsEmpty /\ ActiveIsOutstanding /\ Works
  BY DEF Inv
<1>2. CASE UNCHANGED <<manager, prims>>
  BY <1>1, <1>2 DEF ClosedIsEmpty
<1>3. CASE Close
  <2>1. Cardinality(prims) = 0 /\ IsFiniteSet(prims) /\ prims' = prims
    BY <1>1, <1>3, PrimitivesAreFinite DEF Close, ActiveIsOutstanding, TypeOK, pvars
  <2> QED BY <2>1, FS_EmptySet DEF ClosedIsEmpty
<1>4. CASE manager' # "closed"
  BY <1>4 DEF ClosedIsEmpty
<1>5. ASSUME NEW o \in Operations, ManagerNext(o) PROVE ClosedIsEmpty'
  <2>1. manager' # "closed"
    BY <1>5 DEF ManagerNext, AddLocal, AddRemote, Addable, Cancel, WorkEnds, CommandStarted,
                Progress, TimerPasses, TimesOut, Kill, Unclaimed, Drained, RemoteUpdate
  <2> QED BY <1>4, <2>1
<1>6. ASSUME NEW o \in Operations, Record(o) \/ PrimitiveNext(o) PROVE ClosedIsEmpty'
  BY <1>2, <1>6 DEF Record, PrimitiveNext, Launch, StartEnds, CommandExits, OthersExit,
                    SkipStarted, Terminate, GroupEnds, mvars, pvars
<1>7. CASE \/ Receive \/ HandlerCloses \/ HandlerStops \/ Stop \/ UNCHANGED vars
  BY <1>2, <1>7 DEF Receive, HandlerCloses, HandlerStops, Stop, vars, mvars, pvars
<1>8. CASE Drains \/ Restart
  BY <1>4, <1>8 DEF Drains, Restart
<1> QED BY <1>3, <1>5, <1>6, <1>7, <1>8 DEF Next
(***************************************************************************)
(* Timers.                                                                 *)
(***************************************************************************)
\* What TimersSet says of one operation.
TimersOf(o) ==
  /\ \A timer \in Timers :
       <<o, timer>> \in prims =>
         /\ o \in accepted
         /\ kind[o] = "shell"
         /\ stage[o] \notin {"start", "launched"}
         /\ Running(o) => ops[o].phase \in {"process"} \cup ReadPhases
  /\ <<o, "timeout">> \notin prims \/ <<o, "kill">> \notin prims

LEMMA TimersStep == Inv /\ [Next]_vars => TimersSet'
<1> SUFFICES ASSUME Inv, [Next]_vars PROVE TimersSet'
  OBVIOUS
<1>1. TypeOK /\ Known /\ Works /\ \A o \in Operations : TimersOf(o)
  BY DEF Inv, TimersSet, TimersOf
<1>2. \A o \in Operations, timer \in Timers : <<o, "work">> # <<o, timer>>
  BY DEF Timers
<1>3. ASSUME NEW o \in Operations, TimersOf(o)',
             \A q \in Operations :
               q # o => /\ \A timer \in Timers :
                             <<q, timer>> \in prims' => <<q, timer>> \in prims
                        /\ q \in accepted => q \in accepted'
                        /\ ops'[q] = ops[q] /\ stage'[q] = stage[q],
             kind' = kind
      PROVE  TimersSet'
  <2>1. \A q \in Operations : q # o => TimersOf(q)'
    BY <1>1, <1>3 DEF TimersOf, Running, Timers
  <2> QED BY <1>3, <2>1 DEF TimersSet, TimersOf
<1>4. CASE /\ \A o \in Operations, timer \in Timers :
                <<o, timer>> \in prims' => <<o, timer>> \in prims
           /\ UNCHANGED <<accepted, kind, ops>>
           /\ \A o \in Operations : stage'[o] \in {"start", "launched"} =>
                                     stage[o] \in {"start", "launched"}
  BY <1>1, <1>4 DEF TimersSet, TimersOf, Running, Timers
<1>5. ASSUME NEW o \in Operations, AddLocal(o) PROVE TimersSet'
  <2>1. /\ \A primitive \in prims : primitive[1] # o
        /\ \E step : GoodStep(kind[o], step) /\ Accept(o, step, active, prims)
    BY <1>5, Added
  <2>2. PICK step : GoodStep(kind[o], step) /\ Accept(o, step, active, prims)
    BY <2>1
  <2>3. /\ ops' = [ops EXCEPT ![o] = IF Finished(step.rec) THEN None ELSE step.rec]
        /\ stage' = [stage EXCEPT ![o] = step.next]
        /\ prims' = IF Finished(step.rec) THEN prims ELSE prims \cup {<<o, "work">>}
    BY <1>1, <2>2, AcceptedStep
  <2>4. \A timer \in Timers : <<o, timer>> \notin prims'
    <3>1. \A timer : <<o, timer>>[1] = o
      OBVIOUS
    <3>2. \A timer \in Timers : <<o, timer>> \notin prims
      BY <2>1, <3>1
    <3> QED BY <1>2, <2>3, <3>2
  <2>5. TimersOf(o)'
    BY <2>4 DEF TimersOf, Timers
  <2> QED BY <1>1, <1>3, <1>5, <2>3, <2>5 DEF AddLocal, Timers, TypeOK
<1>6. ASSUME NEW o \in Operations, WorkEnds(o) PROVE TimersSet'
  <2>1. PICK step :
          /\ GoodStep(kind[o], step)
          /\ Accept(o, step, active - 1, prims \ {<<o, "work">>})
          /\ step.next = "start" =>
               \/ kind[o] = "image"
               \/ kind[o] = "shell" /\ ops[o].phase = "create_err"
          /\ (kind[o] = "shell" /\ ops[o].phase \in {"process"} \cup ReadPhases) =>
               Finished(step.rec) \/ step.rec.phase \in ReadPhases
    BY <1>6, Worked
  <2>2. /\ ops' = [ops EXCEPT ![o] = IF Finished(step.rec) THEN None ELSE step.rec]
        /\ stage' = [stage EXCEPT ![o] = step.next]
        /\ prims' \subseteq prims \cup {<<o, "work">>}
        /\ step.next # "launched"
        /\ UNCHANGED <<kind, accepted>>
        /\ Running(o)
    <3> DEFINE waited == active - 1
               left == prims \ {<<o, "work">>}
    <3>0. GoodStep(kind[o], step) /\ Accept(o, step, waited, left)
      BY <2>1
    <3> HIDE DEF waited, left
    <3>1. /\ ops' = [ops EXCEPT ![o] = IF Finished(step.rec) THEN None ELSE step.rec]
          /\ stage' = [stage EXCEPT ![o] = step.next]
          /\ prims' = IF Finished(step.rec) THEN left
                      ELSE left \cup {<<o, "work">>}
          /\ step.next \notin InGroup
      BY <1>1, <3>0, AcceptedStep
    <3>2. UNCHANGED <<kind, accepted>> /\ Running(o)
      BY <1>6 DEF WorkEnds
    <3>3. prims' \subseteq prims \cup {<<o, "work">>}
      BY <3>1 DEF left
    <3> QED BY <3>1, <3>2, <3>3 DEF InGroup
  <2>3. ASSUME NEW timer \in Timers, <<o, timer>> \in prims'
        PROVE  /\ o \in accepted' /\ kind'[o] = "shell"
               /\ stage'[o] \notin {"start", "launched"}
               /\ Running(o)' => ops'[o].phase \in {"process"} \cup ReadPhases
    <3>1. <<o, timer>> \in prims
      BY <1>2, <2>2, <2>3
    <3>2. /\ o \in accepted /\ kind[o] = "shell"
          /\ ops[o].phase \in {"process"} \cup ReadPhases
      BY <1>1, <2>2, <3>1 DEF TimersOf
    <3>3. step.next # "start"
      BY <2>1, <3>2 DEF ReadPhases
    <3>4. ops'[o] = (IF Finished(step.rec) THEN None ELSE step.rec) /\ stage'[o] = step.next
      BY <1>1, <2>2 DEF TypeOK
    <3> QED BY <2>1, <2>2, <3>2, <3>3, <3>4 DEF Running
  <2>4. <<o, "timeout">> \notin prims' \/ <<o, "kill">> \notin prims'
    BY <1>1, <2>2 DEF TimersOf
  <2>5. TimersOf(o)'
    BY <2>3, <2>4 DEF TimersOf
  <2>6. \A q \in Operations : q # o => ops'[q] = ops[q] /\ stage'[q] = stage[q]
    BY <1>1, <2>2 DEF TypeOK
  <2> QED BY <1>3, <2>2, <2>5, <2>6
<1>7. ASSUME NEW o \in Operations, CommandStarted(o) PROVE TimersSet'
  <2>1. /\ \A timer \in Timers : <<o, timer>> \notin prims
        /\ kind[o] = "shell" /\ ops[o].phase = "process" /\ o \in accepted
        /\ ops[o] \in Checkpoints
    BY <1>1, <1>7 DEF CommandStarted, TimersOf, Works, Known, InGroup, Good
  <2>2. /\ ops' = [ops EXCEPT ![o] = [ops[o] EXCEPT !.pid = TRUE]]
        /\ stage' = [stage EXCEPT ![o] = "wait"]
        /\ prims' \subseteq prims \cup {<<o, "timeout">>}
        /\ UNCHANGED <<kind, accepted>>
    BY <1>7 DEF CommandStarted
  <2>3. ops'[o].phase = "process" /\ stage'[o] = "wait"
    BY <1>1, <2>1, <2>2 DEF TypeOK, Checkpoints
  <2>4. TimersOf(o)'
    BY <2>1, <2>2, <2>3 DEF TimersOf, Timers
  <2>5. \A q \in Operations : q # o => ops'[q] = ops[q] /\ stage'[q] = stage[q]
    BY <1>1, <2>2 DEF TypeOK
  <2> QED BY <1>3, <2>2, <2>4, <2>5
<1>8. ASSUME NEW o \in Operations, TimesOut(o) PROVE TimersSet'
  <2>1. /\ <<o, "timeout">> \in prims /\ Running(o) /\ ops[o].phase = "process"
        /\ ops[o] \in Checkpoints
    BY <1>1, <1>8 DEF TimesOut, TimerActs, Running, TypeOK
  <2>2. /\ ops' = [ops EXCEPT ![o] = [ops[o] EXCEPT !.timedOut = TRUE]]
        /\ prims' = (prims \ {<<o, "timeout">>}) \cup {<<o, "kill">>}
        /\ UNCHANGED <<kind, accepted, stage>>
    BY <1>8 DEF TimesOut
  <2>3. /\ o \in accepted /\ kind[o] = "shell" /\ stage[o] \notin {"start", "launched"}
    BY <1>1, <2>1 DEF TimersOf, Timers
  <2>4. ops'[o].phase = "process"
    BY <1>1, <2>1, <2>2 DEF TypeOK, Checkpoints
  <2>5. TimersOf(o)'
    BY <2>2, <2>3, <2>4 DEF TimersOf, Timers
  <2>6. \A q \in Operations : q # o => ops'[q] = ops[q]
    BY <1>1, <2>2 DEF TypeOK
  <2> QED BY <1>3, <2>2, <2>5, <2>6
<1>9. ASSUME NEW o \in Operations,
             \/ TimerPasses(o, "timeout") \/ TimerPasses(o, "kill") \/ Kill(o)
             \/ \E c \in Correlations : Unclaimed(o, c) \/ Drained(o, c)
      PROVE  TimersSet'
  <2>1. prims' \subseteq prims /\ UNCHANGED <<accepted, kind, ops, stage>>
    BY <1>9 DEF TimerPasses, Kill, Unclaimed, Drained
  <2> QED BY <1>4, <2>1
<1>10. ASSUME NEW lost \in SUBSET Operations,
              \A o \in lost : kind[o] = "remote",
              \A o \in Operations : o \notin lost => ops'[o] = ops[o],
              accepted \subseteq accepted',
              UNCHANGED <<kind, prims, stage>>
       PROVE  TimersSet'
  <2>1. ASSUME NEW o \in Operations PROVE TimersOf(o)'
    BY <1>1, <1>10 DEF TimersOf, Running
  <2> QED BY <2>1 DEF TimersSet, TimersOf
<1>11. ASSUME NEW o \in Operations, AddRemote(o) \/ RemoteUpdate(o) PROVE TimersSet'
  <2>1. kind[o] = "remote"
    BY <1>11 DEF AddRemote, RemoteUpdate
  <2>2. /\ \A q \in Operations : q # o => ops'[q] = ops[q]
        /\ accepted \subseteq accepted'
        /\ UNCHANGED <<kind, prims, stage>>
    BY <1>1, <1>11 DEF AddRemote, RemoteUpdate, Forget, TypeOK, pvars
  <2>3. /\ {o} \in SUBSET Operations
        /\ \A q \in {o} : kind[q] = "remote"
        /\ \A q \in Operations : q \notin {o} => ops'[q] = ops[q]
    BY <2>1, <2>2
  <2> QED BY <1>10, <2>2, <2>3
<1>12. CASE HandlerStops
  <2> DEFINE lost == {o \in Operations : Running(o) /\ kind[o] = "remote"}
  <2>1. /\ lost \in SUBSET Operations /\ \A o \in lost : kind[o] = "remote"
        /\ \A o \in Operations : o \notin lost => ops'[o] = ops[o]
        /\ UNCHANGED <<kind, accepted, prims, stage>>
    BY <1>12 DEF HandlerStops, pvars
  <2> HIDE DEF lost
  <2> QED BY <1>10, <2>1
<1>13. ASSUME NEW o \in Operations, PrimitiveNext(o) PROVE TimersSet'
  <2>1. UNCHANGED <<prims, accepted, kind, ops>>
    BY <1>13 DEF PrimitiveNext, Launch, StartEnds, CommandExits, OthersExit, SkipStarted,
                 Terminate, GroupEnds, mvars, pvars
  <2>2. \A q \in Operations : stage'[q] \in {"start", "launched"} =>
                              stage[q] \in {"start", "launched"}
    <3>1. \/ stage' = stage
          \/ stage[o] = "start" /\ stage' = [stage EXCEPT ![o] = "launched"]
          \/ \E s \in Stages \ {"start", "launched"} : stage' = [stage EXCEPT ![o] = s]
          \/ stage[o] = "start" /\ stage' = [stage EXCEPT ![o] = "compute"]
      BY <1>13 DEF PrimitiveNext, Launch, StartEnds, CommandExits, OthersExit, SkipStarted,
                   Terminate, GroupEnds, pvars, Stages, Ended
    <3> QED BY <1>1, <3>1 DEF TypeOK
  <2> QED BY <1>4, <2>1, <2>2
<1>14. CASE Restart
  BY <1>14 DEF Restart, TimersSet
<1>15. ASSUME NEW o \in Operations, Record(o) \/ Cancel(o) \/ Progress(o) PROVE TimersSet'
  BY <1>4, <1>15 DEF Record, Cancel, Progress, mvars, pvars
<1>16. CASE Receive \/ HandlerCloses \/ Stop \/ Drains \/ Close \/ UNCHANGED vars
  BY <1>4, <1>16 DEF Receive, HandlerCloses, Stop, Drains, Close, vars, mvars, pvars
<1> QED BY <1>5, <1>6, <1>7, <1>8, <1>9, <1>11, <1>12, <1>13, <1>14, <1>15, <1>16
       DEF Next, ManagerNext

(***************************************************************************)
(* What was known to have begun.                                           *)
(***************************************************************************)
NotAtStartOf(o) ==
  /\ o \in DOMAIN kind /\ kind[o] \in {"code", "edit", "shell"}
  /\ o \notin accepted => KnownBegun(o)
  /\ <<o, "work">> \in prims => stage[o] # "start"
  /\ (Running(o) /\ kind[o] = "shell") => ops[o].phase \in ReadPhases

LEMMA NotAtStartStep == Inv /\ [Next]_vars => NotAtStart'
<1> SUFFICES ASSUME Inv, [Next]_vars PROVE NotAtStart'
  OBVIOUS
<1>1. /\ TypeOK /\ Known /\ Works /\ StepKinds
      /\ \A o \in begun : o \in Operations /\ NotAtStartOf(o)
  BY StepKind DEF Inv, NotAtStart, NotAtStartOf, TypeOK
<1>2. ASSUME NEW o \in Operations,
             begun' = begun, kind' = kind, accepted \subseteq accepted',
             \A q \in Operations :
               q # o => /\ stored'[q] = stored[q] /\ ops'[q] = ops[q] /\ stage'[q] = stage[q]
                        /\ <<q, "work">> \in prims' => <<q, "work">> \in prims,
             o \in begun => NotAtStartOf(o)'
      PROVE  NotAtStart'
  <2>1. \A q \in begun : q # o => NotAtStartOf(q)'
    BY <1>1, <1>2 DEF NotAtStartOf, KnownBegun, Running
  <2> QED BY <1>2, <2>1 DEF NotAtStart, NotAtStartOf
<1>3. CASE /\ UNCHANGED <<begun, kind, accepted, stored, ops>>
           /\ \A o \in Operations : <<o, "work">> \in prims' => <<o, "work">> \in prims
           /\ \A o \in Operations : stage'[o] = "start" => stage[o] = "start"
  <2>1. \A o \in begun : NotAtStartOf(o)'
    BY <1>1, <1>3 DEF NotAtStartOf, KnownBegun, Running
  <2> QED BY <1>3, <2>1 DEF NotAtStart, NotAtStartOf
<1>4. ASSUME NEW o \in Operations, AddLocal(o) PROVE NotAtStart'
  <2>1. PICK step :
          /\ GoodStep(kind[o], step) /\ Accept(o, step, active, prims)
          /\ o \in begun =>
               /\ step.next # "start"
               /\ Finished(step.rec) \/ (kind[o] = "shell" /\ step.rec.phase \in ReadPhases)
    BY <1>4, Added
  <2>2. /\ ops' = [ops EXCEPT ![o] = IF Finished(step.rec) THEN None ELSE step.rec]
        /\ stage' = [stage EXCEPT ![o] = step.next]
        /\ prims' = IF Finished(step.rec) THEN prims ELSE prims \cup {<<o, "work">>}
    BY <1>1, <2>1, AcceptedStep
  <2>3. /\ UNCHANGED <<begun, kind, stored>> /\ accepted' = accepted \cup {o}
    BY <1>4 DEF AddLocal, history
  <2>4. /\ ops'[o] = (IF Finished(step.rec) THEN None ELSE step.rec) /\ stage'[o] = step.next
        /\ \A q \in Operations :
             q # o => /\ ops'[q] = ops[q] /\ stage'[q] = stage[q]
                      /\ <<q, "work">> \in prims' => <<q, "work">> \in prims
    BY <1>1, <2>2 DEF TypeOK
  <2>5. o \in begun => NotAtStartOf(o)'
    BY <1>1, <2>1, <2>3, <2>4 DEF NotAtStartOf, Running
  <2> QED BY <1>2, <2>3, <2>4, <2>5
<1>5. ASSUME NEW o \in Operations, WorkEnds(o) PROVE NotAtStart'
  <2>1. /\ Running(o)
        /\ \E step :
          /\ GoodStep(kind[o], step)
          /\ Accept(o, step, active - 1, prims \ {<<o, "work">>})
          /\ step.next = "start" =>
               \/ kind[o] = "image"
               \/ kind[o] = "shell" /\ ops[o].phase = "create_err"
          /\ (kind[o] = "shell" /\ ops[o].phase \in {"process"} \cup ReadPhases) =>
               Finished(step.rec) \/ step.rec.phase \in ReadPhases
    BY <1>5, Worked
  <2>2. PICK step :
          /\ GoodStep(kind[o], step)
          /\ Accept(o, step, active - 1, prims \ {<<o, "work">>})
          /\ step.next = "start" =>
               \/ kind[o] = "image"
               \/ kind[o] = "shell" /\ ops[o].phase = "create_err"
          /\ (kind[o] = "shell" /\ ops[o].phase \in {"process"} \cup ReadPhases) =>
               Finished(step.rec) \/ step.rec.phase \in ReadPhases
    BY <2>1
  <2>3. /\ ops' = [ops EXCEPT ![o] = IF Finished(step.rec) THEN None ELSE step.rec]
        /\ stage' = [stage EXCEPT ![o] = step.next]
        /\ prims' \subseteq prims \cup {<<o, "work">>}
    <3> DEFINE waited == active - 1
               left == prims \ {<<o, "work">>}
    <3>0. GoodStep(kind[o], step) /\ Accept(o, step, waited, left)
      BY <2>2
    <3> HIDE DEF waited, left
    <3>1. /\ ops' = [ops EXCEPT ![o] = IF Finished(step.rec) THEN None ELSE step.rec]
          /\ stage' = [stage EXCEPT ![o] = step.next]
          /\ prims' = IF Finished(step.rec) THEN left
                      ELSE left \cup {<<o, "work">>}
      BY <1>1, <3>0, AcceptedStep
    <3>2. prims' \subseteq prims \cup {<<o, "work">>}
      BY <3>1 DEF left
    <3> QED BY <3>1, <3>2
  <2>4. /\ UNCHANGED <<begun, kind, stored, accepted>>
    BY <1>5 DEF WorkEnds, history
  <2>5. /\ ops'[o] = (IF Finished(step.rec) THEN None ELSE step.rec) /\ stage'[o] = step.next
        /\ \A q \in Operations :
             q # o => /\ ops'[q] = ops[q] /\ stage'[q] = stage[q]
                      /\ <<q, "work">> \in prims' => <<q, "work">> \in prims
    BY <1>1, <2>3 DEF TypeOK
  <2>6. ASSUME o \in begun PROVE NotAtStartOf(o)'
    <3>1. NotAtStartOf(o)
      BY <1>1, <2>6
    <3>2. kind[o] = "shell" => ops[o].phase \in ReadPhases
      BY <2>1, <3>1 DEF NotAtStartOf
    <3>3. step.next # "start"
      BY <2>2, <3>1, <3>2 DEF NotAtStartOf, ReadPhases
    <3> QED BY <1>1, <2>2, <2>4, <2>5, <3>1, <3>2, <3>3, <2>1 DEF NotAtStartOf, Running, Known
  <2> QED BY <1>2, <2>4, <2>5, <2>6
<1>6. ASSUME NEW o \in Operations, CommandStarted(o) \/ TimesOut(o) PROVE NotAtStart'
  <2>1. /\ ops[o] \in Checkpoints /\ o \in accepted
        /\ ops[o].phase = "process" /\ kind[o] = "shell" /\ Running(o)
    <3>1. CASE CommandStarted(o)
      BY <1>1, <3>1 DEF CommandStarted, Running, TypeOK, Works, Known, InGroup
    <3>2. CASE TimesOut(o)
      BY <1>1, <3>2 DEF TimesOut, TimerActs, Running, TypeOK, Known, Inv, TimersSet, Timers
    <3> QED BY <1>6, <3>1, <3>2
  <2>2. o \notin begun
    BY <1>1, <2>1 DEF NotAtStartOf, ReadPhases
  <2>3. /\ UNCHANGED <<begun, kind, stored, accepted>>
        /\ \A q \in Operations : q # o => ops'[q] = ops[q] /\ stage'[q] = stage[q]
        /\ \A q \in Operations : <<q, "work">> \in prims' => <<q, "work">> \in prims
    BY <1>1, <1>6 DEF CommandStarted, TimesOut, TypeOK, history
  <2> QED BY <1>2, <2>2, <2>3
<1>7. ASSUME NEW o \in Operations, Record(o) PROVE NotAtStart'
  <2>1. o \notin begun
    BY <1>1, <1>7 DEF Record, NotAtStartOf, KnownBegun, Known
  <2>2. /\ UNCHANGED <<begun, kind, ops, accepted, stage, prims>>
        /\ \A q \in Operations : q # o => stored'[q] = stored[q]
    BY <1>1, <1>7 DEF Record, mvars, pvars, history, TypeOK
  <2> QED BY <1>2, <2>1, <2>2
<1>8. CASE Receive
  <2>1. /\ 1 \in DOMAIN pending
        /\ stored' = [stored EXCEPT ![pending[1].op] = pending[1].rec]
        /\ UNCHANGED <<begun, kind, ops, accepted, stage, prims>>
    BY <1>1, <1>8, OneUpdateLess DEF Receive, pvars, history
  <2>2. pending[1].op \in accepted /\ pending[1].op \in Operations
    BY <1>1, <2>1, PendingIsSequence DEF Known
  <2>3. \A o \in begun : NotAtStartOf(o)'
    BY <1>1, <2>1, <2>2 DEF NotAtStartOf, KnownBegun, Running, TypeOK
  <2> QED BY <2>1, <2>3 DEF NotAtStart, NotAtStartOf
<1>9. ASSUME NEW lost \in SUBSET Operations, \A o \in lost : kind[o] = "remote",
             \A o \in Operations : o \notin lost => ops'[o] = ops[o],
             accepted \subseteq accepted',
             UNCHANGED <<begun, kind, stored, prims, stage>>
      PROVE  NotAtStart'
  <2>1. ASSUME NEW o \in begun PROVE NotAtStartOf(o)'
    BY <1>1, <1>9 DEF NotAtStartOf, KnownBegun, Running
  <2> QED BY <1>9, <2>1 DEF NotAtStart, NotAtStartOf
<1>10. ASSUME NEW o \in Operations, AddRemote(o) \/ RemoteUpdate(o) PROVE NotAtStart'
  <2>1. kind[o] = "remote"
    BY <1>10 DEF AddRemote, RemoteUpdate
  <2>2. /\ \A q \in Operations : q # o => ops'[q] = ops[q]
        /\ accepted \subseteq accepted'
        /\ UNCHANGED <<begun, kind, stored, prims, stage>>
    BY <1>1, <1>10 DEF AddRemote, RemoteUpdate, Forget, TypeOK, pvars, history
  <2>3. /\ {o} \in SUBSET Operations
        /\ \A q \in {o} : kind[q] = "remote"
        /\ \A q \in Operations : q \notin {o} => ops'[q] = ops[q]
    BY <2>1, <2>2
  <2> QED BY <1>9, <2>2, <2>3
<1>11. CASE HandlerStops
  <2> DEFINE lost == {o \in Operations : Running(o) /\ kind[o] = "remote"}
  <2>1. /\ lost \in SUBSET Operations /\ \A o \in lost : kind[o] = "remote"
        /\ \A o \in Operations : o \notin lost => ops'[o] = ops[o]
        /\ UNCHANGED <<begun, kind, accepted, stored, prims, stage>>
    BY <1>11 DEF HandlerStops, pvars, history
  <2> HIDE DEF lost
  <2> QED BY <1>9, <2>1
<1>12. CASE Restart
  <2>1. ASSUME NEW o \in begun' PROVE NotAtStartOf(o)'
    <3>1. o \in Operations /\ KnownBegun(o) /\ o \in DOMAIN kind
      BY <1>1, <1>12, <2>1 DEF Restart, KnownBegun, Known
    <3>2. KnownBegun(o)'
      BY <1>12, <3>1 DEF Restart, KnownBegun
    <3>3. kind' = kind /\ prims' = {} /\ ops'[o] = None
      BY <1>12, <3>1 DEF Restart
    <3>4. kind[o] \in {"code", "edit", "shell"}
      BY <3>1 DEF KnownBegun
    <3> QED BY <3>1, <3>2, <3>3, <3>4 DEF NotAtStartOf, Running
  <2> QED BY <2>1 DEF NotAtStart, NotAtStartOf
<1>13. ASSUME NEW o \in Operations, PrimitiveNext(o) PROVE NotAtStart'
  <2>1. UNCHANGED <<begun, prims, accepted, kind, stored, ops>>
    BY <1>13 DEF PrimitiveNext, Launch, StartEnds, CommandExits, OthersExit, SkipStarted,
                 Terminate, GroupEnds, mvars, pvars, history
  <2>2. \A q \in Operations : stage'[q] = "start" => stage[q] = "start"
    <3>1. stage' = stage \/ \E s \in Stages \ {"start"} : stage' = [stage EXCEPT ![o] = s]
      BY <1>13 DEF PrimitiveNext, Launch, StartEnds, CommandExits, OthersExit, SkipStarted,
                   Terminate, GroupEnds, pvars, Stages, Ended
    <3> QED BY <1>1, <3>1 DEF TypeOK
  <2> QED BY <1>3, <2>1, <2>2
<1>14. ASSUME NEW o \in Operations,
              \/ TimerPasses(o, "timeout") \/ TimerPasses(o, "kill") \/ Kill(o)
              \/ \E c \in Correlations : Unclaimed(o, c) \/ Drained(o, c)
              \/ Cancel(o) \/ Progress(o)
       PROVE  NotAtStart'
  <2>1. prims' \subseteq prims /\ UNCHANGED <<begun, accepted, kind, stored, ops, stage>>
    BY <1>14 DEF TimerPasses, Kill, Unclaimed, Drained, Cancel, Progress, pvars, history
  <2> QED BY <1>3, <2>1
<1>15. CASE HandlerCloses \/ Stop \/ Drains \/ Close \/ UNCHANGED vars
  BY <1>3, <1>15 DEF HandlerCloses, Stop, Drains, Close, vars, mvars, pvars, history
<1> QED BY <1>4, <1>5, <1>6, <1>7, <1>8, <1>10, <1>11, <1>12, <1>13, <1>14, <1>15
       DEF Next, ManagerNext
(***************************************************************************)
(* The theorems.                                                           *)
(***************************************************************************)
LEMMA InvInit == Init => Inv
<1> SUFFICES ASSUME Init PROVE Inv
  OBVIOUS
<1>1. kind \in Mixes /\ DOMAIN kind \subseteq Operations /\ kind \in [DOMAIN kind -> Types]
  BY OperationManagerAssumption DEF Init
<1>2. TypeOK
  <2>1. pending \in Seq([op : Operations, rec : Checkpoints])
    BY EmptySeq DEF Init
  <2>2. /\ stored \in [Operations -> Checkpoints \cup {None}]
        /\ ops \in [Operations -> Checkpoints \cup {None}]
        /\ stage \in [Operations -> Stages]
        /\ command \in [Operations -> {"none", "running", "ended"}]
        /\ launched \in [Operations -> Nat]
    BY DEF Init, Stages
  <2>3. restarts \in 0 .. Restarts
    BY OperationManagerAssumption DEF Init
  <2> QED BY <1>1, <2>1, <2>2, <2>3 DEF Init, TypeOK
<1>3. ActiveIsOutstanding
  BY FS_EmptySet DEF Init, ActiveIsOutstanding
<1>4. Known /\ LastIsEnd
  BY DEF Init, Known, LastIsEnd, Running
<1>5. Works /\ TimersSet /\ NotAtStart /\ ClosedIsEmpty
  BY DEF Init, Works, TimersSet, NotAtStart, ClosedIsEmpty, Running, Alive, InGroup
<1> QED BY <1>2, <1>3, <1>4, <1>5 DEF Inv

\* The invariant holds in every state, whatever the manager, the primitives and
\* crashes do.
THEOREM Invariance == Spec => []Inv
<1>1. Inv /\ [Next]_vars => Inv'
  BY TypeStep, CountStep, KnownStep, WorksStep, TimersStep, NotAtStartStep, LastIsEndStep,
     ClosedStep DEF Inv, Counted
<1> QED BY InvInit, <1>1, PTL DEF Spec

\* Every variable has its type, with any operations, types and timeouts.
THEOREM TypeCorrect == Spec => []TypeOK
<1>1. Inv => TypeOK
  BY DEF Inv
<1> QED BY <1>1, Invariance, PTL

\* The count the manager drains by is that of the primitives it waits for.
THEOREM CountIsExact == Spec => []ActiveIsOutstanding
<1>1. Inv => ActiveIsOutstanding
  BY DEF Inv
<1> QED BY <1>1, Invariance, PTL

\* No command runs on when its operation ended or the manager is closed.
THEOREM NoCommandIsLeft == Spec => []CommandsAreGone
<1>1. Inv => CommandsAreGone
  BY DEF Inv, CommandsAreGone, Works, ClosedIsEmpty
<1> QED BY <1>1, Invariance, PTL

\* What is known to have begun in an earlier process is not begun again: only
\* a launch begins work, from the start.
THEOREM BegunOnce == Spec => NotBegunAgain
<1>1. ASSUME Inv, [Next]_vars
      PROVE  \A o \in Operations : launched'[o] # launched[o] => o \notin begun
  <2>1. ASSUME NEW o \in Operations, Launch(o) PROVE o \notin begun
    BY <1>1, <2>1 DEF Launch, Inv, NotAtStart
  <2>2. \/ launched' = launched
        \/ \E o \in Operations : Launch(o) /\ launched' = [launched EXCEPT ![o] = @ + 1]
    <3>1. ASSUME NEW o \in Operations, ManagerNext(o) PROVE launched' = launched
      BY <3>1 DEF ManagerNext, AddLocal, AddRemote, Cancel, WorkEnds, CommandStarted, Progress,
                  TimerPasses, TimesOut, Kill, Unclaimed, Drained, RemoteUpdate, history
    <3>2. ASSUME NEW o \in Operations, PrimitiveNext(o) \/ Record(o)
          PROVE  launched' = launched \/
                 (Launch(o) /\ launched' = [launched EXCEPT ![o] = @ + 1])
      BY <3>2 DEF PrimitiveNext, Record, Launch, StartEnds, CommandExits, OthersExit,
                  SkipStarted, Terminate, GroupEnds, history
    <3>3. CASE \/ Receive \/ HandlerCloses \/ HandlerStops \/ Stop \/ Drains \/ Close
               \/ Restart \/ UNCHANGED vars
      BY <3>3 DEF Receive, HandlerCloses, HandlerStops, Stop, Drains, Close, Restart, vars, history
    <3> QED BY <1>1, <3>1, <3>2, <3>3 DEF Next
  <2>3. launched \in [Operations -> Nat]
    BY <1>1 DEF Inv, TypeOK
  <2> QED BY <2>1, <2>2, <2>3
<1>2. Inv /\ [Next]_vars =>
        [\A o \in Operations : launched'[o] # launched[o] => o \notin begun]_vars
  BY <1>1
<1> QED BY <1>2, Invariance, PTL DEF Spec, NotBegunAgain

(***************************************************************************)
(* What the session saves of an operation goes forward.                    *)
(***************************************************************************)
\* The store, the updates on their way in their order, and what the manager
\* holds are one line that goes forward.
Forward ==
  /\ \A o \in Operations : Running(o) => Rank(stored[o]) <= Rank(ops[o])
  /\ \A i \in DOMAIN pending :
       /\ Rank(stored[pending[i].op]) <= Rank(pending[i].rec)
       /\ Running(pending[i].op) => Rank(pending[i].rec) <= Rank(ops[pending[i].op])
       /\ \A j \in DOMAIN pending :
            i < j /\ pending[j].op = pending[i].op => Rank(pending[i].rec) <= Rank(pending[j].rec)

LEMMA RanksAreNumbers ==
  ASSUME TypeOK
  PROVE  /\ \A rec \in Checkpoints \cup {None} : Rank(rec) \in 0 .. 12
         /\ \A o \in Operations : Rank(stored[o]) \in 0 .. 12 /\ Rank(ops[o]) \in 0 .. 12
         /\ \A i \in DOMAIN pending :
              pending[i].op \in Operations /\ Rank(pending[i].rec) \in 0 .. 12
<1>1. \A rec \in Checkpoints \cup {None} : Rank(rec) \in 0 .. 12
  <2>1. Rank(None) = 0
    BY DEF Rank
  <2> QED BY <2>1, RankType
<1> QED BY <1>1, PendingIsSequence DEF TypeOK

LEMMA ForwardStep == Inv /\ Forward /\ [Next]_vars => Forward'
<1> SUFFICES ASSUME Inv, Forward, [Next]_vars PROVE Forward'
  OBVIOUS
<1>1. TypeOK /\ Known /\ StepKinds
  BY StepKind DEF Inv
<1>2. /\ \A o \in Operations : Rank(stored[o]) \in 0 .. 12 /\ Rank(ops[o]) \in 0 .. 12
      /\ \A i \in DOMAIN pending :
           pending[i].op \in Operations /\ Rank(pending[i].rec) \in 0 .. 12
      /\ \A rec \in Checkpoints : Rank(rec) \in 0 .. 12
  BY <1>1, RanksAreNumbers
<1>3. CASE UNCHANGED <<stored, kind, ops, accepted, pending>>
  BY <1>3 DEF Forward, Running
<1>4. ASSUME NEW o \in Operations, Record(o) PROVE Forward'
  <2>1. /\ stored' = [stored EXCEPT ![o] = Ready] /\ stored[o] = None
        /\ UNCHANGED <<kind, ops, accepted, pending>>
    BY <1>4 DEF Record, mvars
  <2>2. ~Running(o) /\ \A i \in DOMAIN pending : pending[i].op # o
    BY <1>1, <2>1 DEF Known
  <2>3. \A q \in Operations : q # o => stored'[q] = stored[q]
    BY <1>1, <2>1 DEF TypeOK
  <2> QED BY <1>2, <2>1, <2>2, <2>3 DEF Forward, Running
<1>5. ASSUME NEW o \in Operations, NEW rec \in Checkpoints, MovesTo(o, rec) PROVE Forward'
  <2>1. /\ stored' = stored /\ Rank(Held(o)) <= Rank(rec)
        /\ Running(o) \/ o \notin accepted
        /\ \A q \in Operations : q # o => ops'[q] = ops[q]
        /\ ops'[o] = None \/ ops'[o] = rec
    BY <1>1, <1>5 DEF MovesTo, TypeOK
  <2>2. Rank(stored[o]) <= Rank(rec)
    BY <1>2, <2>1 DEF Forward, Held
  <2>3. \A i \in DOMAIN pending : pending[i].op = o => Rank(pending[i].rec) <= Rank(rec)
    <3> SUFFICES ASSUME NEW i \in DOMAIN pending, pending[i].op = o
                 PROVE  Rank(pending[i].rec) <= Rank(rec)
      OBVIOUS
    <3>1. Running(o)
      BY <1>1, <2>1 DEF Known
    <3> QED BY <1>2, <2>1, <3>1 DEF Forward, Held
  <2>4. \A q \in Operations : ops'[q] # None => Rank(stored'[q]) <= Rank(ops'[q])
    BY <2>1, <2>2 DEF Forward, Running
  <2>5. CASE pending' = pending
    BY <1>2, <2>1, <2>3, <2>4, <2>5 DEF Forward, Running
  <2>6. CASE pending' = Append(pending, [op |-> o, rec |-> rec])
    <3> DEFINE n == Len(pending) + 1
    <3>1. /\ DOMAIN pending' = DOMAIN pending \cup {n}
          /\ \A i \in DOMAIN pending : pending'[i] = pending[i] /\ i < n
          /\ n \notin DOMAIN pending
          /\ pending'[n].op = o /\ pending'[n].rec = rec
      BY <1>1, <2>6, OneUpdateMore
    <3>2. n \in Nat /\ \A i \in DOMAIN pending : i \in Nat
      BY <1>1, PendingIsSequence
    <3> HIDE DEF n
    <3>3. ASSUME NEW i \in DOMAIN pending'
          PROVE  /\ Rank(stored'[pending'[i].op]) <= Rank(pending'[i].rec)
                 /\ ops'[pending'[i].op] # None =>
                      Rank(pending'[i].rec) <= Rank(ops'[pending'[i].op])
                 /\ \A j \in DOMAIN pending' :
                      i < j /\ pending'[j].op = pending'[i].op =>
                        Rank(pending'[i].rec) <= Rank(pending'[j].rec)
      <4>1. CASE i = n
        <5>1. \A j \in DOMAIN pending' : ~(i < j)
          BY <3>1, <3>2, <4>1
        <5> QED BY <1>2, <2>1, <2>2, <3>1, <4>1, <5>1
      <4>2. CASE i \in DOMAIN pending
        <5>1. pending'[i] = pending[i] /\ pending[i].op \in Operations
          BY <1>2, <3>1, <4>2
        <5>2. /\ Rank(stored[pending[i].op]) <= Rank(pending[i].rec)
              /\ ops[pending[i].op] # None => Rank(pending[i].rec) <= Rank(ops[pending[i].op])
              /\ \A j \in DOMAIN pending :
                   i < j /\ pending[j].op = pending[i].op =>
                     Rank(pending[i].rec) <= Rank(pending[j].rec)
          BY <4>2 DEF Forward, Running
        <5>3. CASE pending[i].op = o
          BY <2>1, <2>3, <3>1, <4>2, <5>1, <5>2, <5>3
        <5>4. CASE pending[i].op # o
          BY <2>1, <3>1, <4>2, <5>1, <5>2, <5>4
        <5> QED BY <5>3, <5>4
      <4> QED BY <3>1, <4>1, <4>2
    <3> QED BY <2>4, <3>3 DEF Forward, Running
  <2> QED BY <1>5, <2>5, <2>6 DEF MovesTo
<1>6. CASE Receive
  <2>1. /\ UNCHANGED <<kind, ops, accepted>>
        /\ 1 \in DOMAIN pending
        /\ stored' = [stored EXCEPT ![pending[1].op] = pending[1].rec]
        /\ \A i \in DOMAIN pending' : i + 1 \in DOMAIN pending /\ pending'[i] = pending[i + 1]
    BY <1>1, <1>6, OneUpdateLess DEF Receive
  <2>2. \A i \in DOMAIN pending' : i \in Nat /\ i >= 1
    <3>1. Tail(pending) \in Seq([op : Operations, rec : Checkpoints])
      BY <1>1, <1>6, HeadTailProperties DEF Receive, TypeOK
    <3>2. Tail(pending) = pending'
      BY <1>6 DEF Receive
    <3> QED BY <3>1, <3>2, LenProperties
  <2> DEFINE first == pending[1].op
  <2>3. /\ first \in Operations
        /\ \A q \in Operations : stored'[q] = IF q = first THEN pending[1].rec ELSE stored[q]
    BY <1>1, <1>2, <2>1 DEF TypeOK
  <2>4. \A q \in Operations : ops'[q] # None => Rank(stored'[q]) <= Rank(ops'[q])
    BY <2>1, <2>3 DEF Forward, Running
  <2> HIDE DEF first
  <2>5. ASSUME NEW i \in DOMAIN pending'
        PROVE  /\ Rank(stored'[pending'[i].op]) <= Rank(pending'[i].rec)
               /\ ops'[pending'[i].op] # None =>
                    Rank(pending'[i].rec) <= Rank(ops'[pending'[i].op])
               /\ \A j \in DOMAIN pending' :
                    i < j /\ pending'[j].op = pending'[i].op =>
                      Rank(pending'[i].rec) <= Rank(pending'[j].rec)
    <3>1. i + 1 \in DOMAIN pending /\ pending'[i] = pending[i + 1] /\ 1 < i + 1
      BY <2>1, <2>2
    <3>2. Rank(stored'[pending'[i].op]) <= Rank(pending'[i].rec)
      <4>1. CASE pending'[i].op = first
        BY <1>2, <2>1, <2>3, <3>1, <4>1 DEF Forward, first
      <4>2. CASE pending'[i].op # first
        BY <1>2, <2>3, <3>1, <4>2 DEF Forward
      <4> QED BY <4>1, <4>2
    <3>3. ASSUME NEW j \in DOMAIN pending', i < j, pending'[j].op = pending'[i].op
          PROVE  Rank(pending'[i].rec) <= Rank(pending'[j].rec)
      <4>1. j + 1 \in DOMAIN pending /\ pending'[j] = pending[j + 1] /\ i + 1 < j + 1
        BY <2>1, <2>2, <3>3
      <4> QED BY <3>1, <3>3, <4>1 DEF Forward
    <3> QED BY <2>1, <3>1, <3>2, <3>3 DEF Forward, Running
  <2> QED BY <2>4, <2>5 DEF Forward, Running
<1>7. CASE HandlerStops
  <2>1. /\ UNCHANGED <<stored, kind, accepted>>
        /\ \A o \in Operations : ops'[o] = None \/ ops'[o] = ops[o]
    BY <1>1, <1>7 DEF HandlerStops
  <2>2. \A i \in DOMAIN pending : i \in DOMAIN pending' /\ pending'[i] = pending[i]
    BY <1>1, <1>7, LostFail
  <2>3. \A i \in DOMAIN pending' :
          i \notin DOMAIN pending =>
            /\ pending'[i].op \in Operations /\ ops'[pending'[i].op] = None
            /\ Rank(pending'[i].rec) = 12
            /\ \A j \in DOMAIN pending' : j > i => pending'[j].op # pending'[i].op
    BY <1>1, <1>7, LostFail, RankType
  <2>4. \A i \in DOMAIN pending' : i \in Nat
    <3>1. pending' \in Seq([op : Operations, rec : Checkpoints])
      BY <1>1, TypeStep DEF TypeOK
    <3> QED BY <3>1, LenProperties
  <2>5. ASSUME NEW i \in DOMAIN pending'
        PROVE  /\ Rank(stored'[pending'[i].op]) <= Rank(pending'[i].rec)
               /\ ops'[pending'[i].op] # None =>
                    Rank(pending'[i].rec) <= Rank(ops'[pending'[i].op])
               /\ \A j \in DOMAIN pending' :
                    i < j /\ pending'[j].op = pending'[i].op =>
                      Rank(pending'[i].rec) <= Rank(pending'[j].rec)
    <3>1. CASE i \notin DOMAIN pending
      BY <1>2, <2>1, <2>3, <2>4, <3>1
    <3>2. CASE i \in DOMAIN pending
      <4>1. pending'[i] = pending[i] /\ pending[i].op \in Operations
            /\ Rank(pending[i].rec) \in 0 .. 12
        BY <1>2, <2>2, <3>2
      <4>2. ASSUME NEW j \in DOMAIN pending', i < j, pending'[j].op = pending'[i].op
            PROVE  Rank(pending'[i].rec) <= Rank(pending'[j].rec)
        <5>1. CASE j \in DOMAIN pending
          BY <2>2, <3>2, <4>1, <4>2, <5>1 DEF Forward
        <5>2. CASE j \notin DOMAIN pending
          BY <2>3, <4>1, <5>2
        <5> QED BY <5>1, <5>2
      <4> QED BY <2>1, <3>2, <4>1, <4>2 DEF Forward, Running
    <3> QED BY <3>1, <3>2
  <2> QED BY <2>1, <2>5 DEF Forward, Running
<1>8. CASE Restart
  BY <1>8 DEF Forward, Running, Restart
<1> QED BY <1>1, <1>3, <1>4, <1>5, <1>6, <1>7, <1>8 DEF StepKinds

\* Whatever processes save of an operation, a checkpoint is never overwritten
\* by an older one, and an end by nothing: updates are received in the order
\* they were made (pendingUpdates), and a process goes on from what is stored.
THEOREM SavesGoForward == Spec => SavedGoesForward
<1>1. Inv /\ Forward /\ [Next]_vars =>
        [\A o \in Operations :
           stored'[o] # stored[o] =>
             Rank(stored'[o]) >= Rank(stored[o]) /\ ~(stored[o] # None /\ Finished(stored[o]))]_vars
  <2> SUFFICES ASSUME Inv, Forward, [Next]_vars, NEW o \in Operations, stored'[o] # stored[o]
               PROVE  /\ Rank(stored'[o]) >= Rank(stored[o])
                      /\ ~(stored[o] # None /\ Finished(stored[o]))
    OBVIOUS
  <2>1. TypeOK /\ LastIsEnd /\ StepKinds
    BY StepKind DEF Inv
  <2>2. /\ Rank(stored[o]) \in 0 .. 12
        /\ \A rec \in Checkpoints \cup {None} : Rank(rec) \in 0 .. 12
        /\ Rank(None) = 0
    BY <2>1, RanksAreNumbers DEF Rank
  <2>3. CASE \E q \in Operations : Record(q)
    <3>1. stored[o] = None /\ stored'[o] = Ready
      BY <2>1, <2>3 DEF Record, TypeOK
    <3>2. Ready \in Checkpoints
      BY DEF Ready, Checkpoints, Statuses
    <3> QED BY <2>2, <3>1, <3>2
  <2>4. CASE Receive
    <3>1. /\ 1 \in DOMAIN pending
          /\ stored' = [stored EXCEPT ![pending[1].op] = pending[1].rec]
      BY <2>1, <2>4, OneUpdateLess
    <3>2. pending[1].op = o /\ stored'[o] = pending[1].rec /\ pending[1].rec \in Checkpoints
      BY <2>1, <3>1, PendingIsSequence DEF TypeOK
    <3>3. Rank(stored[o]) <= Rank(pending[1].rec)
      BY <3>1, <3>2 DEF Forward
    <3>4. ~(stored[o] # None /\ Finished(stored[o]))
      BY <2>1, <3>1, <3>2 DEF LastIsEnd
    <3> QED BY <2>2, <3>2, <3>3, <3>4
  <2>5. CASE UNCHANGED stored
    BY <2>5
  <2> QED BY <2>1, <2>3, <2>4, <2>5 DEF StepKinds, MovesTo, HandlerStops, Restart
<1>2. Init => Forward
  BY DEF Init, Forward, Running
<1> QED BY <1>1, <1>2, ForwardStep, Invariance, PTL DEF Spec, SavedGoesForward

(***************************************************************************)
(* The manager implements the lifecycle of operations.                     *)
(***************************************************************************)
StoredView == [o \in Operations |->
                 IF stored[o] = None THEN "none"
                 ELSE IF Finished(stored[o]) THEN "ended" ELSE "recorded"]
RunningView == {o \in Operations : Running(o)}

LEMMA LifecycleInit == Init => Lifecycle!Init
BY DEF Init, Lifecycle!Init, Running

LEMMA LifecycleStep == Inv /\ [Next]_vars => [Lifecycle!Next]_(Lifecycle!vars)
<1> SUFFICES ASSUME Inv, [Next]_vars PROVE [Lifecycle!Next]_(Lifecycle!vars)
  OBVIOUS
<1>1. TypeOK /\ Known /\ LastIsEnd /\ StepKinds
  BY StepKind DEF Inv
<1>2. CASE UNCHANGED <<stored, kind, ops, accepted, pending>>
  <2>1. StoredView' = StoredView /\ RunningView' = RunningView
    BY <1>2 DEF StoredView, RunningView, Running
  <2> QED BY <2>1 DEF Lifecycle!vars, StoredView, RunningView
<1>3. ASSUME NEW o \in Operations, Record(o) PROVE Lifecycle!Next
  <2>1. stored[o] = None /\ stored' = [stored EXCEPT ![o] = Ready] /\ ops' = ops
    BY <1>3 DEF Record, mvars
  <2>2. ~Finished(Ready) /\ Ready # None
    <3>1. Ready \in Checkpoints
      BY DEF Ready, Checkpoints, Statuses
    <3> QED BY <3>1, CheckpointIsNotNone DEF Finished, Ready, Terminal
  <2>3. StoredView[o] = "none" /\ StoredView' = [StoredView EXCEPT ![o] = "recorded"]
    BY <1>1, <2>1, <2>2 DEF StoredView, TypeOK
  <2>4. RunningView' = RunningView
    BY <2>1 DEF RunningView, Running
  <2>5. Lifecycle!Record(o)
    BY <2>3, <2>4 DEF Lifecycle!Record, StoredView, RunningView
  <2> QED BY <2>5 DEF Lifecycle!Next
<1>4. ASSUME NEW o \in Operations, NEW rec \in Checkpoints, MovesTo(o, rec)
      PROVE  Lifecycle!Next
  <2>1. StoredView' = StoredView
    BY <1>4 DEF MovesTo, StoredView
  <2>2. CASE Finished(rec)
    <3>1. RunningView' = RunningView \ {o}
      BY <1>1, <1>4, <2>2 DEF MovesTo, RunningView, Running, TypeOK
    <3>2. Lifecycle!Leave({o})
      BY <2>1, <3>1 DEF Lifecycle!Leave, StoredView, RunningView
    <3> QED BY <3>2 DEF Lifecycle!Next
  <2>3. CASE ~Finished(rec)
    <3>1. RunningView' = RunningView \cup {o}
      BY <1>1, <1>4, <2>3, CheckpointIsNotNone DEF MovesTo, RunningView, Running, TypeOK
    <3>2. StoredView[o] = "recorded"
      BY <1>1, <1>4 DEF MovesTo, StoredView, Known, LastIsEnd
    <3>3. Lifecycle!Work({o})
      BY <2>1, <3>1, <3>2 DEF Lifecycle!Work, StoredView, RunningView
    <3> QED BY <3>3 DEF Lifecycle!Next
  <2> QED BY <2>2, <2>3
<1>5. CASE Receive
  <2>0. PICK o \in Operations : o = pending[1].op /\ 1 \in DOMAIN pending
    BY <1>1, <1>5, OneUpdateLess, PendingIsSequence
  <2>1. /\ 1 \in DOMAIN pending /\ ops' = ops
        /\ stored' = [stored EXCEPT ![o] = pending[1].rec]
    BY <1>1, <1>5, <2>0, OneUpdateLess DEF Receive
  <2>2. o \in Operations /\ pending[1].rec # None /\ o \in accepted
    BY <1>1, <2>0, <2>1, PendingIsSequence, CheckpointIsNotNone DEF Known
  <2>3. StoredView[o] = "recorded"
    BY <1>1, <2>0, <2>1, <2>2 DEF StoredView, Known, LastIsEnd
  <2>4. RunningView' = RunningView
    BY <2>1 DEF RunningView, Running
  <2>5. CASE Finished(pending[1].rec)
    <3>1. StoredView' = [StoredView EXCEPT ![o] = "ended"]
      BY <1>1, <2>1, <2>2, <2>5 DEF StoredView, TypeOK
    <3>2. o \notin RunningView
      BY <1>1, <2>0, <2>1, <2>5 DEF RunningView, LastIsEnd
    <3>3. Lifecycle!End(o)
      BY <2>3, <2>4, <3>1, <3>2 DEF Lifecycle!End, StoredView, RunningView
    <3> QED BY <2>2, <3>3 DEF Lifecycle!Next
  <2>6. CASE ~Finished(pending[1].rec)
    <3>1. StoredView' = StoredView
      BY <1>1, <2>1, <2>2, <2>3, <2>6 DEF StoredView, TypeOK
    <3> QED BY <2>4, <3>1 DEF Lifecycle!vars, StoredView, RunningView
  <2> QED BY <2>5, <2>6
<1>6. CASE HandlerStops \/ Restart
  <2>1. StoredView' = StoredView
    BY <1>6 DEF HandlerStops, Restart, StoredView
  <2>2. \A o \in Operations : ops'[o] = None \/ ops'[o] = ops[o]
    BY <1>6 DEF HandlerStops, Restart
  <2>3. RunningView' = RunningView \ {o \in Operations : ops'[o] = None}
    BY <2>2 DEF RunningView, Running
  <2>4. Lifecycle!Leave({o \in Operations : ops'[o] = None})
    BY <2>1, <2>3 DEF Lifecycle!Leave, StoredView, RunningView
  <2> QED BY <2>4 DEF Lifecycle!Next
<1> QED BY <1>1, <1>2, <1>3, <1>4, <1>5, <1>6 DEF StepKinds

\* The manager works on what the session recorded, ends it once and never
\* works on it again, whatever crashes: it implements OperationLifecycle.
THEOREM KeepsLifecycle == Spec => ImplementsLifecycle
BY LifecycleInit, LifecycleStep, Invariance, PTL DEF Spec, ImplementsLifecycle, Lifecycle!Spec
=============================================================================
