-------------------------- MODULE OperationManager --------------------------
(***************************************************************************)
(* harness/operation: the local operation manager, an actor that runs the  *)
(* operations of one session, with the operations' handlers (shell, code,  *)
(* file, skill, image, value, remote job), the primitives it starts        *)
(* (harness/primitives: goroutines that create and read files, compute,    *)
(* wait for a timer or own a process group) and the store its updates are  *)
(* saved in.  The manager is one goroutine; each action below that takes   *)
(* from a channel is one turn of its select (LocalOperationManager.run).   *)
(* All channels are unbuffered, so a send and its receipt are one step.    *)
(* A process may crash and a later one adds what the store did not see     *)
(* end; the command a crash left behind goes on (Setpgid).                 *)
(*                                                                         *)
(* Abstractions.  A timer may fire whenever it is set.  What an operation  *)
(* reads, writes and prints is left out; that its output needs a second    *)
(* read, its failure and a command's exit are nondeterministic choices.    *)
(* Every signal sent to a living process group is delivered.               *)
(*                                                                         *)
(* An operator whose name ends in a word after an underscore is a mutant   *)
(* of the operator that follows it: a mistake the runs find.               *)
(***************************************************************************)
EXTENDS Naturals, Sequences, FiniteSets

CONSTANTS
  Operations,   \* operation IDs
  Mixes,        \* what a session's operations and their types may be
  Timed,        \* shell operations whose input has a timeout
  None,         \* no operation
  \* Bounds of the model
  Restarts,     \* later processes of the session
  MaxPending    \* updates kept while a computation still reports

LocalTypes == {"shell", "code", "edit", "file", "skill", "image", "value"}
Types == LocalTypes \cup {"remote"}

ASSUME OperationManagerAssumption ==
  /\ IsFiniteSet(Operations)
  /\ Mixes \subseteq UNION {[ids -> Types] : ids \in SUBSET Operations}
  /\ Timed \subseteq Operations
  /\ Restarts \in Nat /\ MaxPending \in Nat

(***************************************************************************)
(* Operations and primitives.                                              *)
(***************************************************************************)
Terminal == {"completed", "failed", "canceled"}
Statuses == {"ready", "awaiting", "canceling"} \cup Terminal

CreatePhases == {"create_directory", "create_out", "create_err"}
ReadPhases == {"read_out", "read_out_tail", "read_err", "read_err_tail"}
Phases == CreatePhases \cup {"process"} \cup ReadPhases

\* An operation's checkpoint: shell operations use all of it (ShellState).
Checkpoints ==
  [ status : Statuses, phase : Phases \cup {"none"}, pid : BOOLEAN,
    timedOut : BOOLEAN, exit : BOOLEAN ]
Ready ==
  [ status |-> "ready", phase |-> "none", pid |-> FALSE,
    timedOut |-> FALSE, exit |-> FALSE ]

ASSUME NoneAssumption == None \notin Checkpoints

\* A primitive is named by its operation and its correlation: the operation's
\* own work, or one of the two timers of a command's timeout.
Correlations == {"work", "timeout", "kill"}
Primitives == Operations \X Correlations

(* How far the work of an operation is.  A file primitive is "create" or    *)
(* "read"; a computation or a process is at "start", then a computation is  *)
(* at "compute" and a process "launched" (its start not reported yet),      *)
(* "wait" (the command runs), "exiting" or "canceling" (its process group   *)
(* is being terminated) and then has a terminal event to deliver: "exited", *)
(* "aborted" or "broken".                                                   *)
Ended == {"exited", "aborted", "broken"}
Stages ==
  {"none", "create", "read", "start", "compute", "launched", "wait",
   "exiting", "canceling"} \cup Ended

VARIABLES
  \* the session's store
  stored,     \* the latest checkpoint of each operation, None before the first
  \* the manager
  kind,       \* the type of each operation of the session
  ops,        \* the running operations (operations)
  accepted,   \* the IDs it ever took (accepted)
  active,     \* primitives it waits for (activePrimitives)
  pending,    \* updates not yet received (pendingUpdates)
  manager,    \* "running", "draining" or "closed"
  stopping,   \* the manager's context is canceled
  canceled,   \* the operations whose context is canceled
  \* primitives
  prims,      \* those whose terminal event is not delivered
  stage,      \* how far the work of each operation is
  \* the operating system
  command,    \* the process of a shell operation: "none", "running", "ended"
  background, \* operations whose process group has other members
  orphans,    \* operations with a command a crash left behind
  \* the remote job handler
  handler,    \* "open", "closed" and the manager is not told yet, "stopped"
  \* the past
  launched,   \* how often the work of an operation was begun
  begun,      \* operations whose work was known to have begun before this process
  restarts

mvars == <<ops, accepted, active, pending, canceled>>
pvars == <<prims, stage>>
svars == <<command, background, orphans>>
history == <<launched, begun, restarts>>
vars == <<stored, kind, mvars, manager, stopping, pvars, svars, handler, history>>

\* The context of an operation is a child of the manager's.
Canceled(o) == stopping \/ o \in canceled

Running(o) == ops[o] # None
Finished(rec) == rec.status \in Terminal
Alive(o) == command[o] = "running" \/ o \in background

Init ==
  /\ stored = [o \in Operations |-> None]
  /\ kind \in Mixes
  /\ ops = [o \in Operations |-> None]
  /\ accepted = {} /\ active = 0 /\ pending = <<>> /\ canceled = {}
  /\ manager = "running" /\ stopping = FALSE
  /\ prims = {} /\ stage = [o \in Operations |-> "none"]
  /\ command = [o \in Operations |-> "none"]
  /\ background = {} /\ orphans = {}
  /\ handler = "open"
  /\ launched = [o \in Operations |-> 0]
  /\ begun = {} /\ restarts = 0

(***************************************************************************)
(* Steps of an operation (Step): the checkpoint it goes on with, whether   *)
(* that is to be saved, and the stage its next primitive begins at ("none" *)
(* when it starts none).                                                   *)
(***************************************************************************)
StepTo(rec, next) == [rec |-> rec, saved |-> TRUE, next |-> next]
Await(rec, next) == StepTo([rec EXCEPT !.status = "awaiting"], next)
Unsaved(rec, next) == [rec |-> rec, saved |-> FALSE, next |-> next]
End(rec, status) == StepTo([rec EXCEPT !.status = status, !.phase = "none"], "none")

\* dispatchPhase
FirstStage(phase) ==
  CASE phase \in CreatePhases -> "create"
    [] phase = "process" -> "start"
    [] phase \in ReadPhases -> "read"
Dispatch(rec, phase) == Await([rec EXCEPT !.phase = phase], FirstStage(phase))

\* What an operation does when the manager takes it: new, or left unfinished
\* by an earlier process (handle(nil)).
AddShell_Redispatch(rec) ==
  IF rec.status = "ready" THEN Dispatch(rec, "create_directory")
  ELSE Dispatch(rec, rec.phase)

AddShell(rec) ==
  CASE rec.status = "ready" -> Dispatch(rec, "create_directory")
    [] rec.status = "awaiting" /\ rec.phase = "process" -> End(rec, "failed")
    [] OTHER -> Dispatch(rec, rec.phase)

AddOnce(rec) ==
  IF rec.status = "ready" THEN Await(rec, "start") ELSE End(rec, "failed")

FirstStep(type, rec) ==
  IF rec.status = "canceling" THEN End(rec, "canceled")
  ELSE CASE type = "shell" -> AddShell(rec)
         [] type \in {"code", "edit"} -> AddOnce(rec)
         [] type = "file" -> Await(rec, "start")
         [] type \in {"skill", "image"} -> Await(rec, "read")
         [] type = "value" -> End(rec, "completed")

\* A file of a shell operation was created, its command exited or its output
\* was read (created, processEvent, readCompleted, finish).
Finish(rec) ==
  IF rec.exit THEN End([rec EXCEPT !.exit = FALSE], "completed")
  ELSE End(rec, "failed")

ShellDone(rec) ==
  CASE rec.phase = "create_directory" -> {Dispatch(rec, "create_out")}
    [] rec.phase = "create_out" -> {Dispatch(rec, "create_err")}
    [] rec.phase = "create_err" -> {Dispatch(rec, "process")}
    [] rec.phase = "process" ->
         {Dispatch([rec EXCEPT !.pid = FALSE, !.exit = TRUE], "read_out")}
    [] rec.phase = "read_out" ->
         {Dispatch(rec, "read_out_tail"), Dispatch(rec, "read_err")}
    [] rec.phase = "read_out_tail" -> {Dispatch(rec, "read_err")}
    [] rec.phase = "read_err" -> {Dispatch(rec, "read_err_tail"), Finish(rec)}
    [] rec.phase = "read_err_tail" -> {Finish(rec)}

\* An image is read, then scaled in a computation; a failure of the read
\* after its first bytes is found by the computation too.
ImageDone(rec, at) ==
  IF at = "read" THEN {Unsaved(rec, "start")}
  ELSE {End(rec, "completed"), End(rec, "failed")}

Done(type, rec, at) ==
  CASE type = "shell" -> ShellDone(rec)
    [] type = "image" -> ImageDone(rec, at)
    [] OTHER -> {End(rec, "completed")}

Failed(type, rec, at) ==
  {End(rec, "failed")} \cup
  (IF type = "image" /\ at = "read" THEN {Unsaved(rec, "start")} ELSE {})

Steps(type, rec, at, event) ==
  CASE event = "done" -> Done(type, rec, at)
    [] event = "failed" -> Failed(type, rec, at)
    [] event = "canceled" -> {End(rec, "canceled")}

(***************************************************************************)
(* The manager takes a step of an operation (acceptLocalStep): it saves    *)
(* the checkpoint, forgets an operation that ended, and starts what the    *)
(* step asks for.  waited is the number of primitives it waits for by      *)
(* then, left those that remain.                                           *)
(***************************************************************************)
Save(o, rec) == pending' = Append(pending, [op |-> o, rec |-> rec])

Forget(o) ==
  /\ ops' = [ops EXCEPT ![o] = None]
  /\ canceled' = canceled \cup {o}

Accept(o, step, waited, left) ==
  /\ IF step.saved THEN Save(o, step.rec) ELSE UNCHANGED pending
  /\ stage' = [stage EXCEPT ![o] = step.next]
  /\ IF Finished(step.rec)
     THEN Forget(o)
     ELSE ops' = [ops EXCEPT ![o] = step.rec] /\ UNCHANGED canceled
  /\ IF step.next = "none"
     THEN active' = waited /\ prims' = left
     ELSE active' = waited + 1 /\ prims' = left \cup {<<o, "work">>}

(***************************************************************************)
(* The session: it records an operation before it adds it (see             *)
(* Coordinator), adds what it recorded, cancels and saves the updates.     *)
(***************************************************************************)
Record(o) ==
  /\ o \in DOMAIN kind
  /\ stored[o] = None
  /\ stored' = [stored EXCEPT ![o] = Ready]
  /\ UNCHANGED <<kind, mvars, manager, stopping, pvars, svars, handler, history>>

Addable(o) ==
  /\ manager = "running"
  /\ stored[o] # None
  /\ ~Finished(stored[o])

New_Running(o) == ~Running(o)

\* Adding an operation the manager took once does nothing.
New(o) == o \notin accepted

AddLocal(o) ==
  /\ Addable(o)
  /\ New(o)
  /\ kind[o] # "remote"
  /\ accepted' = accepted \cup {o}
  /\ Accept(o, FirstStep(kind[o], stored[o]), active, prims)
  /\ UNCHANGED <<stored, kind, manager, stopping, svars, handler, history>>

\* A remote job is its handler's; a handler known to be stopped takes none.
AddRemote(o) ==
  /\ Addable(o)
  /\ New(o)
  /\ kind[o] = "remote"
  /\ handler # "stopped"
  /\ accepted' = accepted \cup {o}
  /\ ops' = [ops EXCEPT ![o] = stored[o]]
  /\ UNCHANGED <<stored, kind, active, pending, canceled, manager, stopping,
                 pvars, svars, handler, history>>

\* The handler of a remote job is told; what it does then is its own.
Cancel(o) ==
  /\ manager = "running"
  /\ Running(o)
  /\ kind[o] # "remote"
  /\ o \notin canceled
  /\ canceled' = canceled \cup {o}
  /\ UNCHANGED <<stored, kind, ops, accepted, active, pending, manager, stopping,
                 pvars, svars, handler, history>>

Receive_Latest ==
  /\ manager = "running"
  /\ pending # <<>>
  /\ LET last == Len(pending)
     IN  /\ stored' = [stored EXCEPT ![pending[last].op] = pending[last].rec]
         /\ pending' = SubSeq(pending, 1, last - 1)
  /\ UNCHANGED <<kind, ops, accepted, active, canceled, manager, stopping,
                 pvars, svars, handler, history>>

\* The session receives the next update and saves it (SaveOperation).
Receive ==
  /\ manager = "running"
  /\ pending # <<>>
  /\ stored' = [stored EXCEPT ![Head(pending).op] = Head(pending).rec]
  /\ pending' = Tail(pending)
  /\ UNCHANGED <<kind, ops, accepted, active, canceled, manager, stopping,
                 pvars, svars, handler, history>>

(***************************************************************************)
(* Primitives.                                                             *)
(***************************************************************************)
\* A computation or a process begins, unless its context is canceled.
Launch(o) ==
  /\ <<o, "work">> \in prims
  /\ stage[o] = "start"
  /\ ~Canceled(o)
  /\ stage' = [stage EXCEPT ![o] =
                 IF kind[o] = "shell" THEN "launched" ELSE "compute"]
  /\ launched' = [launched EXCEPT ![o] = @ + 1]
  /\ command' = [command EXCEPT ![o] =
                   IF kind[o] = "shell" THEN "running" ELSE @]
  /\ UNCHANGED <<stored, kind, mvars, manager, stopping, prims, background,
                 orphans, handler, begun, restarts>>

\* A process that is not to start, or cannot (runProcess).
StartEnds(o) ==
  /\ <<o, "work">> \in prims
  /\ stage[o] = "start"
  /\ kind[o] = "shell"
  /\ \E end \in {"broken"} \cup (IF Canceled(o) THEN {"aborted"} ELSE {}) :
       stage' = [stage EXCEPT ![o] = end]
  /\ UNCHANGED <<stored, kind, mvars, manager, stopping, prims, svars, handler,
                 history>>

\* The command exits; others of its process group may go on.
CommandExits(o) ==
  /\ command[o] = "running"
  /\ command' = [command EXCEPT ![o] = "ended"]
  /\ background' \in {background, background \cup {o}}
  /\ UNCHANGED <<stored, kind, mvars, manager, stopping, pvars, orphans, handler,
                 history>>

OthersExit(o) ==
  /\ o \in background
  /\ background' = background \ {o}
  /\ UNCHANGED <<stored, kind, mvars, manager, stopping, pvars, command, orphans,
                 handler, history>>

\* A canceled process does not wait for its start to be taken note of.
SkipStarted(o) ==
  /\ stage[o] = "launched"
  /\ Canceled(o)
  /\ stage' = [stage EXCEPT ![o] = "wait"]
  /\ UNCHANGED <<stored, kind, mvars, manager, stopping, prims, svars, handler,
                 history>>

Terminate_Waits(o) ==
  /\ stage[o] = "wait"
  /\ command[o] = "ended"
  /\ stage' = [stage EXCEPT ![o] = "exiting"]
  /\ UNCHANGED <<stored, kind, mvars, manager, stopping, prims, svars, handler,
                 history>>

\* The command ended or is canceled: SIGTERM to its group (awaitProcessCompletion).
Terminate(o) ==
  /\ stage[o] = "wait"
  /\ \/ /\ command[o] = "ended"
        /\ stage' = [stage EXCEPT ![o] = "exiting"]
     \/ /\ Canceled(o)
        /\ stage' = [stage EXCEPT ![o] = "canceling"]
  /\ UNCHANGED <<stored, kind, mvars, manager, stopping, prims, svars, handler,
                 history>>

GroupEnds_Leader(o) ==
  /\ stage[o] \in {"exiting", "canceling"}
  /\ stage' = [stage EXCEPT ![o] = IF @ = "exiting" THEN "exited" ELSE "aborted"]
  /\ command' = [command EXCEPT ![o] = "ended"]
  /\ UNCHANGED <<stored, kind, mvars, manager, stopping, prims, background,
                 orphans, handler, history>>

\* After the grace period what is left of the group is killed (terminateProcess);
\* only then the end of the process is an event.
GroupEnds(o) ==
  /\ stage[o] \in {"exiting", "canceling"}
  /\ stage' = [stage EXCEPT ![o] = IF @ = "exiting" THEN "exited" ELSE "aborted"]
  /\ command' = [command EXCEPT ![o] = "ended"]
  /\ background' = background \ {o}
  /\ UNCHANGED <<stored, kind, mvars, manager, stopping, prims, orphans, handler,
                 history>>

(***************************************************************************)
(* What the manager receives of the primitives.  The work of an operation  *)
(* ends with one of these events.                                          *)
(***************************************************************************)
Outcomes(o) ==
  CASE stage[o] \in {"create", "read", "compute"} ->
         {"done", "failed"} \cup (IF Canceled(o) THEN {"canceled"} ELSE {})
    [] stage[o] = "start" /\ kind[o] # "shell" /\ Canceled(o) -> {"canceled"}
    [] stage[o] = "exited" -> {"done", "failed"}
    [] stage[o] = "aborted" -> {"canceled"}
    [] stage[o] = "broken" -> {"failed"}
    [] OTHER -> {}

\* Whatever the work of a canceled operation came to, it was canceled.
Verdict(o, event) == IF Canceled(o) THEN "canceled" ELSE event

WorkEnds(o) ==
  /\ manager = "running"
  /\ <<o, "work">> \in prims
  /\ Running(o)
  /\ \E event \in Outcomes(o) :
       \E step \in Steps(kind[o], ops[o], stage[o], Verdict(o, event)) :
         Accept(o, step, active - 1, prims \ {<<o, "work">>})
  /\ UNCHANGED <<stored, kind, accepted, manager, stopping, svars, handler, history>>

\* The command's start: the timer of its timeout begins.
CommandStarted(o) ==
  /\ manager = "running"
  /\ stage[o] = "launched"
  /\ Running(o)
  /\ LET rec == [ops[o] EXCEPT !.pid = TRUE]
     IN  ops' = [ops EXCEPT ![o] = rec] /\ Save(o, rec)
  /\ stage' = [stage EXCEPT ![o] = "wait"]
  /\ IF o \in Timed
     THEN active' = active + 1 /\ prims' = prims \cup {<<o, "timeout">>}
     ELSE UNCHANGED <<active, prims>>
  /\ UNCHANGED <<stored, kind, accepted, canceled, manager, stopping, svars,
                 handler, history>>

\* A computation or a skill's read reports on its way: a checkpoint.
Progress(o) ==
  /\ manager = "running"
  /\ Running(o)
  /\ <<kind[o], stage[o]>> \in {<<"code", "compute">>, <<"skill", "read">>}
  /\ Len(pending) < MaxPending
  /\ Save(o, ops[o])
  /\ UNCHANGED <<stored, kind, ops, accepted, active, canceled, manager, stopping,
                 pvars, svars, handler, history>>

\* A timer that is canceled, or fires when the command's exit was taken note
\* of, does nothing (timerEvent).
TimerActs(o) == ~Canceled(o) /\ ops[o].phase = "process" /\ ops[o].pid

TimerPasses(o, timer) ==
  /\ manager = "running"
  /\ <<o, timer>> \in prims
  /\ Running(o)
  /\ ~TimerActs(o)
  /\ active' = active - 1
  /\ prims' = prims \ {<<o, timer>>}
  /\ UNCHANGED <<stored, kind, ops, accepted, pending, canceled, manager, stopping,
                 stage, svars, handler, history>>

TimesOut_Uncounted(o) ==
  /\ manager = "running"
  /\ <<o, "timeout">> \in prims
  /\ Running(o)
  /\ TimerActs(o)
  /\ LET rec == [ops[o] EXCEPT !.timedOut = TRUE]
     IN  ops' = [ops EXCEPT ![o] = rec] /\ Save(o, rec)
  /\ prims' = (prims \ {<<o, "timeout">>}) \cup {<<o, "kill">>}
  /\ active' = active - 1
  /\ UNCHANGED <<stored, kind, accepted, canceled, manager, stopping,
                 stage, svars, handler, history>>

\* SIGTERM to the command's group, which may outlive it, and the second timer.
TimesOut(o) ==
  /\ manager = "running"
  /\ <<o, "timeout">> \in prims
  /\ Running(o)
  /\ TimerActs(o)
  /\ LET rec == [ops[o] EXCEPT !.timedOut = TRUE]
     IN  ops' = [ops EXCEPT ![o] = rec] /\ Save(o, rec)
  /\ prims' = (prims \ {<<o, "timeout">>}) \cup {<<o, "kill">>}
  /\ UNCHANGED <<stored, kind, accepted, active, canceled, manager, stopping,
                 stage, svars, handler, history>>

\* SIGKILL to what is left of it.
Kill(o) ==
  /\ manager = "running"
  /\ <<o, "kill">> \in prims
  /\ Running(o)
  /\ TimerActs(o)
  /\ command' = [command EXCEPT ![o] = "ended"]
  /\ background' = background \ {o}
  /\ active' = active - 1
  /\ prims' = prims \ {<<o, "kill">>}
  /\ UNCHANGED <<stored, kind, ops, accepted, pending, canceled, manager, stopping,
                 stage, orphans, handler, history>>

\* The primitive of an operation that ended is only counted.
Unclaimed(o, correlation) ==
  /\ manager = "running"
  /\ <<o, correlation>> \in prims
  /\ ~Running(o)
  /\ correlation = "work" => Outcomes(o) # {}
  /\ active' = active - 1
  /\ prims' = prims \ {<<o, correlation>>}
  /\ UNCHANGED <<stored, kind, ops, accepted, pending, canceled, manager, stopping,
                 stage, svars, handler, history>>

(***************************************************************************)
(* Remote jobs: the handler's updates, which the manager checks            *)
(* (validateRemoteJobUpdate); a handler may close its channel.             *)
(***************************************************************************)
ValidTransition(from, to) ==
  CASE from \in {"ready", "awaiting"} -> to # "ready"
    [] from = "canceling" -> to \in {"canceling", "failed", "canceled"}
    [] OTHER -> FALSE

RemoteUpdate(o) ==
  /\ manager = "running"
  /\ handler # "stopped"
  /\ Running(o)
  /\ kind[o] = "remote"
  /\ Len(pending) < MaxPending
  /\ \E status \in Statuses, samePlan \in BOOLEAN :
       LET valid == samePlan /\ ValidTransition(ops[o].status, status)
           rec == [ops[o] EXCEPT !.status = IF valid THEN status ELSE "failed"]
       IN  /\ Save(o, rec)
           /\ IF Finished(rec) THEN Forget(o)
              ELSE ops' = [ops EXCEPT ![o] = rec] /\ UNCHANGED canceled
  /\ UNCHANGED <<stored, kind, accepted, active, manager, stopping, pvars, svars,
                 handler, history>>

HandlerCloses ==
  /\ handler = "open"
  /\ handler' = "closed"
  /\ UNCHANGED <<stored, kind, mvars, manager, stopping, pvars, svars, history>>

Orders(set) ==
  { order \in [1 .. Cardinality(set) -> set] :
      \A i, j \in DOMAIN order : order[i] = order[j] => i = j }

\* The manager learns of it: the handler's jobs failed, in any order.
HandlerStops ==
  /\ manager = "running"
  /\ handler = "closed"
  /\ handler' = "stopped"
  /\ LET lost == {o \in Operations : Running(o) /\ kind[o] = "remote"}
     IN  /\ \E order \in Orders(lost) :
              pending' = pending \o
                [i \in DOMAIN order |->
                   [op |-> order[i],
                    rec |-> [ops[order[i]] EXCEPT !.status = "failed"]]]
         /\ ops' = [o \in Operations |-> IF o \in lost THEN None ELSE ops[o]]
         /\ canceled' = canceled \cup lost
  /\ UNCHANGED <<stored, kind, accepted, active, manager, stopping, pvars, svars,
                 history>>

(***************************************************************************)
(* The end of the manager: its context is canceled, it stops taking        *)
(* requests, waits for the primitives it started and drops the updates     *)
(* nobody received (drainLocalPrimitives).                                 *)
(***************************************************************************)
Stop ==
  /\ ~stopping
  /\ stopping' = TRUE
  /\ UNCHANGED <<stored, kind, mvars, manager, pvars, svars, handler, history>>

Drains ==
  /\ manager = "running"
  /\ stopping
  /\ manager' = "draining"
  /\ UNCHANGED <<stored, kind, mvars, stopping, pvars, svars, handler, history>>

Drained(o, correlation) ==
  /\ manager = "draining"
  /\ <<o, correlation>> \in prims
  /\ correlation = "work" => Outcomes(o) # {}
  /\ active' = active - 1
  /\ prims' = prims \ {<<o, correlation>>}
  /\ UNCHANGED <<stored, kind, ops, accepted, pending, canceled, manager, stopping,
                 stage, svars, handler, history>>

Close ==
  /\ manager = "draining"
  /\ active = 0
  /\ manager' = "closed"
  /\ UNCHANGED <<stored, kind, mvars, stopping, pvars, svars, handler, history>>

\* What the store tells of an operation whose work is not to be begun twice: a
\* command, code, an edit or a patch.
KnownBegun(o) ==
  /\ stored[o] # None
  /\ stored[o].status = "awaiting"
  /\ \/ kind[o] \in {"code", "edit"}
     \/ kind[o] = "shell" /\ stored[o].phase \in {"process"} \cup ReadPhases

\* A later process of the session; the earlier one ended, or crashes now.
Restart ==
  /\ restarts < Restarts
  /\ restarts' = restarts + 1
  /\ begun' = {o \in Operations : KnownBegun(o)}
  /\ ops' = [o \in Operations |-> None]
  /\ accepted' = {} /\ active' = 0 /\ pending' = <<>> /\ canceled' = {}
  /\ manager' = "running" /\ stopping' = FALSE
  /\ prims' = {} /\ stage' = [o \in Operations |-> "none"]
  /\ command' = [o \in Operations |-> "none"]
  /\ background' = {}
  /\ orphans' = orphans \cup {o \in Operations : Alive(o)}
  /\ handler' = "open"
  /\ UNCHANGED <<stored, kind, launched>>

(***************************************************************************)
(* The specification.                                                      *)
(***************************************************************************)
ManagerNext(o) ==
  \/ AddLocal(o) \/ AddRemote(o) \/ Cancel(o)
  \/ WorkEnds(o) \/ CommandStarted(o) \/ Progress(o)
  \/ TimerPasses(o, "timeout") \/ TimerPasses(o, "kill")
  \/ TimesOut(o) \/ Kill(o)
  \/ \E correlation \in Correlations :
       Unclaimed(o, correlation) \/ Drained(o, correlation)
  \/ RemoteUpdate(o)

PrimitiveNext(o) ==
  \/ Launch(o) \/ StartEnds(o) \/ SkipStarted(o) \/ Terminate(o) \/ GroupEnds(o)
  \/ CommandExits(o) \/ OthersExit(o)

Next ==
  \/ \E o \in Operations : Record(o) \/ ManagerNext(o) \/ PrimitiveNext(o)
  \/ Receive \/ HandlerCloses \/ HandlerStops
  \/ Stop \/ Drains \/ Close \/ Restart

Spec == Init /\ [][Next]_vars

(***************************************************************************)
(* Fairness.  The session receives.  Of what can go on - primitives, timers *)
(* and what the manager takes of them - something does: each operation      *)
(* takes finitely many such steps, so none of them waits for ever.  A       *)
(* command need not exit, and a computation ends in time only when it is    *)
(* canceled; nothing is ever obliged to be added, canceled, stopped or      *)
(* restarted.                                                               *)
(***************************************************************************)
GoesOn(o) ==
  \/ WorkEnds(o) /\ (kind[o] = "shell" \/ Canceled(o))
  \/ CommandStarted(o) \/ TimesOut(o) \/ Kill(o)
  \/ Launch(o) \/ StartEnds(o) \/ SkipStarted(o)
  \/ Terminate(o) \/ GroupEnds(o)
  \/ \E correlation \in Correlations : Drained(o, correlation)

Fairness ==
  /\ WF_vars(Receive)
  /\ WF_vars(Drains \/ Close \/ \E o \in Operations : GoesOn(o))

FairSpec == Spec /\ Fairness
=============================================================================
