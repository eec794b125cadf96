----------------------- MODULE OperationManagerChecks -----------------------
(* What the local operation manager and its primitives are to guarantee.    *)
EXTENDS OperationManager

\* Every variable has its type.
TypeOK ==
  /\ stored \in [Operations -> Checkpoints \cup {None}]
  /\ DOMAIN kind \subseteq Operations /\ kind \in [DOMAIN kind -> Types]
  /\ ops \in [Operations -> Checkpoints \cup {None}]
  /\ accepted \subseteq Operations
  /\ active \in Nat
  /\ pending \in Seq([op : Operations, rec : Checkpoints])
  /\ manager \in {"running", "draining", "closed"}
  /\ stopping \in BOOLEAN
  /\ canceled \subseteq Operations
  /\ prims \subseteq Primitives
  /\ stage \in [Operations -> Stages]
  /\ command \in [Operations -> {"none", "running", "ended"}]
  /\ background \subseteq Operations
  /\ orphans \subseteq Operations
  /\ handler \in {"open", "closed", "stopped"}
  /\ launched \in [Operations -> Nat]
  /\ begun \subseteq Operations
  /\ restarts \in 0 .. Restarts

(***************************************************************************)
(* Invariants.                                                             *)
(***************************************************************************)
\* The count the manager drains by (activePrimitives) is the number of
\* primitives whose terminal event it has not received: were it higher, the
\* drain would wait for ever; were it lower, the manager would return while
\* primitives run, and they would block on their last event for ever.
ActiveIsOutstanding == active = Cardinality(prims)

\* The end of a command is reported when its process group is gone, and none
\* that the manager started runs on when its updates are closed: the process
\* may end then (run's deferred close, terminateProcess).
CommandsAreGone ==
  \A o \in Operations :
    (o \in accepted /\ ~Running(o)) \/ manager = "closed" => ~Alive(o)

(***************************************************************************)
(* What a step never does.                                                 *)
(***************************************************************************)
\* What is known to have begun in an earlier process is not begun again: a
\* command (shell.go, resume), code (code.go, AdvanceCode) and an edit or a
\* patch (file.go, AdvanceFile).
NotBegunAgain ==
  [][\A o \in Operations : launched'[o] # launched[o] => o \notin begun]_vars

\* The checkpoints the session saves of an operation go forward only, across
\* processes too, and its end is never taken back: what a session reads of an
\* operation is never older than what it read before.
Rank(rec) ==
  IF rec = None THEN 0
  ELSE IF Finished(rec) THEN 12
  ELSE CASE rec.phase = "create_directory" -> 3
         [] rec.phase = "create_out" -> 4
         [] rec.phase = "create_err" -> 5
         [] rec.phase = "process" -> IF rec.timedOut THEN 8 ELSE IF rec.pid THEN 7 ELSE 6
         [] rec.phase \in {"read_out", "read_out_tail"} -> 9
         [] rec.phase \in {"read_err", "read_err_tail"} -> 10
         [] rec.phase = "none" /\ rec.status = "ready" -> 1
         [] rec.phase = "none" /\ rec.status = "awaiting" -> 2
         [] OTHER -> 3

SavedGoesForward ==
  [][\A o \in Operations :
       stored'[o] # stored[o] =>
         Rank(stored'[o]) >= Rank(stored[o]) /\ ~(stored[o] # None /\ Finished(stored[o]))]_vars

(***************************************************************************)
(* Liveness.                                                               *)
(***************************************************************************)
\* A command with a timeout ends, and the session learns it, even when the
\* command ignores SIGTERM and would never exit; a canceled operation ends; and
\* once its context is canceled the manager returns: nothing that was started
\* is waited for in vain (timerEvent, awaitProcessCompletion,
\* drainLocalPrimitives).
EverythingEnds ==
  /\ \A o \in Timed :
       (o \in accepted /\ kind[o] = "shell") ~>
         (stopping \/ o \notin accepted \/ Finished(stored[o]))
  /\ \A o \in Operations :
       (o \in canceled /\ Running(o)) ~> (stopping \/ ~Running(o))
  /\ stopping ~> (manager = "closed" \/ ~stopping)

(***************************************************************************)
(* The manager implements the lifecycle of operations: what the session    *)
(* recorded is worked on, what ended is not worked on again.               *)
(***************************************************************************)
Lifecycle == INSTANCE OperationLifecycle WITH
  Ops <- Operations,
  stored <- [o \in Operations |->
               IF stored[o] = None THEN "none"
               ELSE IF Finished(stored[o]) THEN "ended" ELSE "recorded"],
  active <- {o \in Operations : Running(o)}

ImplementsLifecycle == Lifecycle!Spec

(***************************************************************************)
(* What the source says and the code does not do.                          *)
(***************************************************************************)
\* "Resumed after a restart: what the run did is unknown, so it is not run
\* again" (code.go:99); "it computes the result, once" (file.go:130).
ComputesOnce ==
  \A o \in DOMAIN kind : kind[o] \in {"code", "edit"} => launched[o] <= 1
=============================================================================
