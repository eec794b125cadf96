------------------------- MODULE OperationLifecycle -------------------------
(***************************************************************************)
(* What the harness promises of an operation (README, "Components": the    *)
(* coordinator dispatches committed operations, the session store persists *)
(* operation state, the manager is an actor runtime for durable            *)
(* operations).  An operation is recorded first; only then may a runtime   *)
(* work on it.  The runtime is lost with its process, and a later one goes *)
(* on with what has not ended.  What has ended is never worked on again.   *)
(***************************************************************************)
CONSTANT Ops

VARIABLES
  stored,  \* what the session holds of each operation
  active   \* the operations a runtime works on

vars == <<stored, active>>

Init ==
  /\ stored = [o \in Ops |-> "none"]
  /\ active = {}

Record(o) ==
  /\ stored[o] = "none"
  /\ stored' = [stored EXCEPT ![o] = "recorded"]
  /\ UNCHANGED active

Work(started) ==
  /\ \A o \in started : stored[o] = "recorded"
  /\ active' = active \cup started
  /\ UNCHANGED stored

\* The runtime is done with operations before the session knows, or it is
\* lost with all of them.
Leave(left) ==
  /\ active' = active \ left
  /\ UNCHANGED stored

End(o) ==
  /\ stored[o] = "recorded"
  /\ o \notin active
  /\ stored' = [stored EXCEPT ![o] = "ended"]
  /\ UNCHANGED active

Next ==
  \/ \E o \in Ops : Record(o) \/ End(o)
  \/ \E ops \in SUBSET Ops : Work(ops) \/ Leave(ops)

Spec == Init /\ [][Next]_vars
=============================================================================
