---------------------------- MODULE OnceDelivery ----------------------------
(***************************************************************************)
(* What the session inbox promises its two sides (harness/inbox/inbox.go): *)
(* every input it accepts, it accepts once, and hands over at most once;   *)
(* an input the session recorded before is neither.  What is accepted and  *)
(* not handed over when the inbox ends is lost: the sender repeats it.     *)
(***************************************************************************)
EXTENDS Sequences

CONSTANTS
  IDs,     \* the IDs inputs may carry
  SeenIDs  \* those the session recorded before

VARIABLES
  accepted,  \* the IDs a further submission of which is dropped
  received   \* the inputs handed over, in order

vars == <<accepted, received>>

Init ==
  /\ accepted = SeenIDs
  /\ received = <<>>

Accept(id) ==
  /\ id \notin accepted
  /\ accepted' = accepted \cup {id}
  /\ UNCHANGED received

HandOver(id) ==
  /\ id \in accepted \ SeenIDs
  /\ \A i \in DOMAIN received : received[i] # id
  /\ received' = Append(received, id)
  /\ UNCHANGED accepted

Next == \E id \in IDs : Accept(id) \/ HandOver(id)

Spec == Init /\ [][Next]_vars
=============================================================================
