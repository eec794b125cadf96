------------------------- MODULE MCOperationManager -------------------------
(* Instances of the operation manager small enough for TLC.                  *)
EXTENDS OperationManagerChecks, TLC

CONSTANTS a, b

OneOperation == {a}
TwoOperations == {a, b}
Commands == {a}

\* One operation of each type.
Singles == { a :> type : type \in Types }

\* Two operations beside each other.
Pairs ==
  { a :> "remote" @@ b :> "remote",
    a :> "code" @@ b :> "remote",
    a :> "edit" @@ b :> "value" }

SinglesAndPairs == Singles \cup Pairs
=============================================================================
