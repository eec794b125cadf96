---------------------------- MODULE MCCoordinator ----------------------------
(* Instances of the coordinator small enough for TLC; each cfg chooses one.  *)
EXTENDS CoordinatorChecks, TLC

CONSTANTS e1, e2, e3, c1, c2, k1, k2

\* External inputs: e2 is steering, delivered after tools.
OneInput == {e1}
TwoInputs == {e1, e2}
ThreeInputs == {e1, e2, e3}
Steering == {e2}
None == {}

OneCall == {c1}
TwoCalls == {c1, c2}
OneCheck == {k1}
TwoChecks == {k1, k2}

Idle == {"stop_idle"}
Stops == {"stop_idle", "stop_hard"}
Compact == {"compact"}
HardOrCompact == {"stop_hard", "compact"}
HardStop == {"stop_hard"}

NotForked == <<>>

\* Sessions are forked at the last item of a turn (forkStoredState): here when
\* the turn's call had its result, which the model did not read yet.
Resulting(prompt) ==
  << InputItem(prompt), TurnItem(1, FALSE), ResponseItem(1, {c1}, "whole"),
     StatusItem(c1, "ready"), StatusItem(c1, "completed"), ForkItem >>

Resulted2 == Resulting(e2)
Resulted3 == Resulting(e3)

\* Forked while the turn's call ran: the call has no result.
Forked ==
  << InputItem(e1), TurnItem(1, FALSE), ResponseItem(1, {c1}, "whole"),
     StatusItem(c1, "ready"), ForkItem >>
=============================================================================
