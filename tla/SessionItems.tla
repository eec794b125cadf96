---------------------------- MODULE SessionItems ----------------------------
(***************************************************************************)
(* The items a session's log holds (harness/sessionstore) and the state    *)
(* the coordinator derives from them (addItemToLocalState in               *)
(* harness/coordinator/loop.go).  The coordinator adds every item to this  *)
(* state as it records it, and again when a later run replays the log.     *)
(*                                                                         *)
(* An operator whose name ends in a word after an underscore is a mutant of *)
(* the operator it precedes: a mistake the runs find.                      *)
(*                                                                         *)
(* Content is abstracted to what decisions depend on.  An external input   *)
(* is its ID, a control input its purpose, a tool call or a verification   *)
(* its ID, which is also the ID of the one operation its translator        *)
(* submits.                                                                *)
(***************************************************************************)
EXTENDS Integers, Sequences

CONSTANTS
  External,  \* IDs of external inputs: prompts and steering
  Calls,     \* tool calls the model may make, over the life of the session
  Checks     \* verifications the harness may run

ASSUME ItemsAssumption ==
  /\ Calls \cap Checks = {}
  /\ External \cap {"heartbeat", "nudge", "budget", "report", "resume", "note", "reminder",
                   "verification", "stop_hard", "stop_idle", "compact", "settings"} = {}

Ops == Calls \cup Checks

\* Heartbeat controls: of a wait for tools, of an answer to continue or
\* repeat, of a spent budget, of a progress report, of the stop of an earlier
\* run, of notes, of the coming compaction, of a failed verification.
Heartbeats ==
  {"heartbeat", "nudge", "budget", "report", "resume", "note", "reminder", "verification"}

Controls == Heartbeats \cup {"stop_hard", "stop_idle", "compact", "settings"}

Inputs == External \cup Controls

\* Operation statuses; completed also stands for failed, awaiting for canceling.
Terminal == {"completed", "canceled"}
Unfinished == {"ready", "awaiting"}
Statuses == Unfinished \cup Terminal

\* How a response ends: well, well but with nothing in it, cut at the output
\* limit, refused, failed; and how a compaction's does: with a summary, or
\* without one.
Endings == {"whole", "empty", "cut", "refused", "failed", "summary", "nosummary"}

\* A status item: "none" is a translation error, which has no operation.
InputItem(id) == [kind |-> "input", id |-> id]
TurnItem(n, compaction) == [kind |-> "turn", turn |-> n, compaction |-> compaction]
ResponseItem(n, calls, ending) ==
  [kind |-> "response", turn |-> n, calls |-> calls, ending |-> ending]
StatusItem(o, status) == [kind |-> "status", op |-> o, status |-> status]
ForkItem == [kind |-> "fork"]

Items ==
  [kind : {"input"}, id : Inputs]
    \cup [kind : {"turn"}, turn : Nat, compaction : BOOLEAN]
    \cup [kind : {"response"}, turn : Nat, calls : SUBSET Calls, ending : Endings]
    \cup [kind : {"status"}, op : Ops, status : Statuses \cup {"none"}]
    \cup {ForkItem}

-----------------------------------------------------------------------------
(* The derived state *)

\* Where a tool call is: not made, made and not translated, translated and
\* waiting for its operation, finished and out of the coordinator's map.
CallStates == {"none", "asked", "waiting", "done"}
Open == {"asked", "waiting"}

\* history is what a checkpoint saves of the three values that the live
\* loop also changes without recording an item (replayHistory).
DerivedState ==
  [turn : Nat, compactionTurns : SUBSET Nat,
   calls : [Calls -> CallStates], ops : [Ops -> Statuses \cup {"none"}],
   available : Nat, delivered : Nat, turnInputs : Nat,
   asked : BOOLEAN, compacted : BOOLEAN, since : Int, failed : Nat, refills : Nat,
   reminded : BOOLEAN, verifications : Nat, work : BOOLEAN, stopped : BOOLEAN,
   history : [verifications : Nat, work : BOOLEAN, stopped : BOOLEAN]]

Blank ==
  [turn |-> 0, compactionTurns |-> {},
   calls |-> [c \in Calls |-> "none"], ops |-> [o \in Ops |-> "none"],
   available |-> 0, delivered |-> 0, turnInputs |-> 0,
   asked |-> FALSE, compacted |-> FALSE, since |-> -1, failed |-> 0, refills |-> 0,
   reminded |-> FALSE, verifications |-> 0, work |-> FALSE, stopped |-> FALSE,
   history |-> [verifications |-> 0, work |-> FALSE, stopped |-> FALSE]]

\* Compaction backs off when the conversation refills within this many
\* ordinary turns (rapidRefillTurns).
RapidRefillTurns == 3

RefilledRapidly(h) == h.since >= 0 /\ h.since < RapidRefillTurns

OpenCalls(h) == {c \in Calls : h.calls[c] \in Open}

\* pendingInputs: what the model has yet to read
Pending(h) == h.available - h.delivered

CountVerifications_live(n, id) == IF id \in External THEN 0 ELSE n

CountVerifications(n, id) ==
  CASE id \in External      -> 0
    [] id = "verification" -> n + 1
    [] OTHER               -> n

AddInput(h, id) ==
  [h EXCEPT !.available = IF id \in External \cup Heartbeats THEN @ + 1 ELSE @,
            !.verifications = CountVerifications(@, id),
            !.reminded = @ \/ id = "reminder",
            !.asked = @ \/ id = "compact",
            !.stopped = @ \/ id = "stop_hard",
            !.history.verifications = CountVerifications(@, id),
            !.history.stopped = @ \/ id = "stop_hard"]

StopWaits_compaction(waits, compaction) == FALSE

\* An ordinary turn was told of the stop before it; a compaction was not.
StopWaits(waits, compaction) == waits /\ compaction

\* A compaction that was asked for is no refill.
AddTurn(h, n, compaction) ==
  [h EXCEPT !.turn = n,
            !.compactionTurns = IF compaction THEN @ \cup {n} ELSE @ \ {n},
            !.refills = IF ~compaction THEN @
                        ELSE IF ~h.asked /\ RefilledRapidly(h) THEN @ + 1 ELSE 0,
            !.stopped = StopWaits(@, compaction),
            !.history.stopped = StopWaits(@, compaction),
            !.asked = FALSE,
            !.turnInputs = h.available]

\* A summary counts only while its turn is the latest.
AddSummary(h, n, compacted) ==
  IF n # h.turn THEN h
  ELSE [h EXCEPT !.compacted = TRUE,
                 !.failed = IF compacted THEN 0 ELSE @ + 1,
                 !.since = IF compacted THEN 0 ELSE @,
                 !.reminded = @ /\ ~compacted]

AddAnswer(h, n, calls) ==
  [h EXCEPT !.compacted = FALSE,
            !.since = IF @ >= 0 THEN @ + 1 ELSE @,
            !.delivered = IF n = h.turn THEN h.turnInputs ELSE @,
            !.work = @ \/ calls # {},
            !.history.work = @ \/ calls # {},
            !.calls = [c \in Calls |-> IF c \in calls THEN "asked" ELSE @[c]]]

\* The operation is stored with the status; a status with nothing left to
\* wait for finishes its call and gives the model a result to read.
AddStatus(h, o, status) ==
  LET open == o \in OpenCalls(h)
      waits == status \in Unfinished
  IN [h EXCEPT !.ops = IF status = "none" THEN @ ELSE [@ EXCEPT ![o] = status],
               !.calls = IF ~open THEN @
                         ELSE [@ EXCEPT ![o] = IF waits THEN "waiting" ELSE "done"],
               !.available = IF open /\ ~waits THEN @ + 1 ELSE @]

AddFork_keepsoperations(h) ==
  [h EXCEPT !.calls = [c \in Calls |-> IF @[c] = "none" THEN "none" ELSE "done"]]

\* A fork inherits the items before it, but neither their tool calls nor
\* their operations.
AddFork(h) ==
  [h EXCEPT !.calls = [c \in Calls |-> IF @[c] = "none" THEN "none" ELSE "done"],
            !.ops = [o \in Ops |-> "none"]]

AddItem(h, item) ==
  CASE item.kind = "input"    -> AddInput(h, item.id)
    [] item.kind = "turn"     -> AddTurn(h, item.turn, item.compaction)
    [] item.kind = "response" -> IF item.turn \in h.compactionTurns
                                   THEN AddSummary(h, item.turn, item.ending = "summary")
                                   ELSE AddAnswer(h, item.turn, item.calls)
    [] item.kind = "status"   -> AddStatus(h, item.op, item.status)
    [] item.kind = "fork"     -> AddFork(h)
=============================================================================
