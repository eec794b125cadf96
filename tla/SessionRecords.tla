--------------------------- MODULE SessionRecords ---------------------------
(***************************************************************************)
(* The records of a session file (harness/sessionstore/localfile) and what *)
(* is read from them: the whole history (decodeLog), the state a run       *)
(* resumes from, by way of its latest checkpoint (decodeResumeLog), the    *)
(* initial log of a fork (forkStoredState), and the cut of a rewind        *)
(* (cutLog in cmd/internal/cockpit).                                       *)
(*                                                                         *)
(* A file is the sequence of its records after the session header; an      *)
(* offset is the index of a record.  A prompt, a turn and an operation are *)
(* their IDs; every tool call starts one operation and has its ID.  The    *)
(* state of an operation that is not archived is its full JSON.            *)
(*                                                                         *)
(* An operator whose name ends in a word after an underscore is a mutant of *)
(* the operator it precedes.                                               *)
(***************************************************************************)
EXTENDS Integers, SequencesExt, Functions

CONSTANTS
  Prompts,   \* IDs of external inputs
  Settings,  \* IDs of the settings a run records before its prompt
  Turns,     \* turn IDs
  Ops,       \* operation IDs
  None,      \* no value, a model value
  Saved      \* the value of a status that holds its operation by ID

ASSUME RecordsAssumption ==
  /\ None # Saved
  /\ None \notin Prompts \cup Settings \cup Turns \cup Ops
  /\ Prompts \cap Settings = {}

Bare == "bare"     \* the state of an archived operation: left in its record

Unfinished == {"ready", "awaiting"}
Values == [status : Unfinished \cup {"completed"}, state : {"full", Bare}]

ASSUME ValuesAssumption == {None, Saved} \cap Values = {}

Value(status) == [status |-> status, state |-> "full"]
Finished(value) == value.status \notin Unfinished

\* Items; a status that reports a translation error has no operation.
InputItem(id) == [kind |-> "input", id |-> id]
TurnItem(turn, previous) == [kind |-> "turn", turn |-> turn, previous |-> previous]
ResponseItem(turn) == [kind |-> "response", turn |-> turn]
StatusItem(turn, op, value) == [kind |-> "status", turn |-> turn, op |-> op, value |-> value]
ForkItem(previous) == [kind |-> "fork", previous |-> previous]

ItemRecord(seq, item) == [type |-> "item", seq |-> seq, item |-> item]
OperationRecord(op, value) == [type |-> "operation", op |-> op, value |-> value]
CheckpointRecord(at, head) == [type |-> "checkpoint", at |-> at, head |-> head]

\* The result of Step(state, k) over 1..n, from base; each state is bound, so
\* that it is computed once.
Over(n, base, Step(_, _)) ==
  LET result[k \in 0..n] ==
        IF k = 0 THEN base
        ELSE CHOOSE next \in {Step(state, k) : state \in {result[k - 1]}} : TRUE
  IN result[n]

IsItem(record) == record.type = "item"
IsFork(record) == IsItem(record) /\ record.item.kind = "fork"

-----------------------------------------------------------------------------
(* The head of a session *)

\* offsets: where the full state of each operation is, once located
Heads ==
  [seq : Nat, latest : Turns \cup {None},
   turns : SUBSET Turns, owned : SUBSET Turns, responded : SUBSET Turns,
   calls : SUBSET (Turns \X Ops),
   ops : UNION {[O -> Values] : O \in SUBSET Ops},
   pending : SUBSET Ops, inputs : Seq(Prompts),
   located : BOOLEAN, offsets : [Ops -> Nat], archived : SUBSET Ops]

NewHead ==
  [seq |-> 0, latest |-> None, turns |-> {}, owned |-> {}, responded |-> {},
   calls |-> {}, ops |-> <<>>, pending |-> {}, inputs |-> <<>>,
   located |-> FALSE, offsets |-> [o \in Ops |-> 0], archived |-> {}]

ResetOwned(head) ==
  [head EXCEPT !.owned = {}, !.responded = {}, !.calls = {}, !.ops = <<>>, !.pending = {},
               !.located = FALSE, !.offsets = [o \in Ops |-> 0], !.archived = {}]

Accepts(head, item) ==
  CASE item.kind = "input" -> TRUE
    [] item.kind = "turn" -> item.previous = head.latest /\ item.turn \notin head.turns
    [] item.kind = "response" -> item.turn \in head.owned \ head.responded
    [] item.kind = "status" ->
         /\ item.turn \in head.owned
         /\ \/ <<item.turn, item.op>> \in head.calls
            \/ item.value = None
            \/ item.op \notin DOMAIN head.ops
    [] OTHER -> FALSE

RecordStatusOperation(head, op, value) ==
  IF value = None THEN head
  ELSE [head EXCEPT !.pending = IF Finished(value) THEN @ \ {op} ELSE @ \cup {op}]

\* The head after an item it accepts, its operation resolved.
AddItem(head, item) ==
  LET next == [head EXCEPT !.seq = @ + 1] IN
  CASE item.kind = "input" ->
         IF item.id \in Prompts THEN [next EXCEPT !.inputs = Append(@, item.id)] ELSE next
    [] item.kind = "turn" ->
         [next EXCEPT !.turns = @ \cup {item.turn}, !.owned = @ \cup {item.turn},
                      !.latest = item.turn]
    [] item.kind = "response" -> [next EXCEPT !.responded = @ \cup {item.turn}]
    [] item.kind = "status" ->
         LET key == <<item.turn, item.op>>
             started == IF key \in head.calls THEN next
                        ELSE [next EXCEPT
                               !.calls = @ \cup {key},
                               !.ops = IF item.value = None THEN @
                                       ELSE [o \in DOMAIN @ \cup {item.op} |->
                                               IF o = item.op THEN item.value ELSE @[o]]]
         IN RecordStatusOperation(started, item.op, item.value)

\* An item of history before the last fork.
Inherit(head, seq, item) ==
  LET next == [head EXCEPT !.seq = seq] IN
  CASE item.kind = "input" ->
         IF item.id \in Prompts THEN [next EXCEPT !.inputs = Append(@, item.id)] ELSE next
    [] item.kind = "turn" ->
         [next EXCEPT !.turns = @ \cup {item.turn}, !.owned = @ \cup {item.turn},
                      !.latest = item.turn]
    [] item.kind = "response" -> [next EXCEPT !.responded = @ \cup {item.turn}]
    [] item.kind = "status" -> [next EXCEPT !.calls = @ \cup {<<item.turn, item.op>>}]
    [] item.kind = "fork" -> ResetOwned(next)

CanSave(head, op) == op \in DOMAIN head.ops
SaveOperation(head, op, value) == [head EXCEPT !.ops[op] = value]

NoteRecord_First(head, record, offset) ==
  IF /\ head.located
     /\ record.type = "operation" \/ (IsItem(record) /\ record.item.kind = "status"
                                       /\ record.item.value \notin {None, Saved})
  THEN LET o == IF IsItem(record) THEN record.item.op ELSE record.op
       IN [head EXCEPT !.offsets[o] = IF @ = 0 THEN offset ELSE @, !.archived = @ \ {o}]
  ELSE head

\* Where the state of an operation is, once a record is written at offset.
NoteRecord(head, record, offset) ==
  IF ~head.located THEN head
  ELSE CASE record.type = "operation" ->
              [head EXCEPT !.offsets[record.op] = offset, !.archived = @ \ {record.op}]
         [] /\ IsItem(record)
            /\ record.item.kind = "status"
            /\ record.item.value \notin {None, Saved}
            /\ record.item.op \in DOMAIN head.ops
            /\ head.offsets[record.item.op] = 0 ->
              [head EXCEPT !.offsets[record.item.op] = offset]
         [] OTHER -> head

-----------------------------------------------------------------------------
(* Reading the whole history *)

\* A state read so far: its head, its items with their operations, and how
\* many items the checkpoint it started from stands for.
Read0 == [ok |-> TRUE, head |-> NewHead, items |-> <<>>, after |-> 0]
Unreadable(state) == [state EXCEPT !.ok = FALSE]

\* The item of a record, with the operation it holds by ID as the head has it.
Resolved(head, item) ==
  IF item.kind = "status" /\ item.value = Saved /\ item.op \in DOMAIN head.ops
  THEN [item EXCEPT !.value = head.ops[item.op]]
  ELSE item

Resolvable(head, item) ==
  item.kind = "status" /\ item.value = Saved
    => <<item.turn, item.op>> \in head.calls /\ item.op \in DOMAIN head.ops

ReplayItem(state, record) ==
  LET item == Resolved(state.head, record.item) IN
  IF /\ record.seq = state.head.seq + 1
     /\ Resolvable(state.head, record.item)
     /\ Accepts(state.head, item)
  THEN [state EXCEPT !.head = AddItem(@, item), !.items = Append(@, item)]
  ELSE Unreadable(state)

InheritItem(state, record) ==
  IF \/ record.seq # state.head.seq + 1
     \/ record.item.kind = "status" /\ record.item.value # None
  THEN Unreadable(state)
  ELSE [state EXCEPT !.head = Inherit(@, record.seq, record.item),
                     !.items = Append(@, record.item)]

ReplayOperation(state, record) ==
  IF CanSave(state.head, record.op)
  THEN [state EXCEPT !.head = SaveOperation(@, record.op, record.value)]
  ELSE Unreadable(state)

\* The record at k, when the last fork is at inherited.
DecodeRecord(state, record, k, inherited) ==
  CASE ~state.ok -> state
    [] state.ok /\ IsItem(record) /\ k <= inherited -> InheritItem(state, record)
    [] state.ok /\ IsItem(record) /\ k > inherited -> ReplayItem(state, record)
    [] state.ok /\ record.type = "operation" /\ k <= inherited -> Unreadable(state)
    [] state.ok /\ record.type = "operation" /\ k > inherited -> ReplayOperation(state, record)
    [] state.ok /\ record.type = "checkpoint" -> state
    [] state.ok /\ record.type = "garbled" -> Unreadable(state)

LastFork(records) == SelectLastInSeq(records, IsFork)

DecodeLog(records) ==
  LET inherited == LastFork(records)
      Step(state, k) == DecodeRecord(state, records[k], k, inherited)
  IN Over(Len(records), Read0, Step)

-----------------------------------------------------------------------------
(* Checkpoints, and reading from one *)

\* What a checkpoint holds of a head: settled operations only by their place.
CheckpointHead(head) ==
  LET settled == {o \in DOMAIN head.ops : Finished(head.ops[o]) /\ o \notin head.pending}
  IN [head EXCEPT !.archived = settled,
                  !.ops = [o \in DOMAIN @ |-> IF o \in settled THEN [@[o] EXCEPT !.state = Bare]
                                              ELSE @[o]]]

\* A head without locations finds them in the records: the last one that saved
\* the operation, or the status that began it.
LocateOperations(head, records) ==
  LET Began(o, k) == /\ IsItem(records[k])
                     /\ records[k].item.kind = "status"
                     /\ records[k].item.op = o
                     /\ records[k].item.value \notin {None, Saved}
      Saves(o) == {k \in 1..Len(records) :
                     records[k].type = "operation" /\ records[k].op = o}
      Begins(o) == {k \in 1..Len(records) : Began(o, k)}
      Place(o) == IF Saves(o) # {} THEN Max(Saves(o))
                  ELSE IF Begins(o) # {} THEN Min(Begins(o)) ELSE 0
  IN [head EXCEPT !.located = TRUE,
        !.offsets = [o \in Ops |-> IF o \in DOMAIN head.ops THEN Place(o) ELSE 0]]

Located(head) == \A o \in DOMAIN head.ops : head.offsets[o] # 0

Restorable(head, place) ==
  /\ head.seq # 0
  /\ head.latest \in head.turns \cup {None}
  /\ head.owned \subseteq head.turns
  /\ head.responded \subseteq head.owned
  /\ \A call \in head.calls : call[1] \in head.owned
  /\ \A o \in DOMAIN head.ops : head.offsets[o] \in 1..place - 1
  /\ \A o \in head.archived :
       Finished(head.ops[o]) /\ o \notin head.pending /\ head.ops[o].state = Bare

ValidCheckpoint(records, k) ==
  /\ records[k].type = "checkpoint"
  /\ records[k].at = k
  /\ Restorable(records[k].head, k)

\* The full state of an archived operation, from its original record.
LoadArchivedOperation(state, records, op) ==
  LET original == records[state.head.offsets[op]]
      value == IF original.type = "operation" THEN original.value ELSE original.item.value
      prior == state.head.ops[op]
  IN IF value \in Values /\ value.status = prior.status
     THEN [state EXCEPT !.head.ops[op] = value, !.head.archived = @ \ {op}]
     ELSE Unreadable(state)

\* One record after the checkpoint.
ReplaySuffix(records, state, k) ==
  LET record == records[k]
      archived == IsItem(record) /\ record.item.kind = "status"
                    /\ record.item.value = Saved /\ record.item.op \in state.head.archived
      loaded == IF archived THEN LoadArchivedOperation(state, records, record.item.op) ELSE state
      Noted(next) == [next EXCEPT !.head = NoteRecord(@, record, k)]
  IN IF ~loaded.ok THEN loaded
     ELSE CASE IsItem(record) -> Noted(ReplayItem(loaded, record))
            [] record.type = "operation" -> Noted(ReplayOperation(loaded, record))
            [] record.type = "checkpoint" -> loaded

DecodeResumeLog(records) ==
  LET valid == {k \in 1..Len(records) : ValidCheckpoint(records, k)}
      from == Max(valid)
      head == records[from].head
      start == [Read0 EXCEPT !.head = head, !.after = head.seq]
      Step(state, i) == IF state.ok THEN ReplaySuffix(records, state, from + i) ELSE state
      suffix == SubSeq(records, from + 1, Len(records))
  IN IF valid = {} \/ \E k \in 1..Len(suffix) : IsFork(suffix[k])
     THEN DecodeLog(records)
     ELSE Over(Len(suffix), start, Step)

\* What a run starts from: the operations it is to see again, by their state,
\* the prompts the session has, and the items it reads.
Resume(state) ==
  [ops |-> {<<o, state.head.ops[o]>> :
              o \in {o \in DOMAIN state.head.ops :
                       ~Finished(state.head.ops[o]) \/ o \in state.head.pending}},
   inputs |-> state.head.inputs, after |-> state.after, items |-> state.items]

-----------------------------------------------------------------------------
(* Forks *)

OfTurn(item, turn) == item.kind \in {"turn", "response", "status"} /\ item.turn = turn

\* The last item of a turn before the next turn; 0 when there is none.
Boundary(items, turn) ==
  LET starts == {i \in 1..Len(items) : items[i].kind = "turn" /\ items[i].turn = turn}
      start == Min(starts)
      own == {i \in start..Len(items) :
                /\ OfTurn(items[i], turn)
                /\ \A j \in start + 1..i : items[j].kind # "turn"}
  IN IF starts = {} THEN 0 ELSE Max(own)

\* An item as a fork's initial log holds it: its operations stay behind.
WithoutOperations(item) ==
  IF item.kind = "status" THEN [item EXCEPT !.value = None] ELSE item

ForkLog(items, turn) ==
  LET boundary == Boundary(items, turn)
  IN [i \in 1..boundary |-> ItemRecord(i, WithoutOperations(items[i]))]
       \o <<ItemRecord(boundary + 1, ForkItem(turn))>>

TurnBefore_Latest(items, prompt) ==
  LET turns == {i \in 1..Len(items) : items[i].kind = "turn"}
  IN IF turns = {} THEN None ELSE items[Max(turns)].turn

\* The turn BranchSession forks at to leave out a prompt: the last before it.
TurnBefore(items, prompt) ==
  LET at == CHOOSE i \in 1..Len(items) : items[i] = InputItem(prompt)
      turns == {i \in 1..at : items[i].kind = "turn"}
  IN IF turns = {} THEN None ELSE items[Max(turns)].turn

-----------------------------------------------------------------------------
(* The cut of a rewind *)

IsPrompt(record, prompt) == IsItem(record) /\ record.item = InputItem(prompt)
IsSettings(record) == IsItem(record) /\ record.item.kind = "input" /\ record.item.id \in Settings

\* The cutter before the first record; waiting are the settings read last,
\* which remain unless the prompt comes next.
Cutter ==
  [found |-> FALSE, waiting |-> <<>>, keep |-> 0, items |-> 0, sinceFork |-> 0,
   latest |-> None, owned |-> {}, forked |-> FALSE, saves |-> <<>>]

\* A record before the cut.
Remain(cut, record) ==
  IF ~IsItem(record) THEN cut
  ELSE LET next == [cut EXCEPT !.items = @ + 1, !.sinceFork = @ + 1] IN
       CASE record.item.kind = "turn" -> [next EXCEPT !.latest = record.item.turn]
         [] record.item.kind = "fork" -> [next EXCEPT !.sinceFork = 0, !.owned = {}]
         [] record.item.kind = "status" /\ record.item.value # None ->
              [next EXCEPT !.owned = @ \cup {record.item.op}]
         [] OTHER -> next

CutOff_Forget(cut, record) == IF IsFork(record) THEN [cut EXCEPT !.forked = TRUE] ELSE cut

\* A record from the cut on.
CutOff(cut, record) ==
  CASE record.type = "operation" /\ record.op \in cut.owned ->
         [cut EXCEPT !.saves = Append(@, record)]
    [] IsFork(record) -> [cut EXCEPT !.forked = TRUE]
    [] OTHER -> cut

CutterAdd(prompt, cut, record, k) ==
  CASE cut.found -> CutOff(cut, record)
    [] ~cut.found /\ IsPrompt(record, prompt) ->
         CutOff([cut EXCEPT !.found = TRUE, !.keep = k - Len(cut.waiting) - 1,
                            !.waiting = <<>>], record)
    [] ~cut.found /\ IsSettings(record) -> [cut EXCEPT !.waiting = Append(@, record)]
    [] OTHER -> LET Flush(c, i) == Remain(c, cut.waiting[i])
                IN Remain(Over(Len(cut.waiting), [cut EXCEPT !.waiting = <<>>], Flush), record)

CutLog(records, prompt) ==
  LET Add(cut, k) == CutterAdd(prompt, cut, records[k], k)
  IN Over(Len(records), Cutter, Add)

Remains_Unmarked(records, cut) == SubSeq(records, 1, cut.keep) \o cut.saves


\* The records of the rewound file: those kept, and what is added back.
Remains(records, cut) ==
  LET kept == SubSeq(records, 1, cut.keep) IN
  IF cut.forked /\ cut.sinceFork > 0
  THEN kept \o <<ItemRecord(cut.items + 1, ForkItem(cut.latest))>>
  ELSE kept \o cut.saves
=============================================================================
