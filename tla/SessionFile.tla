---------------------------- MODULE SessionFile ----------------------------
(***************************************************************************)
(* A session's file and those who use it: the one runner that appends to   *)
(* it (harness/sessionstore/localfile), rewinds and branches               *)
(* (cmd/internal/cockpit/rewind.go, manage.go), and a front-end that reads *)
(* it as it grows (sessions.go).  The lock of the session keeps runs and   *)
(* rewinds apart; readers and branches do not take it.                     *)
(*                                                                         *)
(* An append truncates the file to what the runner knows as committed,     *)
(* writes and syncs: the runner may die, and the disk fail, between any    *)
(* two of these.                                                           *)
(*                                                                         *)
(* An operator whose name ends in a word after an underscore is a mutant of *)
(* the operator it precedes.                                               *)
(*                                                                         *)
(* Abstractions.  IDs are never used twice (they are UUIDs), and a request *)
(* has one answer, which nobody appends again; every write changes the     *)
(* modification time to one nobody has seen; and a new file may get the    *)
(* inode of any file that is gone and that nobody has open.  Of what a      *)
(* front-end has read last it keeps no more than 4096 bytes: records of one *)
(* length that differ do so in these.                                      *)
(***************************************************************************)
EXTENDS SessionRecords

CONSTANTS
  Histories,   \* what the session may hold when it is first looked at
  Inodes,      \* the file system's choices for a new file
  Previews,    \* front-ends show a rewind before they do it
  Watches,     \* a front-end reads the session as it grows
  \* Bounds of the model
  MaxRecords, Runs, Failures, Rewinds, Branches

ASSUME FileAssumption ==
  /\ {Previews, Watches} \subseteq BOOLEAN
  /\ {MaxRecords, Runs, Failures, Rewinds, Branches} \subseteq Nat

VARIABLES
  file,     \* its records, whether a torn record follows, inode and mtime
  lock,     \* who holds the session: nobody or a run
  write,    \* the runner's write state: None, or a head and the committed size
  read,     \* the runner's read state: None, or what was read of which file
  step,     \* the append in progress
  preview,  \* the cut found for a prompt (cuts): None, or of which file
  loaded,   \* what the front-end read of which file (loaded)
  glance,   \* a read of the front-end in progress: None, or what it has so far
  branch,   \* a branch in progress: None, or the prompt and the turn before it
  used,     \* IDs and answers that were used
  runs, failures, rewinds, branches

runner == <<write, read, step>>
watch == <<loaded, glance>>
bounds == <<runs, failures, rewinds, branches>>
vars == <<file, lock, runner, preview, watch, branch, used, bounds>>

\* What os.Stat tells of the file, a torn record being shorter than a whole one.
Version(f) ==
  [id |-> f.id, size |-> 2 * Len(f.records) + (IF f.torn THEN 1 ELSE 0), mtime |-> f.mtime]

\* A modification time that neither the file has nor anybody remembers.
Now ==
  LET remembered == {v.version.mtime : v \in {read, preview} \ {None}}
  IN CHOOSE m \in 0..3 : m \notin remembered \cup {file.mtime}

Answer(turn) == [answers |-> turn]

IDs(records) ==
  UNION {LET item == records[k].item IN
         CASE item.kind = "input" -> {item.id}
           [] item.kind = "turn" -> {item.turn}
           [] item.kind = "response" -> {Answer(item.turn)}
           [] item.kind = "status" -> {item.op}
           [] OTHER -> {} : k \in {k \in 1..Len(records) : IsItem(records[k])}}

UpTo(f, size) == SubSeq(f.records, 1, Min({size, Len(f.records)}))

\* What was read of a file (loadedSession): the lines up to an offset, and the
\* record whose end the bytes before that are, if they are one's (tail).  That
\* the file was written over while it was read is only noted here, not there.
NotLoaded == [id |-> None, lines |-> <<>>, offset |-> 0, tail |-> None, overtaken |-> FALSE]

Init ==
  /\ \E id \in Inodes, records \in Histories :
       /\ file = [records |-> records, torn |-> FALSE, id |-> id, mtime |-> 0]
       /\ used = IDs(records)
  /\ lock = None
  /\ write = None
  /\ read = None
  /\ step = None
  /\ preview = None
  /\ loaded = NotLoaded
  /\ glance = None
  /\ branch = None
  /\ runs = 0
  /\ failures = 0
  /\ rewinds = 0
  /\ branches = 0

-----------------------------------------------------------------------------
(* A run *)

Start ==
  /\ lock = None /\ runs < Runs
  /\ lock' = "run"
  /\ runs' = runs + 1
  /\ UNCHANGED <<file, runner, preview, watch, branch, used, failures, rewinds, branches>>

\* The process and what it knew are gone; a record it was writing may be torn,
\* and one that was not synced may be lost with the machine, on which the
\* front-ends were too.
Stop ==
  /\ lock = "run"
  /\ lock' = None
  /\ write' = None
  /\ read' = None
  /\ step' = None
  /\ \/ UNCHANGED <<file, preview, watch>>
     \/ /\ step # None /\ step.phase = "write"
        /\ file' = [file EXCEPT !.torn = TRUE, !.mtime = Now]
        /\ UNCHANGED <<preview, watch>>
     \/ /\ step # None /\ step.phase = "sync" /\ branch = None
        /\ \E torn \in BOOLEAN :
             file' = [file EXCEPT !.records = Front(@), !.torn = torn, !.mtime = Now]
        /\ preview' = None
        /\ loaded' = NotLoaded
        /\ glance' = None
  /\ UNCHANGED <<branch, used, bounds>>

Reusable_Any(forResume) == read # None /\ read.version = Version(file)

\* sharedState: what was read is used again while the file is the same; a
\* state read from a checkpoint lacks the items before it.
Reusable(forResume) ==
  /\ read # None
  /\ read.version = Version(file)
  /\ IF forResume THEN read.forResume ELSE read.state.after = 0

SharedState(forResume) ==
  IF Reusable(forResume) THEN read.state
  ELSE IF forResume THEN DecodeResumeLog(file.records) ELSE DecodeLog(file.records)

ReadState(forResume) ==
  [version |-> Version(file), forResume |-> forResume, state |-> SharedState(forResume)]

\* A run resumes its session, and pages its items in.
ReadSession(forResume) ==
  /\ lock = "run" /\ step = None
  /\ ~Reusable(forResume)
  /\ read' = ReadState(forResume)
  /\ UNCHANGED <<file, lock, write, step, preview, watch, branch, used, bounds>>

\* loadWriteState: what the runner knows, or what it reads.
WriteState ==
  IF write # None THEN write
  ELSE [head |-> SharedState(TRUE).head, size |-> Len(file.records)]

\* append: the head as it is to be becomes the write state once the record is
\* synced.  The read state is gone before the file changes.
BeginAppend(record, head) ==
  /\ lock = "run" /\ step = None
  /\ WriteState.size < MaxRecords
  /\ step' = [record |-> record, head |-> head, size |-> WriteState.size, phase |-> "truncate"]
  /\ write' = WriteState
  /\ read' = None
  /\ UNCHANGED <<file, lock, preview, watch, branch, bounds>>

BeginItem(item) ==
  LET head == WriteState.head
      resolved == IF item.kind = "status" /\ item.value = Saved
                  THEN [item EXCEPT !.value = head.ops[item.op]] ELSE item
  IN /\ Accepts(head, item)
     /\ BeginAppend(ItemRecord(head.seq + 1, item), AddItem(head, resolved))

AppendInput(id) ==
  /\ id \notin used
  /\ BeginItem(InputItem(id))
  /\ used' = used \cup {id}

AppendTurn(turn) ==
  /\ turn \notin used
  /\ BeginItem(TurnItem(turn, WriteState.head.latest))
  /\ used' = used \cup {turn}

\* The answer to the request for a turn comes once, in the run that made it.
AppendModelResponse(turn) ==
  /\ Answer(turn) \notin used
  /\ BeginItem(ResponseItem(turn))
  /\ used' = used \cup {Answer(turn)}

\* The first status of a call starts its operation.
BeginOperation(turn, op) ==
  /\ op \notin used
  /\ turn \in WriteState.head.responded
  /\ BeginItem(StatusItem(turn, op, Value("ready")))
  /\ used' = used \cup {op}

FullValue(op) == Value(WriteState.head.ops[op].status)

\* itemOperations: a later status holds the operation by ID if the head has it
\* as it is.  The coordinator records how an operation finished once.
AppendToolCallStatus(turn, op) ==
  LET head == WriteState.head IN
  /\ op \in DOMAIN head.ops
  /\ <<turn, op>> \in head.calls
  /\ Finished(head.ops[op]) /\ op \in head.pending
  /\ BeginItem(StatusItem(turn, op,
       IF head.ops[op] = FullValue(op) THEN Saved ELSE FullValue(op)))
  /\ UNCHANGED used

SaveOperationStatus(op, status) ==
  LET head == WriteState.head IN
  /\ CanSave(head, op)
  /\ <<head.ops[op].status, status>>
       \in {<<"ready", "awaiting">>, <<"ready", "completed">>, <<"awaiting", "completed">>}
  /\ BeginAppend(OperationRecord(op, Value(status)), SaveOperation(head, op, Value(status)))
  /\ UNCHANGED used

SaveCheckpoint ==
  LET head == WriteState.head
      located == IF head.located THEN head
                 ELSE LocateOperations(head, UpTo(file, WriteState.size))
  IN /\ head.seq # 0
     /\ Located(located)
     /\ BeginAppend(CheckpointRecord(WriteState.size + 1, CheckpointHead(located)), located)
     /\ UNCHANGED used

-----------------------------------------------------------------------------
(* appendFile *)

Changed(f) == [f EXCEPT !.mtime = Now]

Truncate ==
  /\ step # None /\ step.phase = "truncate"
  /\ file' = IF Len(file.records) > step.size \/ file.torn
             THEN Changed([file EXCEPT !.records = UpTo(file, step.size), !.torn = FALSE])
             ELSE file
  /\ step' = [step EXCEPT !.phase = "write"]
  /\ UNCHANGED <<lock, write, read, preview, watch, branch, used, bounds>>

\* A record written after a torn one makes one line with it, which no reader
\* can decode.
WriteRecord ==
  /\ step # None /\ step.phase = "write"
  /\ file' = Changed([file EXCEPT
       !.records = Append(@, IF file.torn THEN [type |-> "garbled"] ELSE step.record),
       !.torn = FALSE])
  /\ step' = [step EXCEPT !.phase = "sync"]
  /\ UNCHANGED <<lock, write, read, preview, watch, branch, used, bounds>>

Sync ==
  /\ step # None /\ step.phase = "sync"
  /\ write' = [head |-> NoteRecord(step.head, step.record, step.size + 1), size |-> step.size + 1]
  /\ step' = None
  /\ UNCHANGED <<file, lock, read, preview, watch, branch, used, bounds>>

AppendFails_Kept ==
  /\ step # None /\ failures < Failures
  /\ step' = None
  /\ failures' = failures + 1
  /\ \/ UNCHANGED file
     \/ step.phase = "write" /\ file' = Changed([file EXCEPT !.torn = TRUE])
  /\ UNCHANGED <<write, lock, read, preview, watch, branch, used, runs, rewinds, branches>>

\* A step of the append fails, the write perhaps half done: the runner forgets
\* what it knew of the file.
AppendFails ==
  /\ step # None /\ failures < Failures
  /\ write' = None
  /\ step' = None
  /\ failures' = failures + 1
  /\ \/ UNCHANGED file
     \/ step.phase = "write" /\ file' = Changed([file EXCEPT !.torn = TRUE])
  /\ UNCHANGED <<lock, read, preview, watch, branch, used, runs, rewinds, branches>>

-----------------------------------------------------------------------------
(* Rewinding: a new file takes the place of the old one *)

\* LoadSessionBefore: shows the session as a rewind would leave it.
Preview(prompt) ==
  LET cut == CutLog(file.records, prompt) IN
  /\ Previews
  /\ cut.found
  /\ preview' = [prompt |-> prompt, version |-> Version(file), cut |-> cut]
  /\ UNCHANGED <<file, lock, runner, watch, branch, used, bounds>>

\* The cut a preview found, while the file is the one it read as it was.
Previewed(prompt) ==
  preview # None /\ preview.prompt = prompt /\ preview.version = Version(file)

CutOf(prompt) ==
  IF Previewed(prompt) THEN preview.cut ELSE CutLog(file.records, prompt)

\* The inodes a new file may get.
Free == Inodes \ ({file.id} \cup (IF glance = None THEN {} ELSE {glance.transcript.id}))

Replaced(records, id) ==
  [records |-> records, torn |-> FALSE, id |-> id, mtime |-> Now]

Rewind_Unlocked(prompt) ==
  LET cut == CutOf(prompt) IN
  /\ rewinds < Rewinds
  /\ cut.found
  /\ \E id \in Free : file' = Replaced(Remains(file.records, cut), id)
  /\ preview' = IF Previewed(prompt) THEN None ELSE preview
  /\ rewinds' = rewinds + 1
  /\ UNCHANGED <<lock, runner, watch, branch, used, runs, failures, branches>>

Rewind(prompt) ==
  LET cut == CutOf(prompt) IN
  /\ lock = None
  /\ rewinds < Rewinds
  /\ cut.found
  /\ \E id \in Free : file' = Replaced(Remains(file.records, cut), id)
  /\ preview' = IF Previewed(prompt) THEN None ELSE preview
  /\ rewinds' = rewinds + 1
  /\ UNCHANGED <<lock, runner, watch, branch, used, runs, failures, branches>>

-----------------------------------------------------------------------------
(* Branching: BranchSession looks that no run has the session, and then      *)
(* reads it without its lock: to find the turn before a prompt, and to copy  *)
(* up to it.  A run may have started by then.                                *)

HasPrompt(items, prompt) == \E i \in 1..Len(items) : items[i] = InputItem(prompt)

BranchScan(prompt) ==
  LET state == DecodeLog(file.records) IN
  /\ branch = None /\ branches < Branches
  /\ HasPrompt(state.items, prompt)
  /\ TurnBefore(state.items, prompt) # None
  /\ branch' = [prompt |-> prompt, turn |-> TurnBefore(state.items, prompt)]
  /\ branches' = branches + 1
  /\ UNCHANGED <<file, lock, runner, preview, watch, used, runs, failures, rewinds>>

\* The copy is a session of its own, which is the one followed from here on;
\* there is none when the turn is gone.
BranchFork ==
  LET state == DecodeLog(file.records)
      there == Boundary(state.items, branch.turn) # 0
  IN /\ branch # None
     /\ IF there
        THEN /\ file' = Replaced(ForkLog(state.items, branch.turn), file.id)
             /\ lock' = None /\ write' = None /\ read' = None /\ step' = None
             /\ preview' = None
             /\ loaded' = NotLoaded
             /\ glance' = None
        ELSE UNCHANGED <<file, lock, runner, preview, watch>>
     /\ branch' = None
     /\ UNCHANGED <<used, bounds>>

-----------------------------------------------------------------------------
(* The front-end's transcript, read on from where it was *)

LastOf(records) == IF records = <<>> THEN None ELSE Last(records)

Continued_SameFile(f) == loaded.id = f.id /\ loaded.offset <= Len(f.records)

\* continued: the same file, no shorter, with the bytes before where the reading
\* stopped those that were read.
Continued(f) ==
  /\ loaded.id = f.id
  /\ loaded.offset <= Len(f.records)
  /\ loaded.offset > 0 => f.records[loaded.offset] = loaded.tail

\* The transcript with lines added, the last of them that of the file.
ReadOn(transcript, lines) ==
  [transcript EXCEPT !.lines = @ \o lines, !.offset = Len(file.records),
                     !.tail = LastOf(file.records)]

\* The file is read to its end, from where the reading stopped or from the start.
LoadBegin ==
  LET known == IF Continued(file) THEN loaded ELSE [NotLoaded EXCEPT !.id = file.id]
  IN /\ Watches /\ glance = None
     /\ glance' = [transcript |-> ReadOn(known, SubSeq(file.records, known.offset + 1,
                                                     Len(file.records))),
                   torn |-> file.torn]
     /\ UNCHANGED <<file, lock, runner, preview, loaded, branch, used, bounds>>

\* The end is where a last read finds no more (eachRecord).  A run may append in
\* between, and one that writes over a torn record the front-end has: what comes
\* then is the rest of some line, which the torn bytes make one they do not
\* belong to, and the records after it; the bytes before the end may be the
\* file's nevertheless.
LoadEnd ==
  LET so == glance.transcript
      grown == so.id = file.id /\ Len(file.records) > so.offset
      From(place) == SubSeq(file.records, place + 1, Len(file.records))
  IN /\ glance # None
     /\ \/ loaded' = so
        \/ /\ grown
           /\ loaded' = ReadOn(so, From(so.offset))
        \/ /\ grown /\ glance.torn
           /\ \E place \in so.offset + 1..Len(file.records), tail \in {None, LastOf(file.records)} :
                loaded' = [ReadOn(so, <<[type |-> "garbled"]>> \o From(place))
                             EXCEPT !.tail = tail, !.overtaken = TRUE]
     /\ glance' = None
     /\ UNCHANGED <<file, lock, runner, preview, branch, used, bounds>>

-----------------------------------------------------------------------------
StoreStep ==
  \/ \E id \in Prompts \cup Settings : AppendInput(id)
  \/ \E turn \in Turns : AppendTurn(turn) \/ AppendModelResponse(turn)
  \/ \E turn \in Turns, op \in Ops : BeginOperation(turn, op) \/ AppendToolCallStatus(turn, op)
  \/ \E op \in Ops, status \in {"awaiting", "completed"} : SaveOperationStatus(op, status)
  \/ SaveCheckpoint
  \/ Truncate
  \/ WriteRecord
  \/ Sync
  \/ AppendFails

Next ==
  \/ Start \/ Stop
  \/ \E forResume \in BOOLEAN : ReadSession(forResume)
  \/ StoreStep
  \/ \E prompt \in Prompts : Preview(prompt) \/ Rewind(prompt) \/ BranchScan(prompt)
  \/ BranchFork
  \/ LoadBegin \/ LoadEnd

Spec == Init /\ [][Next]_vars
=============================================================================
