------------------------- MODULE SessionFileChecks -------------------------
(***************************************************************************)
(* What must hold of a session's file, whatever its runs, rewinds,         *)
(* branches and readers do, and that it implements SessionLog.             *)
(***************************************************************************)
EXTENDS SessionFile

-----------------------------------------------------------------------------
(* Files as the store writes them *)

FullValues == [status : Unfinished \cup {"completed"}, state : {"full"}]

RecordedItems ==
  [kind : {"input"}, id : Prompts \cup Settings]
    \cup [kind : {"turn"}, turn : Turns, previous : Turns \cup {None}]
    \cup [kind : {"response"}, turn : Turns]
    \cup [kind : {"status"}, turn : Turns, op : Ops, value : FullValues \cup {None, Saved}]
    \cup [kind : {"fork"}, previous : Turns \cup {None}]

\* Records that are whole.
Records ==
  [type : {"item"}, seq : Nat, item : RecordedItems]
    \cup [type : {"operation"}, op : Ops, value : FullValues]
    \cup [type : {"checkpoint"}, at : Nat, head : Heads]

\* Appends in progress.
Steps ==
  [record : Records, head : Heads, size : Nat, phase : {"truncate", "write", "sync"}]

ASSUME NoneAssumption == None # "run" /\ None \notin Steps

IsStatus(record) == IsItem(record) /\ record.item.kind = "status"

\* A record that has the whole state of an operation.
Holds(record, op, value) ==
  \/ record.type = "operation" /\ record.op = op /\ record.value = value
  \/ IsStatus(record) /\ record.item.op = op /\ record.item.value = value

HeadFields == {"seq", "latest", "turns", "owned", "responded", "calls", "pending", "inputs"}

\* A head stands for that of all that n records hold: what it left in its
\* record is settled, and where it says.
Mirrors(head, whole, records, n) ==
  /\ \A field \in HeadFields : head[field] = whole[field]
  /\ DOMAIN head.ops = DOMAIN whole.ops
  /\ head.archived \subseteq DOMAIN head.ops
  /\ \A o \in DOMAIN head.ops :
       IF o \in head.archived
       THEN /\ Finished(whole.ops[o]) /\ o \notin whole.pending
            /\ head.ops[o] = [whole.ops[o] EXCEPT !.state = Bare]
       ELSE head.ops[o] = whole.ops[o]
  /\ IF head.located
     THEN \A o \in Ops :
            IF o \in DOMAIN head.ops
            THEN head.offsets[o] \in 1..n /\ Holds(records[head.offsets[o]], o, whole.ops[o])
            ELSE head.offsets[o] = 0
     ELSE head.archived = {}

\* What the store adds to a session that came this far (whole): statuses with
\* their operation, and of a call that has one only how it ended; checkpoints
\* of the session at their place.
Follows(record, whole, records, k) ==
  /\ IsStatus(record) =>
       /\ record.item.value # None
       /\ <<record.item.turn, record.item.op>> \in whole.calls =>
            /\ Finished(whole.ops[record.item.op])
            /\ record.item.value = Saved \/ Finished(record.item.value)
  /\ record.type = "checkpoint" =>
       /\ record.at = k
       /\ record.head.seq # 0 /\ record.head.located
       /\ Mirrors(record.head, whole, records, k - 1)

\* A file the store and those who rewind and branch leave: it can be read, its
\* inherited part has items only, and what follows is as the store adds it.
Legible(records) ==
  /\ records \in Seq(Records)
  /\ DecodeLog(records).ok
  /\ \A k \in 1..LastFork(records) : IsItem(records[k])
  /\ \A k \in LastFork(records) + 1..Len(records) :
       Follows(records[k], DecodeLog(SubSeq(records, 1, k - 1)).head, records, k)

\* Inputs and turns are themselves by their IDs.
SameName(a, b) ==
  \/ a.kind = "input" /\ b.kind = "input" /\ a.id = b.id
  \/ a.kind = "turn" /\ b.kind = "turn" /\ a.turn = b.turn

NamedOnce(items) == \A i, j \in 1..Len(items) : SameName(items[i], items[j]) => i = j

ASSUME HistoriesAssumption ==
  \A records \in Histories : Legible(records) /\ NamedOnce(DecodeLog(records).items)

-----------------------------------------------------------------------------
Whole == DecodeLog(file.records)

\* A head is that of the whole history; the state of a settled operation may be
\* left in its record, which then holds it.
Agrees(head, whole) ==
  /\ \A field \in {"seq", "latest", "turns", "owned", "responded", "calls", "pending", "inputs"} :
       head[field] = whole[field]
  /\ DOMAIN head.ops = DOMAIN whole.ops
  /\ \A o \in DOMAIN head.ops :
       IF o \in head.archived
       THEN LET original == file.records[head.offsets[o]] IN
            /\ Finished(whole.ops[o])
            /\ \/ original.type = "operation" /\ original.value = whole.ops[o]
               \/ IsItem(original) /\ original.item.value = whole.ops[o]
       ELSE head.ops[o] = whole.ops[o]

\* A run that resumes from a checkpoint sees what one that reads the whole
\* history does: the same operations to go on with, whole, the same prompts,
\* the items since, and a head that accepts the same items, whose settled
\* operations are in the records it names; and no checkpoint of the file is
\* quietly left for an older one (SaveCheckpoint, decodeResumeLog, restore).
ResumeIsReplay ==
  LET state == DecodeResumeLog(file.records)
      whole == Resume(Whole)
      resumed == Resume(state)
  IN /\ state.ok
     /\ Agrees(state.head, Whole.head)
     /\ resumed.ops = whole.ops
     /\ resumed.inputs = whole.inputs
     /\ resumed.items = SubSeq(whole.items, resumed.after + 1, Len(whole.items))
     /\ \A k \in 1..Len(file.records) :
          file.records[k].type = "checkpoint" => ValidCheckpoint(file.records, k)

\* What a runner appends by - the committed size and the head it checks the
\* next item with - is that of the file, after failed appends too and whoever
\* else rewinds the session: no append cuts off a committed record (append,
\* loadWriteState, LockSession).
WriteStateIsFile ==
  lock = "run" /\ step = None /\ write # None =>
    write.size = Len(file.records) /\ Agrees(write.head, Whole.head)

\* Whatever tore an append, and however the session was rewound or branched,
\* all that is committed can be read; a read is of the file as it is, and one
\* that pages the history has all of it, however the read state came about
\* (decodeLog, sharedState).
ReadsAreOfTheFile ==
  /\ Whole.ok
  /\ lock = "run" /\ step = None =>
       /\ SharedState(FALSE) = Whole
       /\ SharedState(TRUE) = DecodeResumeLog(file.records)

\* A transcript that is read on from where it was is that of the start of the
\* file, though rewinds gave the inode it was read of to another file, or runs
\* wrote over what it had read since - unless they did so while it was being
\* read (continued, eachRecord).
TranscriptIsOfTheFile ==
  Continued(file) /\ ~loaded.overtaken => IsPrefix(loaded.lines, file.records)

\* How many of the items that were are still there, when a rewind may have
\* added a mark that they are another session's.
Left(now, was) ==
  IF IsPrefix(now, was) THEN Len(now)
  ELSE IF Last(now).kind = "fork" /\ IsPrefix(Front(now), was) THEN Len(now) - 1
  ELSE -1

\* A rewound session is in a state it really was in: the one before a prompt
\* and the settings recorded for it.  It can go on from there, and takes no
\* turn of the session it was branched from for its own (RewindSession,
\* LoadSessionBefore).
RewindGoesBack ==
  [][rewinds' # rewinds =>
       LET then == DecodeLog(file'.records)
           was == Whole.items
           n == Left(then.items, was)
       IN /\ then.ok
          /\ then.head.owned \subseteq Whole.head.owned
          /\ n >= 0
          /\ \E i \in n + 1..Len(was) :
               /\ was[i].kind = "input" /\ was[i].id \in Prompts
               /\ \A j \in n + 1..i - 1 : was[j].kind = "input" /\ was[j].id \in Settings]_vars

\* A command started before the prompt keeps the outcome it reached later, so
\* that resuming the rewound session never runs it again (cutOff).
RewindKeepsOutcomes ==
  [][rewinds' # rewinds =>
       LET then == DecodeLog(file'.records).head
       IN \A o \in DOMAIN then.ops : then.ops[o] = Whole.head.ops[o]]_vars

\* A branch made before a prompt is the history through the turn before it, as
\* it is when it is copied; nothing of a turn the prompt led to goes along,
\* whatever happened to the session since the turn was found (BranchSession,
\* forkStoredState).
BranchEndsWithTheTurn ==
  [][branch # None /\ branch' = None /\ file' # file =>
       LET was == [i \in DOMAIN Whole.items |-> WithoutOperations(Whole.items[i])]
           now == DecodeLog(file'.records)
           copied == Front(now.items)
           later == {i \in DOMAIN was : /\ was[i].kind = "turn"
                                        /\ \E j \in 1..i : was[j] = InputItem(branch.prompt)}
       IN /\ now.ok
          /\ IsPrefix(copied, was)
          /\ \A i \in later : i > Len(copied)
          /\ \E i \in DOMAIN copied : OfTurn(copied[i], branch.turn)]_vars

-----------------------------------------------------------------------------
(* The file implements the log *)

\* What a record adds to the log, with its operation; a checkpoint adds
\* nothing.
EntryOf(record, head) ==
  CASE IsItem(record) -> <<[type |-> "item", item |-> Resolved(head, record.item)]>>
    [] record.type = "operation" -> <<record>>
    [] OTHER -> <<>>

\* Entries are listed next to what is read, as statuses may hold their
\* operation by ID.
Listed0 == [entries |-> <<>>, state |-> Read0]

ListRecord(sofar, record, k, inherited) ==
  [entries |-> sofar.entries \o EntryOf(record, sofar.state.head),
   state |-> DecodeRecord(sofar.state, record, k, inherited)]

Entries(records) ==
  LET inherited == LastFork(records)
      Step(sofar, k) == ListRecord(sofar, records[k], k, inherited)
  IN Over(Len(records), Listed0, Step).entries

\* The append in progress, as the log has it: no checkpoint is one.
Call ==
  IF step = None \/ step.record.type = "checkpoint" THEN None
  ELSE [entry |-> EntryOf(step.record, step.head)[1], taken |-> step.phase = "sync"]

Log == INSTANCE SessionLog WITH
         Beginnings <- {Entries(records) : records \in Histories},
         log <- Entries(file.records), call <- Call

\* That nothing is in progress is told from any append.
ASSUME CallAssumption ==
  None \notin [entry : Log!ItemEntries \cup Log!SaveEntries, taken : BOOLEAN]

\* Torn writes, failed syncs, checkpoints, caches and rewinds in a new file
\* come to atomic appends, of which one that was answered stays.
ImplementsLog == Log!Spec
=============================================================================
