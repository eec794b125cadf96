------------------------- MODULE SessionFileProofs --------------------------
(***************************************************************************)
(* What the runner appends by, what a run resumes from and what anybody    *)
(* reads is what the session's file holds, whatever tore an append and     *)
(* however the session was rewound or branched.                            *)
(*                                                                         *)
(* The first parts prove that every append and branch leaves a file that   *)
(* is legible; with them the invariant is inductive.  The last parts list  *)
(* the entries of a file, by the same inductions, and prove that to who    *)
(* uses a session the file is a log of them (SessionLog).                  *)
(***************************************************************************)
EXTENDS SessionReadingProofs

-----------------------------------------------------------------------------
(* What the runner appends *)

\* An append in progress: of a record to a file, the head to be.
Pending(base, record, head, ids) ==
  LET next == Append(base, record)
      n == Len(base)
  IN /\ base \in Seq(Records) /\ Legible(base)
     /\ record \in Records /\ ~IsFork(record)
     /\ next \in Seq(Records) /\ Legible(next)
     /\ head \in Heads
     /\ Mirroring(NoteRecord(head, record, n + 1), DecodeLog(next).head, next, n + 1)
     /\ DOMAIN DecodeLog(base).head.ops \subseteq ids
     /\ DOMAIN DecodeLog(next).head.ops \subseteq ids

\* What a legible file is read to.
LEMMA WholeIsRead ==
  ASSUME NEW records \in Seq(Records), Legible(records)
  PROVE  /\ Readable(DecodeLog(records)) /\ DecodeLog(records).ok
         /\ DecodeLog(records) \in ReadStates
         /\ DecodeLog(records).head \in Heads
         /\ Sane(DecodeLog(records).head) /\ Fresh(DecodeLog(records).head)
         /\ DecodeLog(records).items \in Seq(WholeItems)
         /\ Len(DecodeLog(records).items) = DecodeLog(records).head.seq
         /\ LastFork(records) \in Nat /\ Len(records) \in Nat /\ LastFork(records) <= Len(records)
<1> DEFINE f == LastFork(records)
           n == Len(records)
           whole == DecodeLog(records)
<1>1. f \in 0 .. n /\ n \in Nat /\ f \in Nat /\ whole = Reading(records, f, n)
  BY LegibleParts DEF Parts
<1>2. Read(records, f, n)
  <2>1. n \in 0 .. n
    BY <1>1
  <2> QED BY <2>1, ReadingIsReadable
<1> HIDE DEF f, n, whole
<1>3. f <= n
  BY <1>1
<1>4. Readable(whole) /\ Sane(whole.head)
  BY <1>1, <1>2, <1>3 DEF Read
<1> QED BY <1>1, <1>3, <1>4, ReadableParts DEF f, n, whole

\* One more record, whatever the file has.
LEMMA MorePlacesAlike ==
  ASSUME NEW head, NEW whole, NEW records \in Seq(Records), NEW record \in Records,
         Mirroring(head, whole, records, Len(records))
  PROVE  Mirroring(head, whole, Append(records, record), Len(records))
<1> DEFINE more == Append(records, record)
           n == Len(records)
<1>1. \A i \in 1 .. n : records[i] = more[i]
  BY AppendProperties
<1> HIDE DEF more, n
<1>2. Mirroring(head, whole, records, n)
  BY DEF n
<1>3. MirroredPlaces(head, whole, more, n)
  BY <1>1, <1>2, PlacesAlike DEF Mirroring
<1>4. Mirroring(head, whole, more, n)
  BY <1>2, <1>3 DEF Mirroring
<1> QED BY <1>4 DEF more, n

\* The runner appends what may follow: the save of an operation it knows,
LEMMA AppendsOperation ==
  ASSUME NEW records \in Seq(Records), Legible(records),
         NEW head, Mirroring(head, DecodeLog(records).head, records, Len(records)),
         NEW op \in DOMAIN head.ops, NEW value \in FullValues,
         NEW ids, DOMAIN DecodeLog(records).head.ops \subseteq ids
  PROVE  Pending(records, OperationRecord(op, value), SaveOperation(head, op, value), ids)
<1> DEFINE n == Len(records)
           f == LastFork(records)
           whole == DecodeLog(records)
           record == OperationRecord(op, value)
           more == Append(records, record)
           next == DecodeLog(more)
           after == SaveOperation(whole.head, op, value)
<1>1. /\ whole \in ReadStates /\ whole.ok /\ whole.head \in Heads /\ Sane(whole.head) /\ Fresh(whole.head)
      /\ f \in Nat /\ n \in Nat /\ f <= n
  BY WholeIsRead
<1>2. head \in Heads /\ DOMAIN head.ops = DOMAIN whole.head.ops /\ op \in DOMAIN whole.head.ops
  BY DEF Mirroring
<1>3. op \in Ops /\ value \in Values
  BY <1>2, OpsType, Marks
<1>4. /\ record \in Records /\ record.type = "operation" /\ record.op = op /\ record.value = value
      /\ ~IsItem(record) /\ ~IsFork(record) /\ ~IsStatus(record)
  <2>1. record = [type |-> "operation", op |-> op, value |-> value]
    BY DEF OperationRecord
  <2> HIDE DEF record
  <2>2. record \in [type : {"operation"}, op : Ops, value : FullValues]
    BY <1>3, <2>1
  <2>3. record \in Records
    BY <2>2 DEF Records
  <2> QED BY <2>1, <2>3 DEF IsItem, IsFork, IsStatus
<1> HIDE DEF record
<1>5. /\ more \in Seq(Records) /\ Len(more) = n + 1 /\ more[n + 1] = record
      /\ next = DecodeRecord(whole, record, n + 1, f)
  BY <1>4, DecodeAppend
<1>6. Mirroring(head, whole.head, more, n)
  BY <1>4, MorePlacesAlike
<1>7. SaveMirrored(head, whole.head, more, n, record)
  BY <1>2, <1>4, <1>5, <1>6, MirrorsOperation DEF CanSave
<1>l. Legible(records) /\ DOMAIN whole.head.ops \subseteq ids
  OBVIOUS
<1> HIDE DEF whole, more, next, f, n
<1>8. next = WithHead(whole, after)
  <2>1. ~(n + 1 <= f) /\ n + 1 > f
    BY <1>1
  <2>2. next = ReplayOperation(whole, record)
    BY <1>1, <1>4, <1>5, <2>1, Zenon DEF DecodeRecord
  <2>3. ReplayOperation(whole, record) = WithHead(whole, after)
    BY <1>2, <1>4, Zenon DEF ReplayOperation, WithHead, CanSave
  <2> QED BY <2>2, <2>3
<1>9. SavedTo(whole.head, after, op, value)
  BY <1>1, <1>2, <1>3, SavedOperation
<1> HIDE DEF after
<1>10. HasHead(whole, next, after)
  <2>1. after \in Heads
    BY <1>9 DEF SavedTo
  <2> QED BY <1>1, <1>8, <2>1, StateWithHead
<1>11. next.ok /\ next.head = after /\ DOMAIN after.ops = DOMAIN whole.head.ops
  BY <1>1, <1>9, <1>10 DEF HasHead, SavedTo
<1>12. Legible(more)
  <2>1. Follows(record, whole.head, records, n + 1)
    BY <1>4 DEF Follows
  <2>2. DecodeRecord(whole, record, n + 1, f).ok
    BY <1>5, <1>11
  <2> QED BY <1>4, <2>1, <2>2, LegibleAppend DEF more, n, f, whole
<1>13. Mirroring(NoteRecord(SaveOperation(head, op, value), record, n + 1), next.head, more, n + 1)
  BY <1>4, <1>7, <1>11 DEF SaveMirrored, after
<1>14. SaveOperation(head, op, value) \in Heads
  BY <1>2, <1>3, SavedOperation DEF SavedTo
<1> QED BY <1>4, <1>5, <1>11, <1>12, <1>13, <1>14, <1>l DEF Pending, more, next, n, whole, record

\* a checkpoint of its head,
LEMMA AppendsCheckpoint ==
  ASSUME NEW records \in Seq(Records), Legible(records),
         NEW head, Mirroring(head, DecodeLog(records).head, records, Len(records)),
         head.located, head.seq # 0,
         NEW ids, DOMAIN DecodeLog(records).head.ops \subseteq ids
  PROVE  Pending(records, CheckpointRecord(Len(records) + 1, CheckpointHead(head)), head, ids)
<1> DEFINE n == Len(records)
           f == LastFork(records)
           whole == DecodeLog(records)
           held == CheckpointHead(head)
           record == CheckpointRecord(n + 1, held)
           more == Append(records, record)
           next == DecodeLog(more)
<1>1. /\ whole \in ReadStates /\ whole.ok /\ whole.head \in Heads /\ Sane(whole.head) /\ Fresh(whole.head)
      /\ f \in Nat /\ n \in Nat /\ f <= n
  BY WholeIsRead
<1>2. head \in Heads
  BY DEF Mirroring
<1>3. Mirroring(held, whole.head, records, n) /\ held.located
  BY MirrorsCheckpoint
<1> HIDE DEF held
<1>4. held \in Heads /\ held.seq = head.seq /\ held.seq # 0
  <2>1. held \in Heads /\ held.seq = whole.head.seq
    BY <1>3 DEF Mirroring, Equal
  <2>2. head.seq = whole.head.seq
    BY DEF Mirroring, Equal
  <2> QED BY <2>1, <2>2
<1>5. /\ record \in Records /\ record.type = "checkpoint" /\ record.at = n + 1 /\ record.head = held
      /\ ~IsItem(record) /\ ~IsFork(record) /\ ~IsStatus(record)
  <2> DEFINE at == n + 1
  <2>1. record = [type |-> "checkpoint", at |-> at, head |-> held] /\ at \in Nat
    BY <1>1 DEF CheckpointRecord
  <2> HIDE DEF record, at
  <2>2. record \in [type : {"checkpoint"}, at : Nat, head : Heads]
    BY <1>4, <2>1
  <2>3. record \in Records
    BY <2>2 DEF Records
  <2> QED BY <2>1, <2>3 DEF IsItem, IsFork, IsStatus, at
<1> HIDE DEF record
<1>6. /\ more \in Seq(Records) /\ Len(more) = n + 1 /\ more[n + 1] = record
      /\ next = DecodeRecord(whole, record, n + 1, f)
  BY <1>5, DecodeAppend
<1>7. Mirroring(head, whole.head, more, n)
  BY <1>5, MorePlacesAlike
<1>l. Legible(records) /\ DOMAIN whole.head.ops \subseteq ids
  OBVIOUS
<1> HIDE DEF whole, more, next, f, n
<1>8. next = whole
  BY <1>1, <1>5, <1>6, Zenon DEF DecodeRecord
<1>9. NoteRecord(head, record, n + 1) = head
  BY <1>5, Zenon DEF NoteRecord
<1>10. Mirroring(head, whole.head, more, n + 1)
  <2>1. MirroredPlaces(head, whole.head, more, n + 1)
    BY <1>1, <1>7, MorePlaces DEF Mirroring
  <2>2. n + 1 \in Nat
    BY <1>1
  <2> QED BY <1>7, <2>1, <2>2 DEF Mirroring
<1>11. Legible(more)
  <2>1. Follows(record, whole.head, records, n + 1)
    <3>1. Mirrors(held, whole.head, records, n)
      BY <1>1, <1>3, <1>4, MirroringIs
    <3>2. (n + 1) - 1 = n
      BY <1>1
    <3> QED BY <1>3, <1>4, <1>5, <3>1, <3>2 DEF Follows
  <2>2. DecodeRecord(whole, record, n + 1, f).ok
    BY <1>1, <1>6, <1>8
  <2> QED BY <1>5, <2>1, <2>2, LegibleAppend DEF more, n, f, whole
<1> QED BY <1>2, <1>5, <1>6, <1>8, <1>9, <1>10, <1>11, <1>l DEF Pending, more, next, n, whole, record, held

\* An item that the head of a whole file accepts, as the store records it.
Recordable(head, whole, item) ==
  /\ item \in RecordedItems /\ item.kind # "fork" /\ Accepts(head, item)
  /\ item.kind = "status" =>
       /\ item.value # None
       /\ Resolvable(whole, item)
       /\ <<item.turn, item.op>> \in whole.calls =>
            /\ Finished(whole.ops[item.op])
            /\ item.value = Saved \/ Finished(item.value)

LEMMA AddedOps ==
  ASSUME NEW head \in Heads, NEW item \in WholeItems, item.kind = "status", item.value # None
  PROVE  DOMAIN AddItem(head, item).ops \subseteq DOMAIN head.ops \cup {item.op}
<1> DEFINE next == AddItem(head, item)
<1>1. next.ops = IF <<item.turn, item.op>> \in head.calls THEN head.ops
                 ELSE [o \in DOMAIN head.ops \cup {item.op} |->
                         IF o = item.op THEN item.value ELSE head.ops[o]]
  BY AddedStatus
<1> HIDE DEF next
<1>2. DOMAIN next.ops \subseteq DOMAIN head.ops \cup {item.op}
  BY <1>1
<1> QED BY <1>2 DEF next

\* an item its head accepts.
LEMMA AppendsItem ==
  ASSUME NEW records \in Seq(Records), Legible(records),
         NEW head, Mirroring(head, DecodeLog(records).head, records, Len(records)),
         NEW item, Recordable(head, DecodeLog(records).head, item),
         NEW ids, DOMAIN DecodeLog(records).head.ops \subseteq ids,
         item.kind = "status" => item.op \in ids
  PROVE  Pending(records, ItemRecord(head.seq + 1, item),
                 AddItem(head, Resolved(DecodeLog(records).head, item)), ids)
<1> DEFINE n == Len(records)
           f == LastFork(records)
           whole == DecodeLog(records)
           resolved == Resolved(whole.head, item)
           record == ItemRecord(head.seq + 1, item)
           more == Append(records, record)
           next == DecodeLog(more)
           after == AddItem(whole.head, resolved)
<1>1. /\ whole \in ReadStates /\ whole.ok /\ whole.head \in Heads /\ Sane(whole.head) /\ Fresh(whole.head)
      /\ f \in Nat /\ n \in Nat /\ f <= n
  BY WholeIsRead
<1>2. head \in Heads /\ Equal(head, whole.head) /\ DOMAIN head.ops = DOMAIN whole.head.ops
  BY DEF Mirroring
<1>3. head.seq = whole.head.seq /\ head.seq \in Nat
  BY <1>2, HeadParts DEF Equal
<1>4. /\ record \in Records /\ IsItem(record) /\ record.seq = whole.head.seq + 1 /\ record.item = item
      /\ ~IsFork(record) /\ (IsStatus(record) <=> item.kind = "status")
      /\ record.type # "operation" /\ record.type # "checkpoint"
  <2> DEFINE seq == head.seq + 1
  <2>1. record = [type |-> "item", seq |-> seq, item |-> item] /\ seq \in Nat
    BY <1>3 DEF ItemRecord
  <2> HIDE DEF record, seq
  <2>2. record \in [type : {"item"}, seq : Nat, item : RecordedItems]
    BY <2>1 DEF Recordable
  <2>3. record \in Records
    BY <2>2 DEF Records
  <2> QED BY <1>3, <2>1, <2>3 DEF IsItem, IsFork, IsStatus, Recordable, seq
<1> HIDE DEF record
<1>5. /\ more \in Seq(Records) /\ Len(more) = n + 1 /\ more[n + 1] = record
      /\ next = DecodeRecord(whole, record, n + 1, f)
  BY <1>4, DecodeAppend
<1>6. Mirroring(head, whole.head, more, n)
  BY <1>4, MorePlacesAlike
<1>l. Legible(records) /\ DOMAIN whole.head.ops \subseteq ids /\ Recordable(head, whole.head, item)
  OBVIOUS
<1> HIDE DEF whole, more, next, f, n
<1>7. Resolvable(whole.head, item)
  <2>1. item.kind # "status" => Resolvable(whole.head, item)
    BY DEF Resolvable
  <2> QED BY <1>l, <2>1 DEF Recordable
<1>8. /\ resolved \in WholeItems /\ resolved.kind = item.kind
      /\ item.kind # "status" => resolved = item
      /\ item.kind = "status" =>
           /\ item.op \in Ops
           /\ resolved.turn = item.turn /\ resolved.op = item.op /\ resolved.value \in FullValues
  <2>1. item \in RecordedItems /\ (item.kind = "status" => item.value # None)
    BY <1>l DEF Recordable
  <2> QED BY <1>1, <1>7, <2>1, ResolvedItem
<1> HIDE DEF resolved
<1>9. Accepts(whole.head, resolved)
  <2>1. Accepts(whole.head, item)
    BY <1>2, <1>l, AcceptsAlike DEF Recordable
  <2>2. CASE item.kind # "status"
    BY <1>8, <2>1, <2>2
  <2>3. CASE item.kind = "status"
    <3>1. item.value # None
      BY <1>l, <2>3 DEF Recordable
    <3>2. item.turn \in whole.head.owned
          /\ (<<item.turn, item.op>> \in whole.head.calls \/ item.op \notin DOMAIN whole.head.ops)
      BY <2>1, <2>3, <3>1 DEF Accepts
    <3> QED BY <1>8, <2>3, <3>2 DEF Accepts
  <2> QED BY <2>2, <2>3
<1>10. next = With(whole, after, resolved)
  <2>1. ~(n + 1 <= f) /\ n + 1 > f
    BY <1>1
  <2>2. next = ReplayItem(whole, record)
    BY <1>1, <1>4, <1>5, <2>1, Zenon DEF DecodeRecord, IsItem
  <2>3. ReplayItem(whole, record) = With(whole, after, resolved)
    BY <1>4, <1>7, <1>9, Zenon DEF ReplayItem, With, resolved
  <2> QED BY <2>2, <2>3
<1>11. after \in Heads
  <2>1. resolved.kind # "fork" /\ (resolved.kind = "status" => resolved.value # None)
    BY <1>8, <1>l, Marks DEF Recordable
  <2> QED BY <1>1, <1>8, <1>9, <2>1, AddedIsSane
<1> HIDE DEF after
<1>12. Continues(whole, next, after, resolved)
  BY <1>1, <1>8, <1>10, <1>11, StateWith
<1>13. next.ok /\ next.head = after
  BY <1>1, <1>12 DEF Continues
<1>14. Follows(record, whole.head, records, n + 1)
  BY <1>4, <1>l DEF Follows, Recordable
<1>15. Legible(more)
  <2>2. DecodeRecord(whole, record, n + 1, f).ok
    BY <1>5, <1>13
  <2> QED BY <1>4, <1>14, <2>2, LegibleAppend DEF more, n, f, whole
<1> DEFINE added == AddItem(head, resolved)
<1>16. Mirroring(NoteRecord(added, record, n + 1), after, more, n + 1) /\ added \in Heads
  <2>1. CASE item.kind # "status"
    <3>1. resolved.kind \in {"input", "turn", "response"}
      BY <1>8, <1>l, <2>1 DEF WholeItems, Recordable
    <3>2. Mirroring(added, after, more, n + 1)
      BY <1>6, <1>8, <1>9, <3>1, MirrorsItem DEF after
    <3>3. NoteRecord(added, record, n + 1) = added
      BY <1>4, <2>1, NotedNothing
    <3> HIDE DEF added
    <3> QED BY <3>2, <3>3 DEF Mirroring
  <2>2. CASE item.kind = "status"
    <3>1. Follows(record, whole.head, more, n + 1)
      BY <1>4, <1>14 DEF Follows
    <3>2. resolved = Resolved(whole.head, record.item) /\ Resolvable(whole.head, record.item) /\ IsStatus(record)
      BY <1>4, <1>7, <2>2 DEF resolved
    <3>3. Mirroring(NoteRecord(added, record, n + 1), after, more, n + 1)
      BY <1>4, <1>5, <1>6, <1>8, <1>9, <3>1, <3>2, MirrorsStatus DEF after
    <3>4. added \in Heads
      BY <1>2, <1>8, <2>2, Marks, AddedStatus
    <3> QED BY <3>3, <3>4
  <2> QED BY <2>1, <2>2
<1>17. DOMAIN after.ops \subseteq ids
  <2>1. CASE item.kind # "status"
    <3>1. resolved.kind \in {"input", "turn", "response"}
      BY <1>8, <1>l, <2>1 DEF WholeItems, Recordable
    <3>2. after.ops = whole.head.ops
      BY <1>1, <1>8, <3>1, AddedElsewhere DEF Same, after
    <3> QED BY <1>l, <3>2
  <2>2. CASE item.kind = "status"
    <3>1. resolved.kind = "status" /\ resolved.value # None
      BY <1>8, <2>2, Marks
    <3>2. DOMAIN after.ops \subseteq DOMAIN whole.head.ops \cup {resolved.op}
      BY <1>1, <1>8, <3>1, AddedOps DEF after
    <3> QED BY <1>8, <1>l, <2>2, <3>2
  <2> QED BY <2>1, <2>2
<1> HIDE DEF added
<1>18. Pending(records, record, added, ids)
  BY <1>4, <1>5, <1>13, <1>15, <1>16, <1>17, <1>l DEF Pending, more, next, n, whole
<1> QED BY <1>18 DEF record, added, resolved, whole

-----------------------------------------------------------------------------
(* Forks *)

\* A boundary of a turn is within it, and no other turn is between.
BoundaryAt(items, turn, b) ==
  /\ b \in 1 .. Len(items) /\ turn \in Turns /\ OfTurn(items[b], turn)
  /\ \E s \in 1 .. b :
       /\ items[s].kind = "turn" /\ items[s].turn = turn
       /\ \A j \in s + 1 .. b : items[j].kind # "turn"
       /\ \A j \in 1 .. s - 1 : ~(items[j].kind = "turn" /\ items[j].turn = turn)

\* Boundary finds one.
LEMMA BoundaryIs ==
  ASSUME NEW items \in Seq(WholeItems), NEW turn, Boundary(items, turn) # 0
  PROVE  BoundaryAt(items, turn, Boundary(items, turn))
<1> DEFINE n == Len(items)
           starts == {i \in 1..n : items[i].kind = "turn" /\ items[i].turn = turn}
           start == Min(starts)
           own == {i \in start..n :
                     /\ OfTurn(items[i], turn)
                     /\ \A j \in start + 1..i : items[j].kind # "turn"}
           b == Boundary(items, turn)
<1>1. n \in Nat /\ \A i \in 1 .. n : items[i] \in WholeItems
  BY LenProperties, ElementOfSeq
<1>2. starts # {} /\ b = Max(own)
  BY DEF Boundary
<1> HIDE DEF n, b
<1>3. start \in starts /\ \A k \in starts : start <= k
  BY <1>1, <1>2, FirstPlace
<1> HIDE DEF start
<1>4. start \in 1 .. n /\ items[start].kind = "turn" /\ items[start].turn = turn
  BY <1>3
<1>5. start \in own
  <2>1. start \in start .. n /\ \A j \in start + 1 .. start : FALSE
    BY <1>1, <1>4
  <2> QED BY <1>4, <2>1 DEF OfTurn
<1>6. own \in SUBSET (1 .. n)
  BY <1>1, <1>4
<1>7. b \in own
  <2> HIDE DEF own
  <2> QED BY <1>1, <1>2, <1>5, <1>6, LastPlace
<1>8. b \in start .. n /\ OfTurn(items[b], turn) /\ \A j \in start + 1..b : items[j].kind # "turn"
  BY <1>7
<1>9. b \in 1 .. n /\ start \in 1 .. b
  BY <1>1, <1>4, <1>8
<1>10. turn \in Turns
  BY <1>1, <1>4 DEF WholeItems
<1>11. ASSUME NEW j \in 1 .. start - 1 PROVE ~(items[j].kind = "turn" /\ items[j].turn = turn)
  <2>1. j \in 1 .. n /\ ~(start <= j)
    BY <1>1, <1>4
  <2>2. j \notin starts
    BY <1>3, <2>1
  <2> QED BY <2>1, <2>2
<1> HIDE DEF starts, own
<1>12. BoundaryAt(items, turn, b)
  BY <1>4, <1>8, <1>9, <1>10, <1>11 DEF BoundaryAt, n
<1> QED BY <1>12 DEF b

\* An initial log.
ForkedAt(items, turn, b, rest) ==
  /\ rest \in Seq(Records) /\ Len(rest) = b + 1
  /\ Inherits(rest, b + 1) /\ IsFork(rest[b + 1])
  /\ \A i \in 1 .. b : rest[i].item = WithoutOperations(items[i])
  /\ rest[b + 1].item = ForkItem(turn)

\* An item without its operation.
LEMMA BareItem ==
  ASSUME NEW item \in WholeItems
  PROVE  /\ WithoutOperations(item) \in RecordedItems /\ WithoutOperations(item) \in WholeItems
         /\ WithoutOperations(item).kind = item.kind
         /\ item.kind # "status" => WithoutOperations(item) = item
         /\ item.kind = "status" => /\ WithoutOperations(item).value = None
                                    /\ WithoutOperations(item).turn = item.turn
<1>1. CASE item.kind = "status"
  <2> DEFINE bare == [item EXCEPT !.value = None]
  <2>1. WithoutOperations(item) = bare
    BY <1>1 DEF WithoutOperations
  <2>2. item \in [kind : {"status"}, turn : Turns, op : Ops, value : FullValues \cup {None}]
    BY <1>1 DEF WholeItems
  <2>3. bare \in [kind : {"status"}, turn : Turns, op : Ops, value : FullValues \cup {None}]
        /\ bare.kind = "status" /\ bare.value = None /\ bare.turn = item.turn
    BY <2>2
  <2> HIDE DEF bare
  <2>4. bare \in RecordedItems /\ bare \in WholeItems
    BY <2>3 DEF RecordedItems, WholeItems
  <2> QED BY <1>1, <2>1, <2>3, <2>4
<1>2. CASE item.kind # "status"
  <2>1. WithoutOperations(item) = item
    BY <1>2 DEF WithoutOperations
  <2>2. item \in RecordedItems
    BY <1>2 DEF RecordedItems, WholeItems
  <2> QED BY <1>2, <2>1, <2>2
<1> QED BY <1>1, <1>2

LEMMA RecordOfItem ==
  ASSUME NEW seq \in Nat, NEW item \in RecordedItems
  PROVE  LET record == ItemRecord(seq, item)
         IN /\ record \in Records /\ IsItem(record) /\ record.seq = seq /\ record.item = item
            /\ IsFork(record) <=> item.kind = "fork"
<1> DEFINE record == ItemRecord(seq, item)
<1>1. record = [type |-> "item", seq |-> seq, item |-> item]
  BY DEF ItemRecord
<1> HIDE DEF record
<1>2. record \in [type : {"item"}, seq : Nat, item : RecordedItems]
  BY <1>1
<1>3. record \in Records
  BY <1>2 DEF Records
<1>4. record.type = "item" /\ record.seq = seq /\ record.item = item
  BY <1>1
<1>5. IsItem(record) /\ (IsFork(record) <=> item.kind = "fork")
  BY <1>4 DEF IsItem, IsFork
<1> QED BY <1>3, <1>4, <1>5 DEF record

\* ForkLog makes one.
LEMMA Forking ==
  ASSUME NEW items \in Seq(WholeItems), NEW turn, Boundary(items, turn) # 0
  PROVE  ForkedAt(items, turn, Boundary(items, turn), ForkLog(items, turn))
<1> DEFINE b == Boundary(items, turn)
           kept == [i \in 1..b |-> ItemRecord(i, WithoutOperations(items[i]))]
           mark == ItemRecord(b + 1, ForkItem(turn))
           rest == Append(kept, mark)
<1>1. ForkLog(items, turn) = kept \o <<mark>>
  BY DEF ForkLog
<1>2. b \in 1 .. Len(items) /\ turn \in Turns
  BY BoundaryIs DEF BoundaryAt
<1> HIDE DEF b
<1>3. Len(items) \in Nat /\ b \in Nat /\ b <= Len(items) /\ b + 1 \in Nat
  BY <1>2, LenProperties
<1>4. mark \in Records /\ IsItem(mark) /\ mark.seq = b + 1 /\ mark.item = ForkItem(turn) /\ IsFork(mark)
      /\ mark.item.kind = "fork"
  <2> DEFINE item == ForkItem(turn)
  <2>1. item \in RecordedItems /\ item.kind = "fork"
    BY <1>2 DEF RecordedItems, ForkItem
  <2> HIDE DEF item
  <2> QED BY <1>3, <2>1, RecordOfItem DEF item
<1> HIDE DEF mark
<1>5. \A i \in 1 .. b : /\ kept[i] \in Records /\ IsItem(kept[i]) /\ kept[i].seq = i
                        /\ kept[i].item = WithoutOperations(items[i])
                        /\ kept[i].item.kind = "status" => kept[i].item.value = None
  <2> SUFFICES ASSUME NEW i \in 1 .. b
               PROVE  /\ kept[i] \in Records /\ IsItem(kept[i]) /\ kept[i].seq = i
                      /\ kept[i].item = WithoutOperations(items[i])
                      /\ kept[i].item.kind = "status" => kept[i].item.value = None
    OBVIOUS
  <2> DEFINE item == WithoutOperations(items[i])
  <2>1. i \in 1 .. Len(items) /\ i \in Nat
    BY <1>3
  <2>2. items[i] \in WholeItems
    BY <2>1, ElementOfSeq
  <2>3. item \in RecordedItems /\ (item.kind = "status" => item.value = None)
    BY <2>2, BareItem
  <2>4. kept[i] = ItemRecord(i, item)
    OBVIOUS
  <2> HIDE DEF kept, item
  <2>5. kept[i] \in Records /\ IsItem(kept[i]) /\ kept[i].seq = i /\ kept[i].item = item
    BY <2>1, <2>3, <2>4, RecordOfItem
  <2> QED BY <2>3, <2>5 DEF item
<1>6. kept \in Seq(Records) /\ Len(kept) = b
  <2>1. kept \in [1 .. b -> Records]
    <3>1. \A i \in 1 .. b : kept[i] \in Records
      BY <1>5
    <3>2. kept = [i \in 1 .. b |-> kept[i]]
      OBVIOUS
    <3> HIDE DEF kept
    <3> QED BY <3>1, <3>2
  <2> HIDE DEF kept
  <2>2. kept \in Seq(Records)
    BY <1>3, <2>1, SeqDef
  <2>3. DOMAIN kept = 1 .. b /\ DOMAIN kept = 1 .. Len(kept) /\ Len(kept) \in Nat
    BY <2>1, <2>2, LenProperties
  <2> QED BY <1>3, <2>2, <2>3
<1> HIDE DEF kept
<1>7. rest = kept \o <<mark>>
  BY <1>4, <1>6, AppendIsConcat
<1>8. rest \in Seq(Records) /\ Len(rest) = b + 1 /\ rest[b + 1] = mark
      /\ \A i \in 1 .. b : rest[i] = kept[i]
  BY <1>4, <1>6, AppendProperties
<1> HIDE DEF rest
<1>9. Inherits(rest, b + 1)
  <2> SUFFICES ASSUME NEW m \in 1 .. b + 1
               PROVE  /\ IsItem(rest[m]) /\ rest[m].seq = m
                      /\ (rest[m].item.kind = "status" => rest[m].item.value = None)
    BY DEF Inherits
  <2>1. m = b + 1 \/ m \in 1 .. b
    BY <1>3
  <2>2. CASE m = b + 1
    BY <1>4, <1>8, <2>2
  <2>3. CASE m \in 1 .. b
    BY <1>5, <1>8, <2>3
  <2> QED BY <2>1, <2>2, <2>3
<1>10. ForkedAt(items, turn, b, rest)
  BY <1>4, <1>5, <1>8, <1>9 DEF ForkedAt
<1> QED BY <1>1, <1>7, <1>10 DEF b

\* A branch: its records can be read, and are those up to the turn, without
\* their operations.
Branched(items, turn, b, rest) ==
  LET then == DecodeLog(rest)
  IN /\ rest \in Seq(Records) /\ Legible(rest) /\ then.ok
     /\ then.head.ops = <<>>
     /\ then.items \in Seq(WholeItems) /\ Len(then.items) = b + 1
     /\ \A i \in 1 .. b : then.items[i] = WithoutOperations(items[i])
     /\ then.items[b + 1] = ForkItem(turn)

LEMMA Branching ==
  ASSUME NEW items \in Seq(WholeItems), NEW turn, Boundary(items, turn) # 0
  PROVE  Branched(items, turn, Boundary(items, turn), ForkLog(items, turn))
<1> DEFINE b == Boundary(items, turn)
           rest == ForkLog(items, turn)
           then == DecodeLog(rest)
<1>1. ForkedAt(items, turn, b, rest)
  BY Forking
<1>2. b \in Nat
  <2>1. b \in 1 .. Len(items)
    BY BoundaryIs DEF BoundaryAt
  <2> HIDE DEF b
  <2> QED BY <2>1, LenProperties
<1> HIDE DEF b, rest
<1>3. /\ rest \in Seq(Records) /\ Len(rest) = b + 1
      /\ Inherits(rest, Len(rest)) /\ IsFork(rest[Len(rest)])
      /\ \A i \in 1 .. b : rest[i].item = WithoutOperations(items[i])
      /\ rest[b + 1].item = ForkItem(turn)
  BY <1>1 DEF ForkedAt
<1>4. /\ Legible(rest) /\ then.ok /\ then.head.ops = <<>>
      /\ then.items \in Seq(WholeItems) /\ Len(then.items) = Len(rest)
      /\ \A i \in 1 .. Len(rest) : then.items[i] = rest[i].item
  BY <1>3, InheritedIsRead
<1> HIDE DEF then
<1>5. (\A i \in 1 .. b : i \in 1 .. Len(rest)) /\ b + 1 \in 1 .. Len(rest)
  BY <1>2, <1>3
<1>6. Branched(items, turn, b, rest)
  BY <1>3, <1>4, <1>5 DEF Branched, then
<1> QED BY <1>6 DEF b, rest

-----------------------------------------------------------------------------
(* The invariant *)

Files == [records : Seq(Records), torn : BOOLEAN, id : Inodes, mtime : Nat]

\* The file can be read, and its operations are of those that were used.
FileRight(f, ids) ==
  /\ f \in Files
  /\ Legible(f.records)
  /\ DOMAIN DecodeLog(f.records).head.ops \subseteq ids

\* An append is of a record that follows what is there, and then is there.
StepRight(s, f, l, ids) ==
  s # None =>
    /\ l = "run" /\ s \in Steps
    /\ s.phase # "truncate" => ~f.torn
    /\ s.phase # "sync" => /\ Len(f.records) = s.size
                           /\ Pending(f.records, s.record, s.head, ids)
    /\ s.phase = "sync" => /\ Len(Front(f.records)) = s.size
                           /\ f.records = Append(Front(f.records), s.record)
                           /\ Pending(Front(f.records), s.record, s.head, ids)

\* What the runner knows of the file, when it is not appending, is so.
WriteRight(w, s, f, l) ==
  w # None =>
    /\ l = "run"
    /\ s = None => /\ w.size = Len(f.records)
                   /\ Mirroring(w.head, DecodeLog(f.records).head, f.records, Len(f.records))

\* What the runner read is of the file as it is.
ReadRight(r, s, f, l) ==
  r # None =>
    /\ l = "run" /\ s = None
    /\ r.state = IF r.forResume THEN DecodeResumeLog(f.records) ELSE DecodeLog(f.records)

\* A cut that was shown is of this file unless the file has changed since.
PreviewRight(p, f) ==
  p # None => p.version.mtime # f.mtime \/ p.cut = CutLog(f.records, p.prompt)

FileInv ==
  /\ FileRight(file, used)
  /\ StepRight(step, file, lock, used)
  /\ WriteRight(write, step, file, lock)
  /\ ReadRight(read, step, file, lock)
  /\ PreviewRight(preview, file)

\* A modification time nobody has seen: there are more times than readers.
LEMMA NowIsNew ==
  /\ Now \in Nat /\ Now # file.mtime
  /\ preview # None => Now # preview.version.mtime
<1> DEFINE x == read.version.mtime
           y == preview.version.mtime
           z == file.mtime
           R == {v.version.mtime : v \in {read, preview} \ {None}}
<1>1. R \subseteq {x, y} /\ (preview # None => y \in R)
  OBVIOUS
<1> HIDE DEF x, y, z
<1>2. \E m \in 0..3 : m # x /\ m # y /\ m # z
  <2>1. 0 \in 0..3 /\ 1 \in 0..3 /\ 2 \in 0..3 /\ 3 \in 0..3
    OBVIOUS
  <2>2. (0 # x /\ 0 # y /\ 0 # z) \/ (1 # x /\ 1 # y /\ 1 # z)
        \/ (2 # x /\ 2 # y /\ 2 # z) \/ (3 # x /\ 3 # y /\ 3 # z)
    OBVIOUS
  <2> QED BY <2>1, <2>2
<1> HIDE DEF R
<1>3. \E m \in 0..3 : m \notin R \cup {z}
  BY <1>1, <1>2
<1>4. Now = CHOOSE m \in 0..3 : m \notin R \cup {z}
  BY DEF Now, R, z
<1>5. Now \in 0..3 /\ Now \notin R \cup {z}
  BY <1>3, <1>4, Zenon
<1>6. Now \in Nat
  BY <1>5
<1> QED BY <1>1, <1>5, <1>6 DEF y, z

\* What is read is what is there.
LEMMA SharedIsRead ==
  ASSUME FileInv, NEW forResume \in BOOLEAN
  PROVE  SharedState(forResume) = IF forResume THEN DecodeResumeLog(file.records)
                                  ELSE DecodeLog(file.records)
<1>0. file.records \in Seq(Records) /\ Legible(file.records)
  BY DEF FileInv, FileRight, Files
<1> DEFINE whole == DecodeLog(file.records)
           resumed == DecodeResumeLog(file.records)
<1>1. resumed.after = 0 => resumed = whole
  BY <1>0, Resuming DEF Resumed
<1> HIDE DEF whole, resumed
<1>2. CASE Reusable(forResume)
  <2>1. read # None /\ (IF forResume THEN read.forResume ELSE read.state.after = 0)
    BY <1>2 DEF Reusable
  <2>2. read.state = IF read.forResume THEN resumed ELSE whole
    BY <2>1 DEF FileInv, ReadRight, resumed, whole
  <2>3. SharedState(forResume) = read.state
    BY <1>2 DEF SharedState
  <2>4. CASE forResume
    BY <2>1, <2>2, <2>3, <2>4 DEF resumed
  <2>5. CASE ~forResume
    <3>1. read.state.after = 0
      BY <2>1, <2>5
    <3>2. read.state = whole
      <4>1. CASE read.forResume
        BY <1>1, <2>2, <3>1, <4>1
      <4>2. CASE ~read.forResume
        BY <2>2, <4>2
      <4> QED BY <4>1, <4>2
    <3> QED BY <2>3, <2>5, <3>2 DEF whole
  <2> QED BY <2>4, <2>5
<1>3. CASE ~Reusable(forResume)
  BY <1>3 DEF SharedState
<1> QED BY <1>2, <1>3

\* What the runner appends by is of the file.
LEMMA WriteStateIsRight ==
  ASSUME FileInv, step = None
  PROVE  /\ file.records \in Seq(Records) /\ Legible(file.records)
         /\ WriteState.size = Len(file.records)
         /\ Mirroring(WriteState.head, DecodeLog(file.records).head, file.records, Len(file.records))
<1>0. file.records \in Seq(Records) /\ Legible(file.records)
  BY DEF FileInv, FileRight, Files
<1>1. CASE write # None
  BY <1>0, <1>1 DEF FileInv, WriteRight, WriteState
<1>2. CASE write = None
  <2>1. SharedState(TRUE) = DecodeResumeLog(file.records)
    BY SharedIsRead
  <2>2. Mirroring(DecodeResumeLog(file.records).head, DecodeLog(file.records).head, file.records,
                  Len(file.records))
    BY <1>0, Resuming DEF Resumed
  <2>3. WriteState = [head |-> SharedState(TRUE).head, size |-> Len(file.records)]
    BY <1>2 DEF WriteState
  <2> QED BY <1>0, <2>1, <2>2, <2>3
<1> QED BY <1>1, <1>2

-----------------------------------------------------------------------------
(* It holds of a session that is first looked at *)

\* The operations of a file are among the IDs it names.
LEMMA UsedAtFirst ==
  ASSUME NEW records \in Seq(Records), Legible(records)
  PROVE  DOMAIN DecodeLog(records).head.ops \subseteq IDs(records)
<1> DEFINE n == Len(records)
           f == LastFork(records)
           head == DecodeLog(records).head
<1>1. n \in Nat /\ DecodeLog(records) = Reading(records, f, n)
  BY LegibleParts DEF Parts
<1>2. FoundIn(records, head.ops, n)
  <2>1. n \in 0 .. n
    BY <1>1
  <2> QED BY <1>1, <2>1, FoundInFile
<1>3. DOMAIN head.ops \subseteq Ops
  BY WholeIsRead, OpsType
<1> HIDE DEF head, n
<1>4. ASSUME NEW o \in DOMAIN head.ops PROVE o \in IDs(records)
  <2>1. PICK k \in 1 .. n : IsStatus(records[k]) /\ records[k].item.op = o
    BY <1>2, <1>3, <1>4 DEF FoundIn
  <2>2. k \in {j \in 1..Len(records) : IsItem(records[j])} /\ records[k].item.kind = "status"
    BY <2>1 DEF IsStatus, n
  <2> DEFINE item == records[k].item
             ids == CASE item.kind = "input" -> {item.id}
                      [] item.kind = "turn" -> {item.turn}
                      [] item.kind = "response" -> {Answer(item.turn)}
                      [] item.kind = "status" -> {item.op}
                      [] OTHER -> {}
  <2>3. ids = {o}
    BY <2>1, <2>2
  <2> QED BY <2>2, <2>3 DEF IDs
<1> QED BY <1>4 DEF head

\* Init establishes the invariant.
LEMMA FileInvInit == Init => FileInv
<1> SUFFICES ASSUME Init PROVE FileInv
  OBVIOUS
<1>1. PICK id \in Inodes, records \in Histories :
        /\ file = [records |-> records, torn |-> FALSE, id |-> id, mtime |-> 0]
        /\ used = IDs(records)
  BY DEF Init
<1>2. records \in Seq(Records) /\ Legible(records)
  BY HistoriesAssumption DEF Legible
<1>3. DOMAIN DecodeLog(records).head.ops \subseteq used
  BY <1>1, <1>2, UsedAtFirst
<1>4. file \in Files /\ file.records = records
  BY <1>1, <1>2 DEF Files
<1>5. FileRight(file, used)
  BY <1>2, <1>3, <1>4 DEF FileRight
<1>6. step = None /\ write = None /\ read = None /\ preview = None
  BY DEF Init
<1> QED BY <1>5, <1>6 DEF FileInv, StepRight, WriteRight, ReadRight, PreviewRight

-----------------------------------------------------------------------------
(* Every step keeps it *)

\* The file when an append tore, and when its records are others.
Torn(f, t, m) == [f EXCEPT !.torn = t, !.mtime = m]
WithRecords(f, r, t, m) == [f EXCEPT !.records = r, !.torn = t, !.mtime = m]

LEMMA FileTorn ==
  ASSUME NEW f \in Files, NEW t \in BOOLEAN, NEW m \in Nat, NEW g, g = Torn(f, t, m)
  PROVE  g \in Files /\ g.records = f.records /\ g.mtime = m /\ g.torn = t
<1>1. g = [f EXCEPT !.torn = t, !.mtime = m]
  BY DEF Torn
<1> QED BY <1>1 DEF Files

LEMMA FileWithRecords ==
  ASSUME NEW f \in Files, NEW r \in Seq(Records), NEW t \in BOOLEAN, NEW m \in Nat,
         NEW g, g = WithRecords(f, r, t, m)
  PROVE  g \in Files /\ g.records = r /\ g.mtime = m /\ g.torn = t
<1>1. g = [f EXCEPT !.records = r, !.torn = t, !.mtime = m]
  BY DEF WithRecords
<1> QED BY <1>1 DEF Files

\* A file that was changed is none that was seen.
LEMMA Unseen ==
  ASSUME PreviewRight(preview, file), NEW f, f.mtime = Now
  PROVE  PreviewRight(preview, f)
BY NowIsNew DEF PreviewRight

\* Start changes nothing of it.
LEMMA FileInvStart ==
  ASSUME FileInv, Start
  PROVE  FileInv'
<1>1. /\ lock' = "run" /\ file' = file /\ used' = used /\ write' = write /\ read' = read /\ step' = step
      /\ preview' = preview
  BY DEF Start, runner
<1>2. /\ FileRight(file, used) /\ StepRight(step, file, "run", used)
      /\ WriteRight(write, step, file, "run") /\ ReadRight(read, step, file, "run")
      /\ PreviewRight(preview, file)
  BY DEF FileInv, StepRight, WriteRight, ReadRight
<1> QED BY <1>1, <1>2 DEF FileInv

\* What a crash leaves of the file: its records, or those without the one that was not synced.
LEMMA StopsWith ==
  ASSUME FileInv, Stop
  PROVE  /\ file' \in Files /\ PreviewRight(preview, file')
         /\ \/ file'.records = file.records
            \/ step # None /\ step.phase = "sync" /\ file'.records = Front(file.records)
<1>1. file \in Files /\ PreviewRight(preview, file)
  BY DEF FileInv, FileRight
<1>2. Now \in Nat
  BY NowIsNew
<1>3. CASE file' = file
  BY <1>1, <1>3
<1>4. CASE step # None /\ step.phase = "write" /\ file' = [file EXCEPT !.torn = TRUE, !.mtime = Now]
  <2>1. file' = Torn(file, TRUE, Now)
    BY <1>4 DEF Torn
  <2>2. file' \in Files /\ file'.records = file.records /\ file'.mtime = Now
    BY <1>1, <1>2, <2>1, FileTorn
  <2> QED BY <1>1, <2>2, Unseen
<1>5. ASSUME step # None, step.phase = "sync", NEW torn \in BOOLEAN,
             file' = [file EXCEPT !.records = Front(@), !.torn = torn, !.mtime = Now]
      PROVE  file' \in Files /\ PreviewRight(preview, file') /\ file'.records = Front(file.records)
  <2>1. Pending(Front(file.records), step.record, step.head, used)
    BY <1>5 DEF FileInv, StepRight
  <2> DEFINE r == Front(file.records)
  <2>2. r \in Seq(Records)
    BY <2>1 DEF Pending
  <2>3. file' = WithRecords(file, r, torn, Now)
    BY <1>5 DEF WithRecords
  <2> HIDE DEF r
  <2>4. file' \in Files /\ file'.records = r /\ file'.mtime = Now
    BY <1>1, <1>2, <2>2, <2>3, FileWithRecords
  <2> QED BY <1>1, <2>4, Unseen DEF r
<1> QED BY <1>3, <1>4, <1>5 DEF Stop

\* Whatever the crash left: all the records, a torn one, or those before the one that was not synced.
LEMMA FileInvStop ==
  ASSUME FileInv, Stop
  PROVE  FileInv'
<1>1. /\ write' = None /\ read' = None /\ step' = None /\ used' = used
      /\ preview' = preview \/ preview' = None
  BY DEF Stop
<1>2. FileRight(file, used)
  BY DEF FileInv
<1>3. /\ file' \in Files /\ PreviewRight(preview, file')
      /\ \/ file'.records = file.records
         \/ step # None /\ step.phase = "sync" /\ file'.records = Front(file.records)
  BY StopsWith
<1>4. FileRight(file', used)
  <2>1. CASE file'.records = file.records
    BY <1>2, <1>3, <2>1 DEF FileRight
  <2>2. CASE step # None /\ step.phase = "sync" /\ file'.records = Front(file.records)
    <3>1. Pending(Front(file.records), step.record, step.head, used)
      BY <2>2 DEF FileInv, StepRight
    <3> QED BY <1>3, <2>2, <3>1 DEF FileRight, Pending
  <2> QED BY <1>3, <2>1, <2>2
<1>5. PreviewRight(preview', file')
  BY <1>1, <1>3 DEF PreviewRight
<1> QED BY <1>1, <1>4, <1>5 DEF FileInv, StepRight, WriteRight, ReadRight

\* What is read is of the file as it is.
LEMMA FileInvReadSession ==
  ASSUME FileInv, NEW forResume \in BOOLEAN, ReadSession(forResume)
  PROVE  FileInv'
<1>1. /\ lock = "run" /\ step = None /\ read' = ReadState(forResume)
      /\ file' = file /\ lock' = lock /\ write' = write /\ step' = step /\ preview' = preview
      /\ used' = used
  BY DEF ReadSession
<1> DEFINE shared == SharedState(forResume)
           version == Version(file)
<1>2. shared = IF forResume THEN DecodeResumeLog(file.records) ELSE DecodeLog(file.records)
  BY SharedIsRead
<1>3. read' = [version |-> version, forResume |-> forResume, state |-> shared]
  BY <1>1 DEF ReadState
<1> HIDE DEF shared, version
<1>4. read'.forResume = forResume /\ read'.state = shared
  BY <1>3
<1>5. ReadRight(read', step, file, lock)
  BY <1>1, <1>2, <1>4 DEF ReadRight
<1> QED BY <1>1, <1>5 DEF FileInv

\* The start of an append.
LEMMA FileInvAppend ==
  ASSUME FileInv, NEW record, NEW head, BeginAppend(record, head),
         NEW ids, used \subseteq ids, used' = ids, Pending(file.records, record, head, ids)
  PROVE  FileInv'
<1>1. /\ lock = "run" /\ step = None /\ write' = WriteState /\ read' = None
      /\ file' = file /\ lock' = lock /\ preview' = preview
  BY DEF BeginAppend
<1> DEFINE size == WriteState.size
<1>2. step' = [record |-> record, head |-> head, size |-> size, phase |-> "truncate"]
  BY DEF BeginAppend
<1>3. size = Len(file.records) /\ size \in Nat
  <2>1. file.records \in Seq(Records) /\ size = Len(file.records)
    BY <1>1, WriteStateIsRight
  <2> HIDE DEF size
  <2> QED BY <2>1, LenProperties
<1>4. record \in Records /\ head \in Heads
  BY DEF Pending
<1> HIDE DEF size
<1>5. step' \in Steps /\ step'.record = record /\ step'.head = head /\ step'.size = size
      /\ step'.phase = "truncate"
  BY <1>2, <1>3, <1>4 DEF Steps
<1>6. StepRight(step', file, lock, ids)
  BY <1>1, <1>3, <1>5 DEF StepRight
<1>7. WriteRight(write', step', file, lock)
  BY <1>1, <1>5, NoneAssumption DEF WriteRight
<1>8. FileRight(file, ids)
  BY DEF FileInv, FileRight
<1> QED BY <1>1, <1>6, <1>7, <1>8 DEF FileInv, ReadRight

\* No record is cut off.
LEMMA TruncatesNothing ==
  ASSUME FileInv, Truncate
  PROVE  /\ file' \in Files /\ file'.records = file.records /\ ~file'.torn
         /\ PreviewRight(preview, file')
<1>1. step # None /\ step.phase = "truncate"
  BY DEF Truncate
<1>2. Len(file.records) = step.size
  BY <1>1 DEF FileInv, StepRight
<1>3. file \in Files /\ PreviewRight(preview, file) /\ file.records \in Seq(Records)
  BY DEF FileInv, FileRight, Files
<1>4. UpTo(file, step.size) = file.records
  <2>1. Len(file.records) \in Nat
    BY <1>3, LenProperties
  <2>2. Min({step.size, Len(file.records)}) = Len(file.records)
    <3> DEFINE n == Len(file.records)
    <3>1. {step.size, n} = {n} /\ n \in Nat
      BY <1>2, <2>1
    <3> HIDE DEF n
    <3>2. Min({n}) = n
      BY <3>1 DEF Min
    <3> QED BY <3>1, <3>2 DEF n
  <2> QED BY <1>3, <2>2, AllOfIt DEF UpTo
<1>5. /\ file' \in Files /\ file'.records = file.records /\ ~file'.torn
      /\ PreviewRight(preview, file')
  <2>1. CASE Len(file.records) > step.size \/ file.torn
    <3> DEFINE r == UpTo(file, step.size)
           whole == FALSE
    <3>1. file' = WithRecords(file, r, whole, Now)
      <4>1. file' = Changed([file EXCEPT !.records = r, !.torn = FALSE])
        BY <2>1 DEF Truncate
      <4>2. Changed([file EXCEPT !.records = r, !.torn = FALSE])
              = [[file EXCEPT !.records = r, !.torn = FALSE] EXCEPT !.mtime = Now]
        BY DEF Changed
      <4> HIDE DEF r
      <4>3. [[file EXCEPT !.records = r, !.torn = FALSE] EXCEPT !.mtime = Now]
              = [file EXCEPT !.records = r, !.torn = FALSE, !.mtime = Now]
        BY <1>3 DEF Files
      <4> QED BY <4>1, <4>2, <4>3 DEF WithRecords
    <3>2. r \in Seq(Records) /\ r = file.records
      BY <1>3, <1>4
    <3>4. whole \in BOOLEAN /\ ~whole
      OBVIOUS
    <3> HIDE DEF r, whole
    <3>0. Now \in Nat
      BY NowIsNew
    <3>3. file' \in Files /\ file'.records = r /\ file'.torn = whole /\ file'.mtime = Now
      BY <1>3, <3>1, <3>2, <3>0, <3>4, FileWithRecords
    <3> QED BY <1>3, <3>2, <3>3, <3>4, Unseen
  <2>2. CASE ~(Len(file.records) > step.size \/ file.torn)
    <3>1. file' = file
      BY <2>2 DEF Truncate
    <3> QED BY <1>3, <2>2, <3>1
  <2> QED BY <2>1, <2>2
<1> QED BY <1>5

\* The committed size is that of the records: only what was torn is cut off.
LEMMA FileInvTruncate ==
  ASSUME FileInv, Truncate
  PROVE  FileInv'
<1>1. /\ step # None /\ step.phase = "truncate" /\ step' = [step EXCEPT !.phase = "write"]
      /\ lock' = lock /\ write' = write /\ read' = read /\ preview' = preview /\ used' = used
  BY DEF Truncate
<1>2. /\ lock = "run" /\ step \in Steps /\ Len(file.records) = step.size
      /\ Pending(file.records, step.record, step.head, used)
  BY <1>1 DEF FileInv, StepRight
<1>3. file \in Files /\ FileRight(file, used) /\ PreviewRight(preview, file)
      /\ file.records \in Seq(Records)
  BY DEF FileInv, FileRight, Files
<1>4. read = None
  BY <1>1 DEF FileInv, ReadRight
<1>5. step' \in Steps /\ step'.record = step.record /\ step'.head = step.head /\ step'.size = step.size
      /\ step'.phase = "write"
  BY <1>1, <1>2 DEF Steps
<1>6. /\ file' \in Files /\ file'.records = file.records /\ ~file'.torn
      /\ PreviewRight(preview, file')
  BY TruncatesNothing
<1>7. FileRight(file', used)
  BY <1>3, <1>6 DEF FileRight
<1>8. StepRight(step', file', lock, used)
  BY <1>2, <1>5, <1>6 DEF StepRight
<1>9. WriteRight(write, step', file', lock) /\ ReadRight(read, step', file', lock)
  BY <1>2, <1>4, <1>5, NoneAssumption DEF WriteRight, ReadRight
<1> QED BY <1>1, <1>6, <1>7, <1>8, <1>9 DEF FileInv

\* A record is written behind the committed ones.
LEMMA WritesTheRecord ==
  ASSUME FileInv, WriteRecord
  PROVE  /\ file' \in Files /\ file'.records = Append(file.records, step.record)
         /\ ~file'.torn /\ file'.mtime = Now
<1>1. step # None /\ step.phase = "write"
  BY DEF WriteRecord
<1>2. ~file.torn /\ Pending(file.records, step.record, step.head, used)
  BY <1>1 DEF FileInv, StepRight
<1>3. file \in Files
  BY DEF FileInv, FileRight
<1> DEFINE r == Append(file.records, step.record)
           whole == FALSE
<1>4. r \in Seq(Records)
  BY <1>2 DEF Pending
<1>5. file' = WithRecords(file, r, whole, Now)
  <2>1. file' = Changed([file EXCEPT !.records = Append(@, step.record), !.torn = FALSE])
    BY <1>2 DEF WriteRecord
  <2>2. [file EXCEPT !.records = Append(@, step.record), !.torn = FALSE]
          = [file EXCEPT !.records = r, !.torn = FALSE]
    OBVIOUS
  <2>3. Changed([file EXCEPT !.records = r, !.torn = FALSE])
          = [[file EXCEPT !.records = r, !.torn = FALSE] EXCEPT !.mtime = Now]
    BY DEF Changed
  <2> HIDE DEF r
  <2>4. [[file EXCEPT !.records = r, !.torn = FALSE] EXCEPT !.mtime = Now]
          = [file EXCEPT !.records = r, !.torn = FALSE, !.mtime = Now]
    BY <1>3 DEF Files
  <2> QED BY <2>1, <2>2, <2>3, <2>4 DEF WithRecords
<1>t. whole \in BOOLEAN /\ ~whole
  OBVIOUS
<1> HIDE DEF r, whole
<1>0. Now \in Nat
  BY NowIsNew
<1>6. file' \in Files /\ file'.records = r /\ file'.torn = whole /\ file'.mtime = Now
  BY <1>3, <1>4, <1>5, <1>0, <1>t, FileWithRecords
<1> QED BY <1>6, <1>t DEF r

\* The file has no torn record by then, so none is garbled.
LEMMA FileInvWriteRecord ==
  ASSUME FileInv, WriteRecord
  PROVE  FileInv'
<1>1. /\ step # None /\ step.phase = "write" /\ step' = [step EXCEPT !.phase = "sync"]
      /\ lock' = lock /\ write' = write /\ read' = read /\ preview' = preview /\ used' = used
  BY DEF WriteRecord
<1>2. /\ lock = "run" /\ step \in Steps /\ Len(file.records) = step.size /\ ~file.torn
      /\ Pending(file.records, step.record, step.head, used)
  BY <1>1 DEF FileInv, StepRight
<1>3. file \in Files /\ FileRight(file, used) /\ PreviewRight(preview, file)
      /\ file.records \in Seq(Records)
  BY DEF FileInv, FileRight, Files
<1>4. read = None
  BY <1>1 DEF FileInv, ReadRight
<1>5. step' \in Steps /\ step'.record = step.record /\ step'.head = step.head /\ step'.size = step.size
      /\ step'.phase = "sync"
  BY <1>1, <1>2 DEF Steps
<1> DEFINE r == Append(file.records, step.record)
<1>6. r \in Seq(Records) /\ Legible(r) /\ DOMAIN DecodeLog(r).head.ops \subseteq used
      /\ step.record \in Records /\ ~IsFork(step.record)
  BY <1>2 DEF Pending
<1>7. Front(r) = file.records
  BY <1>3, <1>6, DecodeAppend
<1>8. file' \in Files /\ file'.records = r /\ ~file'.torn /\ file'.mtime = Now
  BY WritesTheRecord
<1> HIDE DEF r
<1>9. FileRight(file', used) /\ PreviewRight(preview, file')
  BY <1>3, <1>6, <1>8, Unseen DEF FileRight
<1>10. StepRight(step', file', lock, used)
  BY <1>2, <1>5, <1>7, <1>8 DEF StepRight, r
<1>11. WriteRight(write, step', file', lock) /\ ReadRight(read, step', file', lock)
  BY <1>2, <1>4, <1>5, NoneAssumption DEF WriteRight, ReadRight
<1> QED BY <1>1, <1>9, <1>10, <1>11 DEF FileInv

\* The head that was to be is now that of the file.
LEMMA FileInvSync ==
  ASSUME FileInv, Sync
  PROVE  FileInv'
<1>1. /\ step # None /\ step.phase = "sync" /\ step' = None
      /\ file' = file /\ lock' = lock /\ read' = read /\ preview' = preview /\ used' = used
  BY DEF Sync
<1> DEFINE base == Front(file.records)
           head == NoteRecord(step.head, step.record, step.size + 1)
           size == step.size + 1
<1>2. /\ lock = "run" /\ step \in Steps /\ Len(base) = step.size
      /\ file.records = Append(base, step.record)
      /\ Pending(base, step.record, step.head, used)
  BY <1>1 DEF FileInv, StepRight
<1>3. write' = [head |-> head, size |-> size]
  BY DEF Sync
<1>4. Mirroring(head, DecodeLog(file.records).head, file.records, Len(base) + 1)
      /\ base \in Seq(Records) /\ step.record \in Records
  BY <1>2 DEF Pending
<1> HIDE DEF base, head
<1>5. Len(file.records) = Len(base) + 1
  BY <1>2, <1>4, AppendProperties
<1>6. read = None
  BY <1>1 DEF FileInv, ReadRight
<1>s. size = Len(file.records)
  BY <1>2, <1>5
<1> HIDE DEF size
<1>7. write'.head = head /\ write'.size = size
  BY <1>3
<1>8. WriteRight(write', None, file, lock)
  BY <1>2, <1>4, <1>5, <1>7, <1>s DEF WriteRight
<1> QED BY <1>1, <1>6, <1>8 DEF FileInv, StepRight, ReadRight

\* A failed append leaves no record.
LEMMA FailsWithout ==
  ASSUME FileInv, AppendFails
  PROVE  file' \in Files /\ file'.records = file.records /\ PreviewRight(preview, file')
<1>1. file \in Files /\ PreviewRight(preview, file)
  BY DEF FileInv, FileRight
<1>2. file' \in Files /\ file'.records = file.records /\ PreviewRight(preview, file')
  <2>1. CASE file' = file
    BY <1>1, <2>1
  <2>2. CASE file' = Changed([file EXCEPT !.torn = TRUE])
    <3>1. file' = Torn(file, TRUE, Now)
      <4>1. Changed([file EXCEPT !.torn = TRUE]) = [[file EXCEPT !.torn = TRUE] EXCEPT !.mtime = Now]
        BY DEF Changed
      <4>2. [[file EXCEPT !.torn = TRUE] EXCEPT !.mtime = Now]
              = [file EXCEPT !.torn = TRUE, !.mtime = Now]
        BY <1>1 DEF Files
      <4> QED BY <2>2, <4>1, <4>2 DEF Torn
    <3>2. Now \in Nat
      BY NowIsNew
    <3>3. file' \in Files /\ file'.records = file.records /\ file'.mtime = Now
      BY <1>1, <3>1, <3>2, FileTorn
    <3> QED BY <1>1, <3>3, Unseen
  <2> QED BY <2>1, <2>2 DEF AppendFails
<1> QED BY <1>2

\* What was written in part is forgotten with the write state.
LEMMA FileInvAppendFails ==
  ASSUME FileInv, AppendFails
  PROVE  FileInv'
<1>1. /\ step # None /\ step' = None /\ write' = None
      /\ lock' = lock /\ read' = read /\ preview' = preview /\ used' = used
  BY DEF AppendFails
<1>2. file \in Files /\ FileRight(file, used) /\ PreviewRight(preview, file)
  BY DEF FileInv, FileRight
<1>3. read = None
  BY <1>1 DEF FileInv, ReadRight
<1>4. FileRight(file', used) /\ PreviewRight(preview, file')
  BY <1>2, FailsWithout DEF FileRight
<1> QED BY <1>1, <1>3, <1>4 DEF FileInv, StepRight, WriteRight, ReadRight

-----------------------------------------------------------------------------
(* The appends *)

\* An item that is recordable by the head the runner has.
LEMMA BeginsItem ==
  ASSUME FileInv, step = None,
         NEW ids, used \subseteq ids, used' = ids,
         NEW item, Recordable(WriteState.head, DecodeLog(file.records).head, item),
         item.kind = "status" => item.op \in ids,
         item.kind = "status" /\ item.value = Saved => item.op \notin WriteState.head.archived,
         BeginItem(item)
  PROVE  FileInv'
<1> DEFINE h == WriteState.head
           w == DecodeLog(file.records).head
           record == ItemRecord(h.seq + 1, item)
           resolved == Resolved(w, item)
           next == AddItem(h, resolved)
<1>1. /\ file.records \in Seq(Records) /\ Legible(file.records)
      /\ Mirroring(h, w, file.records, Len(file.records))
  BY WriteStateIsRight
<1>2. DOMAIN w.ops \subseteq ids
  BY DEF FileInv, FileRight
<1>3. BeginAppend(record, next)
  <2> DEFINE taken == IF item.kind = "status" /\ item.value = Saved
                      THEN [item EXCEPT !.value = h.ops[item.op]] ELSE item
  <2>1. BeginAppend(record, AddItem(h, taken))
    BY DEF BeginItem
  <2>2. DOMAIN h.ops = DOMAIN w.ops /\ MirroredOps(h, w)
    BY <1>1 DEF Mirroring
  <2>3. item.kind = "status" /\ item.value = Saved => item.op \in DOMAIN h.ops
    BY <2>2 DEF Recordable, Resolvable
  <2>4. taken = Resolved(h, item)
    BY <2>3, Zenon DEF Resolved
  <2>5. Resolved(h, item) = resolved
    <3> HIDE DEF h, w
    <3>1. item.kind = "status" /\ item.value = Saved => item.op \notin h.archived
      BY DEF h
    <3> QED BY <2>2, <3>1, ResolvedAlike
  <2> QED BY <2>1, <2>4, <2>5
<1>4. Pending(file.records, record, next, ids)
  BY <1>1, <1>2, AppendsItem
<1> HIDE DEF record, next
<1> QED BY <1>3, <1>4, FileInvAppend

\* Each item the runner appends is recordable.
LEMMA FileInvAppendInput ==
  ASSUME FileInv, NEW id \in Prompts \cup Settings, AppendInput(id)
  PROVE  FileInv'
<1> DEFINE item == InputItem(id)
           ids == used \cup {id}
<1>1. step = None /\ BeginItem(item) /\ Accepts(WriteState.head, item) /\ used' = ids
  BY DEF AppendInput, BeginItem, BeginAppend
<1>2. item = [kind |-> "input", id |-> id]
  BY DEF InputItem
<1> HIDE DEF item
<1>3. item \in RecordedItems /\ item.kind = "input"
  BY <1>2 DEF RecordedItems
<1>4. Recordable(WriteState.head, DecodeLog(file.records).head, item)
  BY <1>1, <1>3 DEF Recordable
<1>5. used \subseteq ids
  OBVIOUS
<1> HIDE DEF ids
<1> QED BY <1>1, <1>3, <1>4, <1>5, BeginsItem

LEMMA FileInvAppendTurn ==
  ASSUME FileInv, NEW turn \in Turns, AppendTurn(turn)
  PROVE  FileInv'
<1> DEFINE latest == WriteState.head.latest
           item == TurnItem(turn, latest)
           ids == used \cup {turn}
<1>1. step = None /\ BeginItem(item) /\ Accepts(WriteState.head, item) /\ used' = ids
  BY DEF AppendTurn, BeginItem, BeginAppend
<1>2. item = [kind |-> "turn", turn |-> turn, previous |-> latest]
  BY DEF TurnItem
<1>3. latest \in Turns \cup {None}
  <2> DEFINE h == WriteState.head
  <2>1. h \in Heads
    BY <1>1, WriteStateIsRight DEF Mirroring
  <2> HIDE DEF h
  <2>2. h.latest \in Turns \cup {None}
    BY <2>1, HeadParts
  <2> QED BY <2>2 DEF h
<1> HIDE DEF item, latest
<1>4. item \in RecordedItems /\ item.kind = "turn"
  BY <1>2, <1>3 DEF RecordedItems
<1>5. Recordable(WriteState.head, DecodeLog(file.records).head, item)
  BY <1>1, <1>4 DEF Recordable
<1>6. used \subseteq ids
  OBVIOUS
<1> HIDE DEF ids
<1> QED BY <1>1, <1>4, <1>5, <1>6, BeginsItem

LEMMA FileInvAppendModelResponse ==
  ASSUME FileInv, NEW turn \in Turns, AppendModelResponse(turn)
  PROVE  FileInv'
<1> DEFINE item == ResponseItem(turn)
           ids == used \cup {Answer(turn)}
<1>1. step = None /\ BeginItem(item) /\ Accepts(WriteState.head, item) /\ used' = ids
  BY DEF AppendModelResponse, BeginItem, BeginAppend
<1>2. item = [kind |-> "response", turn |-> turn]
  BY DEF ResponseItem
<1> HIDE DEF item
<1>3. item \in RecordedItems /\ item.kind = "response"
  BY <1>2 DEF RecordedItems
<1>4. Recordable(WriteState.head, DecodeLog(file.records).head, item)
  BY <1>1, <1>3 DEF Recordable
<1>5. used \subseteq ids
  OBVIOUS
<1> HIDE DEF ids
<1> QED BY <1>1, <1>3, <1>4, <1>5, BeginsItem

LEMMA StatusParts ==
  ASSUME NEW turn \in Turns, NEW op \in Ops, NEW value \in FullValues \cup {None, Saved}
  PROVE  LET item == StatusItem(turn, op, value)
         IN /\ item \in RecordedItems /\ item.kind = "status"
            /\ item.turn = turn /\ item.op = op /\ item.value = value
<1> DEFINE item == StatusItem(turn, op, value)
<1>1. item = [kind |-> "status", turn |-> turn, op |-> op, value |-> value]
  BY DEF StatusItem
<1> HIDE DEF item
<1>2. item \in RecordedItems /\ item.kind = "status"
      /\ item.turn = turn /\ item.op = op /\ item.value = value
  BY <1>1 DEF RecordedItems
<1> QED BY <1>2 DEF item

LEMMA FullValueOf ==
  ASSUME NEW status \in Unfinished \cup {"completed"}
  PROVE  Value(status) \in FullValues /\ Value(status).status = status
BY DEF Value, FullValues

\* A call that starts an operation has none: its ID would be used.
LEMMA FileInvBeginOperation ==
  ASSUME FileInv, NEW turn \in Turns, NEW op \in Ops, BeginOperation(turn, op)
  PROVE  FileInv'
<1> DEFINE value == Value("ready")
           item == StatusItem(turn, op, value)
           ids == used \cup {op}
           w == DecodeLog(file.records).head
<1>1. /\ step = None /\ BeginItem(item) /\ Accepts(WriteState.head, item) /\ used' = ids
      /\ op \notin used
  BY DEF BeginOperation, BeginItem, BeginAppend
<1>2. value \in FullValues
  BY FullValueOf DEF Unfinished
<1> HIDE DEF value
<1>3. value # None /\ value # Saved
  BY <1>2, Marks
<1>4. item \in RecordedItems /\ item.kind = "status"
      /\ item.turn = turn /\ item.op = op /\ item.value = value
  BY <1>2, StatusParts
<1> HIDE DEF item
<1>5. Sane(w) /\ DOMAIN w.ops \subseteq used
  <2>1. Sane(w)
    BY <1>1, WriteStateIsRight DEF Mirroring
  <2>2. DOMAIN w.ops \subseteq used
    BY DEF FileInv, FileRight
  <2> QED BY <2>1, <2>2
<1> HIDE DEF w
<1>6. <<turn, op>> \notin w.calls
  <2>1. SUFFICES ASSUME <<turn, op>> \in w.calls PROVE FALSE
    OBVIOUS
  <2> DEFINE call == <<turn, op>>
  <2>2. call[2] = op
    OBVIOUS
  <2>3. call \in w.calls
    BY <2>1
  <2> HIDE DEF call
  <2>4. call[2] \in DOMAIN w.ops
    BY <1>5, <2>3 DEF Sane
  <2> QED BY <1>1, <1>5, <2>2, <2>4
<1>7. Recordable(WriteState.head, w, item)
  BY <1>1, <1>3, <1>4, <1>6 DEF Recordable, Resolvable
<1>8. used \subseteq ids /\ op \in ids
  OBVIOUS
<1> HIDE DEF ids
<1> QED BY <1>1, <1>3, <1>4, <1>7, <1>8, BeginsItem DEF w

\* An operation whose end is not recorded is in the head as it is.
LEMMA NotSettled ==
  ASSUME NEW head, NEW whole, NEW records, NEW n, Mirroring(head, whole, records, n),
         NEW op \in DOMAIN head.ops, op \in head.pending
  PROVE  /\ op \notin head.archived /\ head.ops[op] = whole.ops[op]
         /\ head.ops[op] \in FullValues /\ head.ops[op] = Value(head.ops[op].status)
         /\ op \in Ops /\ op \in DOMAIN whole.ops
<1>1. /\ head \in Heads /\ Equal(head, whole) /\ DOMAIN head.ops = DOMAIN whole.ops
      /\ MirroredOps(head, whole) /\ Sane(whole)
  BY DEF Mirroring
<1>2. op \in whole.pending
  BY <1>1 DEF Equal
<1>3. op \notin head.archived /\ head.ops[op] = whole.ops[op]
  BY <1>1, <1>2 DEF MirroredOps
<1>4. head.ops[op] \in FullValues
  BY <1>1, <1>3 DEF Sane
<1>5. head.ops[op] = Value(head.ops[op].status)
  BY <1>4, FullIsNotBare
<1>6. op \in Ops
  BY <1>1, OpsType
<1> QED BY <1>1, <1>3, <1>4, <1>5, <1>6

\* A status that ends a call may hold its operation by ID: the head has it whole.
LEMMA FileInvAppendToolCallStatus ==
  ASSUME FileInv, NEW turn \in Turns, NEW op \in Ops, AppendToolCallStatus(turn, op)
  PROVE  FileInv'
<1> DEFINE h == WriteState.head
           w == DecodeLog(file.records).head
           value == IF h.ops[op] = FullValue(op) THEN Saved ELSE FullValue(op)
           item == StatusItem(turn, op, value)
<1>1. /\ op \in DOMAIN h.ops /\ <<turn, op>> \in h.calls /\ Finished(h.ops[op])
      /\ op \in h.pending /\ BeginItem(item) /\ used' = used
  BY DEF AppendToolCallStatus
<1>2. step = None /\ Accepts(h, item)
  BY <1>1 DEF BeginItem, BeginAppend
<1>3. FullValue(op) = Value(h.ops[op].status)
  BY DEF FullValue
<1>4. Mirroring(h, w, file.records, Len(file.records))
  BY <1>2, WriteStateIsRight
<1>l. DOMAIN w.ops \subseteq used
  BY DEF FileInv, FileRight
<1> HIDE DEF h, w, item
<1>5. /\ op \notin h.archived /\ h.ops[op] = w.ops[op] /\ op \in DOMAIN w.ops
      /\ h.ops[op] = FullValue(op)
  BY <1>1, <1>3, <1>4, NotSettled
<1>6. value = Saved
  BY <1>5
<1> HIDE DEF value
<1>7. item \in RecordedItems /\ item.kind = "status"
      /\ item.turn = turn /\ item.op = op /\ item.value = Saved
  BY <1>6, StatusParts DEF item
<1>8. h.calls = w.calls
  BY <1>4 DEF Mirroring, Equal
<1>9. Recordable(h, w, item)
  BY <1>1, <1>2, <1>5, <1>7, <1>8, Marks DEF Recordable, Resolvable
<1>10. op \in used
  BY <1>5, <1>l
<1> QED BY <1>1, <1>2, <1>5, <1>7, <1>9, <1>10, BeginsItem DEF h, w

\* Other appends: the save of an operation, and a checkpoint, whose operations are located first.
LEMMA FileInvSaveOperationStatus ==
  ASSUME FileInv, NEW op \in Ops, NEW status \in {"awaiting", "completed"},
         SaveOperationStatus(op, status)
  PROVE  FileInv'
<1> DEFINE h == WriteState.head
           value == Value(status)
           record == OperationRecord(op, value)
           next == SaveOperation(h, op, value)
<1>1. op \in DOMAIN h.ops /\ BeginAppend(record, next) /\ used' = used
  BY DEF SaveOperationStatus, CanSave
<1>2. step = None
  BY <1>1 DEF BeginAppend
<1>3. value \in FullValues
  BY FullValueOf DEF Unfinished
<1>4. /\ file.records \in Seq(Records) /\ Legible(file.records)
      /\ Mirroring(h, DecodeLog(file.records).head, file.records, Len(file.records))
  BY <1>2, WriteStateIsRight
<1>5. DOMAIN DecodeLog(file.records).head.ops \subseteq used
  BY DEF FileInv, FileRight
<1> HIDE DEF h, value
<1>6. Pending(file.records, record, next, used)
  BY <1>1, <1>3, <1>4, <1>5, AppendsOperation
<1> HIDE DEF record, next
<1>7. used \subseteq used
  OBVIOUS
<1> QED BY <1>1, <1>6, <1>7, FileInvAppend

LEMMA FileInvSaveCheckpoint ==
  ASSUME FileInv, SaveCheckpoint
  PROVE  FileInv'
<1> DEFINE h == WriteState.head
           w == DecodeLog(file.records).head
           size == WriteState.size
           found == LocateOperations(h, UpTo(file, size))
           located == IF h.located THEN h ELSE found
           held == CheckpointHead(located)
           record == CheckpointRecord(size + 1, held)
<1>1. h.seq # 0 /\ BeginAppend(record, located) /\ used' = used
  BY DEF SaveCheckpoint
<1>2. step = None
  BY <1>1 DEF BeginAppend
<1>3. /\ file.records \in Seq(Records) /\ Legible(file.records) /\ size = Len(file.records)
      /\ Mirroring(h, w, file.records, Len(file.records))
  BY <1>2, WriteStateIsRight
<1>4. DOMAIN w.ops \subseteq used
  BY DEF FileInv, FileRight
<1>5. UpTo(file, size) = file.records
  <2> DEFINE n == Len(file.records)
  <2>1. n \in Nat /\ size = n
    BY <1>3, LenProperties
  <2> HIDE DEF size
  <2>2. {size, n} = {n}
    BY <2>1
  <2>3. Min({n}) = n
    <3> HIDE DEF n
    <3> QED BY <2>1 DEF Min
  <2>4. UpTo(file, size) = SubSeq(file.records, 1, n)
    BY <2>2, <2>3 DEF UpTo
  <2> QED BY <1>3, <2>4, AllOfIt
<1>6. FoundIn(file.records, w.ops, Len(file.records))
  <2> DEFINE n == Len(file.records)
             f == LastFork(file.records)
  <2>1. n \in Nat /\ DecodeLog(file.records) = Reading(file.records, f, n)
    BY <1>3, LegibleParts DEF Parts
  <2>2. n \in 0 .. n
    BY <2>1
  <2>3. FoundIn(file.records, Reading(file.records, f, n).head.ops, n)
    BY <1>3, <2>2, FoundInFile
  <2> QED BY <2>1, <2>3
<1> HIDE DEF h, w, size
<1>7. /\ Mirroring(located, w, file.records, Len(file.records)) /\ located.located
  <2>1. CASE h.located
    <3>1. located = h
      BY <2>1
    <3> QED BY <1>3, <2>1, <3>1
  <2>2. CASE ~h.located
    <3>1. Mirroring(found, w, file.records, Len(file.records)) /\ found.located
      BY <1>3, <1>5, <1>6, <2>2, LocatesAll
    <3>2. located = found
      BY <2>2
    <3> QED BY <3>1, <3>2
  <2> QED BY <2>1, <2>2
<1> HIDE DEF located
<1>8. located.seq # 0
  <2>1. h.seq = w.seq /\ located.seq = w.seq
    BY <1>3, <1>7 DEF Mirroring, Equal
  <2> QED BY <1>1, <2>1
<1>9. Pending(file.records, record, located, used)
  <2>1. Pending(file.records, CheckpointRecord(Len(file.records) + 1, CheckpointHead(located)),
                located, used)
    BY <1>3, <1>4, <1>7, <1>8, AppendsCheckpoint DEF w
  <2> QED BY <1>3, <2>1
<1> HIDE DEF record
<1>10. used \subseteq used
  OBVIOUS
<1> QED BY <1>1, <1>9, <1>10, FileInvAppend

-----------------------------------------------------------------------------
(* Rewinds, branches and readers *)

\* A file in the place of another.
LEMMA FileReplaced ==
  ASSUME NEW records \in Seq(Records), NEW id \in Inodes, NEW g, g = Replaced(records, id)
  PROVE  g \in Files /\ g.records = records /\ g.mtime = Now
<1>1. Now \in Nat
  BY NowIsNew
<1> DEFINE now == Now
<1>2. g = [records |-> records, torn |-> FALSE, id |-> id, mtime |-> now] /\ now \in Nat
  BY <1>1 DEF Replaced
<1> HIDE DEF now
<1>3. g \in Files /\ g.records = records /\ g.mtime = now
  BY <1>2 DEF Files
<1> QED BY <1>3 DEF now

\* A preview finds a cut of the file as it is.
LEMMA FileInvPreview ==
  ASSUME FileInv, NEW prompt \in Prompts, Preview(prompt)
  PROVE  FileInv'
<1> DEFINE cut == CutLog(file.records, prompt)
           version == Version(file)
<1>1. /\ preview' = [prompt |-> prompt, version |-> version, cut |-> cut]
      /\ file' = file /\ lock' = lock /\ write' = write /\ read' = read /\ step' = step /\ used' = used
  BY DEF Preview, runner
<1> HIDE DEF version
<1>2. preview'.prompt = prompt /\ preview'.cut = cut
  <2> HIDE DEF cut
  <2> QED BY <1>1
<1>3. PreviewRight(preview', file)
  BY <1>2 DEF PreviewRight
<1> QED BY <1>1, <1>3 DEF FileInv

\* The cut a rewind makes is one of the file as it is.
LEMMA CutIsOfTheFile ==
  ASSUME FileInv, NEW prompt
  PROVE  CutOf(prompt) = CutLog(file.records, prompt)
<1>1. CASE Previewed(prompt)
  <2>1. preview # None /\ preview.prompt = prompt /\ preview.version = Version(file)
    BY <1>1 DEF Previewed
  <2>2. Version(file).mtime = file.mtime
    BY DEF Version
  <2>3. preview.version.mtime = file.mtime
    BY <2>1, <2>2
  <2>4. preview.cut = CutLog(file.records, preview.prompt)
    BY <2>1, <2>3 DEF FileInv, PreviewRight
  <2>5. CutOf(prompt) = preview.cut
    BY <1>1 DEF CutOf
  <2> QED BY <2>1, <2>4, <2>5
<1>2. CASE ~Previewed(prompt)
  BY <1>2 DEF CutOf
<1> QED BY <1>1, <1>2

\* What a rewind leaves.
LEMMA RewindsTo ==
  ASSUME FileInv, NEW prompt \in Prompts, Rewind(prompt)
  PROVE  /\ file' \in Files /\ file'.mtime = Now
         /\ Rewound(file.records, prompt, file'.records)
         /\ step = None /\ write = None /\ read = None
<1> DEFINE cut == CutOf(prompt)
           rest == Remains(file.records, cut)
<1>1. PICK id \in Inodes : file' = Replaced(rest, id)
  BY DEF Rewind, Free
<1>2. cut = CutLog(file.records, prompt) /\ cut.found
  BY CutIsOfTheFile DEF Rewind
<1>3. file.records \in Seq(Records) /\ Legible(file.records)
  BY DEF FileInv, FileRight, Files
<1>4. Rewound(file.records, prompt, rest)
  BY <1>2, <1>3, Rewinding
<1> HIDE DEF rest, cut
<1>5. rest \in Seq(Records)
  BY <1>4 DEF Rewound
<1>6. file' \in Files /\ file'.records = rest /\ file'.mtime = Now
  BY <1>1, <1>5, FileReplaced
<1>7. lock # "run"
  BY NoneAssumption DEF Rewind
<1>8. step = None /\ write = None /\ read = None
  BY <1>7 DEF FileInv, StepRight, WriteRight, ReadRight
<1> QED BY <1>4, <1>6, <1>8

LEMMA FileInvRewind ==
  ASSUME FileInv, NEW prompt \in Prompts, Rewind(prompt)
  PROVE  FileInv'
<1>1. /\ file' \in Files /\ file'.mtime = Now
      /\ Rewound(file.records, prompt, file'.records)
      /\ step = None /\ write = None /\ read = None
  BY RewindsTo
<1>2. lock' = lock /\ write' = write /\ read' = read /\ step' = step /\ used' = used
      /\ (preview' = None \/ preview' = preview)
  BY DEF Rewind, runner
<1>3. FileRight(file', used)
  <2>1. /\ Legible(file'.records)
        /\ DOMAIN DecodeLog(file'.records).head.ops \subseteq DOMAIN DecodeLog(file.records).head.ops
    BY <1>1 DEF Rewound
  <2>2. DOMAIN DecodeLog(file.records).head.ops \subseteq used
    BY DEF FileInv, FileRight
  <2> QED BY <1>1, <2>1, <2>2 DEF FileRight
<1>4. PreviewRight(preview', file')
  <2>1. CASE preview' = None
    BY <2>1 DEF PreviewRight
  <2>2. CASE preview' = preview
    <3>1. PreviewRight(preview, file)
      BY DEF FileInv
    <3>2. PreviewRight(preview, file')
      BY <1>1, <3>1, Unseen
    <3> QED BY <2>2, <3>2
  <2> QED BY <1>2, <2>1, <2>2
<1> QED BY <1>1, <1>2, <1>3, <1>4 DEF FileInv, StepRight, WriteRight, ReadRight

\* What a branch is.
LEMMA BranchesTo ==
  ASSUME FileInv, BranchFork, file' # file
  PROVE  LET items == DecodeLog(file.records).items
         IN /\ Boundary(items, branch.turn) # 0
            /\ file' \in Files
            /\ Branched(items, branch.turn, Boundary(items, branch.turn), file'.records)
            /\ lock' = None /\ write' = None /\ read' = None /\ step' = None /\ preview' = None
<1> DEFINE items == DecodeLog(file.records).items
           turn == branch.turn
           rest == ForkLog(items, turn)
           there == Boundary(items, turn) # 0
<1>1. there
  BY DEF BranchFork
<1>2. file' = Replaced(rest, file.id) /\ lock' = None /\ write' = None /\ read' = None /\ step' = None
      /\ preview' = None
  BY <1>1 DEF BranchFork
<1>3. file.records \in Seq(Records) /\ Legible(file.records) /\ file.id \in Inodes
  BY DEF FileInv, FileRight, Files
<1>4. items \in Seq(WholeItems)
  BY <1>3, WholeIsRead
<1> HIDE DEF items, turn
<1>5. Branched(items, turn, Boundary(items, turn), rest)
  BY <1>1, <1>4, Branching
<1> HIDE DEF rest
<1>6. rest \in Seq(Records)
  BY <1>5 DEF Branched
<1>7. file' \in Files /\ file'.records = rest
  BY <1>2, <1>3, <1>6, FileReplaced
<1> QED BY <1>1, <1>2, <1>5, <1>7 DEF items, turn

LEMMA FileInvBranchFork ==
  ASSUME FileInv, BranchFork
  PROVE  FileInv'
<1>1. CASE file' # file
  <2> DEFINE items == DecodeLog(file.records).items
  <2>1. /\ file' \in Files
        /\ Branched(items, branch.turn, Boundary(items, branch.turn), file'.records)
        /\ lock' = None /\ write' = None /\ read' = None /\ step' = None /\ preview' = None
    BY <1>1, BranchesTo
  <2>2. Legible(file'.records) /\ DecodeLog(file'.records).head.ops = <<>>
    BY <2>1 DEF Branched
  <2>3. DOMAIN DecodeLog(file'.records).head.ops \subseteq used'
    BY <2>2
  <2> QED BY <2>1, <2>2, <2>3 DEF FileInv, FileRight, StepRight, WriteRight, ReadRight, PreviewRight
<1>2. CASE file' = file
  <2>1. used' = used
    BY DEF BranchFork
  <2>2. FileRight(file', used')
    BY <1>2, <2>1 DEF FileInv
  <2>3. CASE UNCHANGED <<file, lock, runner, preview, watch>>
    BY <2>1, <2>2, <2>3 DEF FileInv, runner
  <2>4. CASE write' = None /\ read' = None /\ step' = None /\ preview' = None
    BY <2>2, <2>4 DEF FileInv, StepRight, WriteRight, ReadRight, PreviewRight
  <2> QED BY <2>3, <2>4 DEF BranchFork
<1> QED BY <1>1, <1>2

\* What reads, or does nothing, leaves all of this alone.
LEMMA FileInvUnchanged ==
  ASSUME FileInv, UNCHANGED <<file, lock, write, read, step, preview, used>>
  PROVE  FileInv'
BY DEF FileInv

-----------------------------------------------------------------------------
(* It is inductive *)

\* Every step of the store keeps the invariant,
LEMMA FileInvStore ==
  ASSUME FileInv, StoreStep
  PROVE  FileInv'
<1>1. CASE \E id \in Prompts \cup Settings : AppendInput(id)
  BY <1>1, FileInvAppendInput
<1>2. CASE \E turn \in Turns : AppendTurn(turn) \/ AppendModelResponse(turn)
  BY <1>2, FileInvAppendTurn, FileInvAppendModelResponse
<1>3. CASE \E turn \in Turns, op \in Ops : BeginOperation(turn, op) \/ AppendToolCallStatus(turn, op)
  BY <1>3, FileInvBeginOperation, FileInvAppendToolCallStatus
<1>4. CASE \E op \in Ops, status \in {"awaiting", "completed"} : SaveOperationStatus(op, status)
  BY <1>4, FileInvSaveOperationStatus
<1>5. CASE SaveCheckpoint
  BY <1>5, FileInvSaveCheckpoint
<1>6. CASE Truncate
  BY <1>6, FileInvTruncate
<1>7. CASE WriteRecord
  BY <1>7, FileInvWriteRecord
<1>8. CASE Sync
  BY <1>8, FileInvSync
<1>9. CASE AppendFails
  BY <1>9, FileInvAppendFails
<1> QED BY <1>1, <1>2, <1>3, <1>4, <1>5, <1>6, <1>7, <1>8, <1>9 DEF StoreStep

\* and every other step.
LEMMA FileInvNext ==
  ASSUME FileInv, [Next]_vars
  PROVE  FileInv'
<1>1. CASE Start
  BY <1>1, FileInvStart
<1>2. CASE Stop
  BY <1>2, FileInvStop
<1>3. CASE \E forResume \in BOOLEAN : ReadSession(forResume)
  BY <1>3, FileInvReadSession
<1>4. CASE StoreStep
  BY <1>4, FileInvStore
<1>5. ASSUME NEW prompt \in Prompts, Preview(prompt) \/ Rewind(prompt) \/ BranchScan(prompt)
      PROVE  FileInv'
  <2>1. CASE Preview(prompt)
    BY <2>1, FileInvPreview
  <2>2. CASE Rewind(prompt)
    BY <2>2, FileInvRewind
  <2>3. CASE BranchScan(prompt)
    BY <2>3, FileInvUnchanged DEF BranchScan, runner
  <2> QED BY <1>5, <2>1, <2>2, <2>3
<1>6. CASE BranchFork
  BY <1>6, FileInvBranchFork
<1>7. CASE LoadBegin
  BY <1>7, FileInvUnchanged DEF LoadBegin, runner
<1>8. CASE LoadEnd
  BY <1>8, FileInvUnchanged DEF LoadEnd, runner
<1>9. CASE UNCHANGED vars
  BY <1>9, FileInvUnchanged DEF vars, runner
<1> QED BY <1>1, <1>2, <1>3, <1>4, <1>5, <1>6, <1>7, <1>8, <1>9 DEF Next

\* In every run, rewind and branch: the file can be read and what is known of it is so
\* (append, loadWriteState, sharedState, RewindSession, forkStoredState).
THEOREM FileInvariant == Spec => []FileInv
<1>1. Init => FileInv
  BY FileInvInit
<1>2. FileInv /\ [Next]_vars => FileInv'
  BY FileInvNext
<1> QED BY <1>1, <1>2, PTL DEF Spec

-----------------------------------------------------------------------------
(* What the runner knows and reads *)

\* A head that stands for the whole history agrees with it.
LEMMA AgreesIf ==
  ASSUME NEW head, NEW whole, NEW n, Mirroring(head, whole, file.records, n)
  PROVE  Agrees(head, whole)
<1>1. /\ Equal(head, whole) /\ DOMAIN head.ops = DOMAIN whole.ops
      /\ head.archived \subseteq DOMAIN head.ops /\ head \in Heads
      /\ MirroredOps(head, whole) /\ MirroredPlaces(head, whole, file.records, n)
  BY DEF Mirroring
<1>2. \A field \in {"seq", "latest", "turns", "owned", "responded", "calls", "pending", "inputs"} :
        head[field] = whole[field]
  BY <1>1, MirrorIsEqual DEF HeadFields
<1>3. ASSUME NEW o \in DOMAIN head.ops
      PROVE  IF o \in head.archived
             THEN LET original == file.records[head.offsets[o]] IN
                  /\ Finished(whole.ops[o])
                  /\ \/ original.type = "operation" /\ original.value = whole.ops[o]
                     \/ IsItem(original) /\ original.item.value = whole.ops[o]
             ELSE head.ops[o] = whole.ops[o]
  <2> DEFINE original == file.records[head.offsets[o]]
  <2>1. CASE o \in head.archived
    <3>1. head.located
      BY <1>1, <2>1 DEF MirroredPlaces
    <3>2. o \in Ops
      BY <1>1, OpsType
    <3>3. Holds(original, o, whole.ops[o])
      BY <1>1, <3>1, <3>2 DEF MirroredPlaces
    <3>4. Finished(whole.ops[o])
      BY <1>1, <2>1 DEF MirroredOps
    <3> HIDE DEF original
    <3>5. \/ original.type = "operation" /\ original.value = whole.ops[o]
          \/ IsItem(original) /\ original.item.value = whole.ops[o]
      BY <3>3 DEF Holds, IsStatus
    <3> QED BY <2>1, <3>4, <3>5 DEF original
  <2>2. CASE o \notin head.archived
    BY <1>1, <2>2 DEF MirroredOps
  <2> QED BY <2>1, <2>2
<1> QED BY <1>1, <1>2, <1>3 DEF Agrees

\* The three invariants of the runs follow.
LEMMA FileInvWriteState == FileInv => WriteStateIsFile
<1> SUFFICES ASSUME FileInv, lock = "run", step = None, write # None
             PROVE  write.size = Len(file.records) /\ Agrees(write.head, Whole.head)
  BY DEF WriteStateIsFile
<1>1. /\ write.size = Len(file.records)
      /\ Mirroring(write.head, Whole.head, file.records, Len(file.records))
  BY DEF FileInv, WriteRight, Whole
<1> QED BY <1>1, AgreesIf

LEMMA FileInvReads == FileInv => ReadsAreOfTheFile
<1> SUFFICES ASSUME FileInv PROVE ReadsAreOfTheFile
  OBVIOUS
<1>1. file.records \in Seq(Records) /\ Legible(file.records)
  BY DEF FileInv, FileRight, Files
<1>2. Whole.ok
  BY <1>1, WholeIsRead DEF Whole
<1>3. SharedState(FALSE) = Whole /\ SharedState(TRUE) = DecodeResumeLog(file.records)
  BY SharedIsRead DEF Whole
<1> QED BY <1>2, <1>3 DEF ReadsAreOfTheFile

\* What is to go on is the same, whatever a checkpoint left in its records.
LEMMA ResumesAlike ==
  ASSUME NEW state, NEW whole, NEW records, NEW n, Mirroring(state.head, whole.head, records, n)
  PROVE  Resume(state).ops = Resume(whole).ops /\ Resume(state).inputs = Resume(whole).inputs
<1> DEFINE h == state.head
           w == whole.head
           Open(head) == {o \in DOMAIN head.ops : ~Finished(head.ops[o]) \/ o \in head.pending}
<1>1. /\ Equal(h, w) /\ DOMAIN h.ops = DOMAIN w.ops /\ MirroredOps(h, w)
      /\ h \in Heads /\ w \in Heads
  BY DEF Mirroring
<1>2. Resume(state).ops = {<<o, h.ops[o]>> : o \in Open(h)}
      /\ Resume(whole).ops = {<<o, w.ops[o]>> : o \in Open(w)}
  BY DEF Resume
<1>3. Resume(state).inputs = h.inputs /\ Resume(whole).inputs = w.inputs
  BY DEF Resume
<1> HIDE DEF h, w
<1>4. ASSUME NEW o \in DOMAIN h.ops
      PROVE  /\ o \in Open(h) <=> o \in Open(w)
             /\ o \in Open(h) => h.ops[o] = w.ops[o]
  <2>1. h.pending = w.pending
    BY <1>1 DEF Equal
  <2>2. CASE o \in h.archived
    <3>1. Finished(w.ops[o]) /\ o \notin w.pending /\ h.ops[o] = [w.ops[o] EXCEPT !.state = Bare]
      BY <1>1, <2>2 DEF MirroredOps
    <3>2. w.ops[o] \in Values
      BY <1>1, OpsType
    <3>3. Finished(h.ops[o])
      BY <3>1, <3>2, BareValue
    <3> QED BY <1>1, <2>1, <3>1, <3>3
  <2>3. CASE o \notin h.archived
    <3>1. h.ops[o] = w.ops[o]
      BY <1>1, <2>3 DEF MirroredOps
    <3> QED BY <1>1, <2>1, <3>1
  <2> QED BY <2>2, <2>3
<1>5. Open(h) = Open(w)
  BY <1>1, <1>4
<1>6. \A o \in Open(h) : h.ops[o] = w.ops[o]
  BY <1>4
<1> HIDE DEF Open
<1>7. {<<o, h.ops[o]>> : o \in Open(h)} = {<<o, w.ops[o]>> : o \in Open(w)}
  BY <1>5, <1>6
<1>8. h.inputs = w.inputs
  BY <1>1 DEF Equal
<1> QED BY <1>2, <1>3, <1>7, <1>8

LEMMA FileInvResume == FileInv => ResumeIsReplay
<1> SUFFICES ASSUME FileInv PROVE ResumeIsReplay
  OBVIOUS
<1> DEFINE records == file.records
           state == DecodeResumeLog(records)
<1>1. records \in Seq(Records) /\ Legible(records)
  BY DEF FileInv, FileRight, Files
<1>2. /\ state.ok /\ Mirroring(state.head, Whole.head, records, Len(records))
      /\ state.items = SubSeq(Whole.items, state.after + 1, Len(Whole.items))
  BY <1>1, Resuming DEF Resumed, Whole
<1>3. ASSUME NEW k \in 1..Len(records), records[k].type = "checkpoint"
      PROVE  ValidCheckpoint(records, k)
  BY <1>1, <1>3, CheckpointStands DEF CheckpointAt
<1> HIDE DEF state
<1>4. Agrees(state.head, Whole.head)
  BY <1>2, AgreesIf
<1>5. Resume(state).ops = Resume(Whole).ops /\ Resume(state).inputs = Resume(Whole).inputs
  BY <1>2, ResumesAlike
<1>6. Resume(state).items = SubSeq(Resume(Whole).items, Resume(state).after + 1, Len(Resume(Whole).items))
  <2>1. Resume(state).items = state.items /\ Resume(Whole).items = Whole.items
        /\ Resume(state).after = state.after
    BY DEF Resume
  <2> QED BY <1>2, <2>1
<1> QED BY <1>2, <1>3, <1>4, <1>5, <1>6 DEF ResumeIsReplay, state

\* WriteStateIsFile: no append cuts off a committed record or is checked by a head that
\* is not that of the file (append, loadWriteState).
THEOREM RunnerKnowsTheFile == Spec => []WriteStateIsFile
BY FileInvariant, FileInvWriteState, PTL

\* ReadsAreOfTheFile: all that is committed can be read, and a cached read is of the file
\* as it is (decodeLog, sharedState).
THEOREM ReadsTheFile == Spec => []ReadsAreOfTheFile
BY FileInvariant, FileInvReads, PTL

\* ResumeIsReplay: a run that resumes from a checkpoint sees what one that reads all of
\* the history does (SaveCheckpoint, decodeResumeLog).
THEOREM ResumesTheSession == Spec => []ResumeIsReplay
BY FileInvariant, FileInvResume, PTL

-----------------------------------------------------------------------------
(* What a rewind does *)

LEMMA OnlyRewindsRewind ==
  ASSUME FileInv, [Next]_vars, rewinds' # rewinds
  PROVE  \E prompt \in Prompts : Rewind(prompt)
<1>1. CASE Start
  BY <1>1 DEF Start
<1>2. CASE Stop
  BY <1>2 DEF Stop, bounds
<1>3. CASE \E forResume \in BOOLEAN : ReadSession(forResume)
  BY <1>3 DEF ReadSession, bounds
<1>4. CASE StoreStep
  <2>1. ASSUME NEW record, NEW head, BeginAppend(record, head)
        PROVE  rewinds' = rewinds
    BY <2>1 DEF BeginAppend, bounds
  <2>2. ASSUME NEW item, BeginItem(item)
        PROVE  rewinds' = rewinds
    BY <2>1, <2>2 DEF BeginItem
  <2>3. CASE \E id \in Prompts \cup Settings : AppendInput(id)
    BY <2>2, <2>3 DEF AppendInput
  <2>4. CASE \E turn \in Turns : AppendTurn(turn) \/ AppendModelResponse(turn)
    BY <2>2, <2>4 DEF AppendTurn, AppendModelResponse
  <2>5. CASE \E turn \in Turns, op \in Ops : BeginOperation(turn, op) \/ AppendToolCallStatus(turn, op)
    BY <2>2, <2>5 DEF BeginOperation, AppendToolCallStatus
  <2>6. CASE \E op \in Ops, status \in {"awaiting", "completed"} : SaveOperationStatus(op, status)
    BY <2>1, <2>6 DEF SaveOperationStatus
  <2>7. CASE SaveCheckpoint
    BY <2>1, <2>7 DEF SaveCheckpoint
  <2>8. CASE Truncate
    BY <2>8 DEF Truncate, bounds
  <2>9. CASE WriteRecord
    BY <2>9 DEF WriteRecord, bounds
  <2>10. CASE Sync
    BY <2>10 DEF Sync, bounds
  <2>11. CASE AppendFails
    BY <2>11 DEF AppendFails
  <2> QED BY <1>4, <2>3, <2>4, <2>5, <2>6, <2>7, <2>8, <2>9, <2>10, <2>11 DEF StoreStep
<1>5. ASSUME NEW prompt \in Prompts, Preview(prompt) \/ BranchScan(prompt)
      PROVE  rewinds' = rewinds
  BY <1>5 DEF Preview, BranchScan, bounds
<1>6. CASE BranchFork
  BY <1>6 DEF BranchFork, bounds
<1>7. CASE LoadBegin
  BY <1>7 DEF LoadBegin, bounds
<1>8. CASE LoadEnd
  BY <1>8 DEF LoadEnd, bounds
<1>9. CASE UNCHANGED vars
  BY <1>9 DEF vars, bounds
<1> QED BY <1>1, <1>2, <1>3, <1>4, <1>5, <1>6, <1>7, <1>8, <1>9 DEF Next

LEMMA KeepsOutcomes ==
  ASSUME FileInv, [Next]_vars, rewinds' # rewinds
  PROVE  LET then == DecodeLog(file'.records).head
         IN \A o \in DOMAIN then.ops : then.ops[o] = Whole.head.ops[o]
<1>1. PICK prompt \in Prompts : Rewind(prompt)
  BY OnlyRewindsRewind
<1>2. Rewound(file.records, prompt, file'.records)
  BY <1>1, RewindsTo
<1> QED BY <1>2 DEF Rewound, Whole

LEMMA GoesBack ==
  ASSUME FileInv, [Next]_vars, rewinds' # rewinds
  PROVE  LET then == DecodeLog(file'.records)
             was == Whole.items
             n == Left(then.items, was)
         IN /\ then.ok
            /\ then.head.owned \subseteq Whole.head.owned
            /\ n >= 0
            /\ \E i \in n + 1..Len(was) :
                 /\ was[i].kind = "input" /\ was[i].id \in Prompts
                 /\ \A j \in n + 1..i - 1 : was[j].kind = "input" /\ was[j].id \in Settings
<1>1. PICK prompt \in Prompts : Rewind(prompt)
  BY OnlyRewindsRewind
<1> DEFINE then == DecodeLog(file'.records)
           was == Whole.items
           n == Left(then.items, was)
<1>2. then.ok /\ then.head.owned \subseteq Whole.head.owned /\ n \in Nat /\ PromptNext(was, n, prompt)
  BY <1>1, RewindsTo DEF Rewound, Whole
<1> HIDE DEF then, was, n
<1>3. PICK i \in n + 1 .. Len(was) :
        was[i] = InputItem(prompt) /\ \A m \in n + 1 .. i - 1 : IsSettingsItem(was[m])
  BY <1>2 DEF PromptNext
<1>4. was[i].kind = "input" /\ was[i].id \in Prompts
  BY <1>3 DEF InputItem
<1>5. \A j \in n + 1..i - 1 : was[j].kind = "input" /\ was[j].id \in Settings
  BY <1>3 DEF IsSettingsItem
<1>6. n >= 0
  BY <1>2
<1> QED BY <1>2, <1>3, <1>4, <1>5, <1>6 DEF then, was, n

\* RewindKeepsOutcomes: a command that was started before the prompt keeps the outcome it
\* reached later (cutOff).
THEOREM RewindsKeepOutcomes == Spec => RewindKeepsOutcomes
<1>1. FileInv /\ [Next]_vars =>
        [rewinds' # rewinds =>
           LET then == DecodeLog(file'.records).head
           IN \A o \in DOMAIN then.ops : then.ops[o] = Whole.head.ops[o]]_vars
  BY KeepsOutcomes
<1> QED BY <1>1, FileInvariant, PTL DEF Spec, RewindKeepsOutcomes

\* RewindGoesBack: a rewound session is in a state it was in, before a prompt and the
\* settings recorded for it (RewindSession).
THEOREM RewindsGoBack == Spec => RewindGoesBack
<1>1. FileInv /\ [Next]_vars =>
        [rewinds' # rewinds =>
           LET then == DecodeLog(file'.records)
               was == Whole.items
               n == Left(then.items, was)
           IN /\ then.ok
              /\ then.head.owned \subseteq Whole.head.owned
              /\ n >= 0
              /\ \E i \in n + 1..Len(was) :
                   /\ was[i].kind = "input" /\ was[i].id \in Prompts
                   /\ \A j \in n + 1..i - 1 : was[j].kind = "input" /\ was[j].id \in Settings]_vars
  BY GoesBack
<1> QED BY <1>1, FileInvariant, PTL DEF Spec, RewindGoesBack

-----------------------------------------------------------------------------
(* Names *)

IsNamed(item) == item.kind \in {"input", "turn"}
IsInput(item, prompt) == item.kind = "input" /\ item.id = prompt
IsTurn(item, turn) == item.kind = "turn" /\ item.turn = turn

\* What an item is named by was used.
Known(item, ids) ==
  /\ item.kind = "input" => item.id \in ids
  /\ item.kind = "turn" => item.turn \in ids

\* Of what has a name there is only what there was, where it was.
Within(now, was) ==
  \A i \in 1 .. Len(now) : IsNamed(now[i]) => i \in 1 .. Len(was) /\ now[i] = was[i]

\* What there was, and an item.
OneMore(now, was, item) ==
  /\ Len(now) = Len(was) + 1
  /\ \A i \in 1 .. Len(was) : now[i] = was[i]
  /\ now[Len(now)].kind = item.kind
  /\ IsNamed(item) => now[Len(now)] = item

\* Names are known, and occur once.
NamesRight(items, ids) ==
  /\ \A i \in 1 .. Len(items) : Known(items[i], ids)
  /\ NamedOnce(items)

\* The turn of a branch is before its prompt.
TurnFirst(items, b) ==
  b # None =>
    \A i, j \in 1 .. Len(items) : IsInput(items[i], b.prompt) /\ IsTurn(items[j], b.turn) => j < i

\* An item has a name that is nobody's.
NewName(item, items, b) ==
  /\ \A i \in 1 .. Len(items) : ~SameName(items[i], item)
  /\ b # None => ~IsInput(item, b.prompt) /\ ~IsTurn(item, b.turn)

\* Names that are right stay so where there is nothing new,
LEMMA NamesWithin ==
  ASSUME NEW now, NEW was, Within(now, was), NEW ids, NEW b, NamesRight(was, ids), TurnFirst(was, b)
  PROVE  /\ NamesRight(now, ids) /\ TurnFirst(now, b)
         /\ \A item : NewName(item, was, b) => NewName(item, now, b)
<1>1. \A i \in 1 .. Len(now) : Known(now[i], ids)
  BY DEF Within, NamesRight, Known, IsNamed
<1>2. NamedOnce(now)
  BY DEF Within, NamesRight, NamedOnce, SameName, IsNamed
<1>3. TurnFirst(now, b)
  BY DEF Within, TurnFirst, IsInput, IsTurn, IsNamed
<1>4. ASSUME NEW item, NewName(item, was, b) PROVE NewName(item, now, b)
  BY <1>4 DEF Within, NewName, SameName, IsNamed
<1> QED BY <1>1, <1>2, <1>3, <1>4 DEF NamesRight

\* and with an item whose name is new.
LEMMA NamesOneMore ==
  ASSUME NEW now, NEW was, NEW item, OneMore(now, was, item), Len(was) \in Nat,
         NEW ids, NEW b, NamesRight(was, ids), TurnFirst(was, b),
         Known(item, ids), NewName(item, was, b)
  PROVE  NamesRight(now, ids) /\ TurnFirst(now, b)
<1> DEFINE n == Len(was)
           m == Len(now)
<1>1. m = n + 1 /\ n \in Nat /\ \A i \in 1 .. m : i \in 1 .. n \/ i = m
  BY DEF OneMore
<1>2. /\ \A i \in 1 .. n : now[i] = was[i]
      /\ now[m].kind = item.kind /\ (IsNamed(item) => now[m] = item)
  BY DEF OneMore
<1>3. \A i \in 1 .. n : Known(was[i], ids) /\ ~SameName(was[i], item)
  BY DEF NamesRight, NewName
<1>4. \A i, j \in 1 .. n : SameName(was[i], was[j]) => i = j
  BY DEF NamesRight, NamedOnce
<1>5. b # None => /\ ~IsInput(item, b.prompt) /\ ~IsTurn(item, b.turn)
                  /\ \A i, j \in 1 .. n : IsInput(was[i], b.prompt) /\ IsTurn(was[j], b.turn) => j < i
  BY DEF NewName, TurnFirst
<1>s. Known(item, ids)
  OBVIOUS
<1> HIDE DEF n, m
<1>6. ASSUME NEW i \in 1 .. m PROVE Known(now[i], ids)
  BY <1>1, <1>2, <1>3, <1>s DEF Known, IsNamed
<1>7. ASSUME NEW i \in 1 .. m, NEW j \in 1 .. m, SameName(now[i], now[j]) PROVE i = j
  <2>1. CASE i \in 1 .. n /\ j \in 1 .. n
    BY <1>2, <1>4, <1>7, <2>1
  <2>2. CASE i \in 1 .. n /\ j = m
    <3>1. IsNamed(item) /\ now[j] = item /\ now[i] = was[i]
      BY <1>2, <1>7, <2>2 DEF SameName, IsNamed
    <3> QED BY <1>3, <1>7, <2>2, <3>1
  <2>3. CASE i = m /\ j \in 1 .. n
    <3>1. IsNamed(item) /\ now[i] = item /\ now[j] = was[j]
      BY <1>2, <1>7, <2>3 DEF SameName, IsNamed
    <3>2. SameName(was[j], item)
      BY <1>7, <3>1 DEF SameName
    <3> QED BY <1>3, <2>3, <3>2
  <2> QED BY <1>1, <2>1, <2>2, <2>3
<1>8. ASSUME b # None, NEW i \in 1 .. m, NEW j \in 1 .. m, IsInput(now[i], b.prompt), IsTurn(now[j], b.turn)
      PROVE j < i
  <2>1. i # m
    BY <1>2, <1>5, <1>8 DEF IsInput, IsNamed
  <2>2. j # m
    BY <1>2, <1>5, <1>8 DEF IsTurn, IsNamed
  <2>3. i \in 1 .. n /\ j \in 1 .. n
    BY <1>1, <2>1, <2>2
  <2> QED BY <1>2, <1>5, <1>8, <2>3
<1>9. NamesRight(now, ids)
  BY <1>6, <1>7 DEF NamesRight, NamedOnce, m
<1>10. TurnFirst(now, b)
  BY <1>8 DEF TurnFirst, m
<1> QED BY <1>9, <1>10

\* What a record adds to the items of a file.
LEMMA ItemsGrow ==
  ASSUME NEW base \in Seq(Records), NEW record \in Records, ~IsFork(record),
         Legible(base), Legible(Append(base, record))
  PROVE  LET was == DecodeLog(base).items
             now == DecodeLog(Append(base, record)).items
         IN /\ IsItem(record) => OneMore(now, was, record.item)
            /\ ~IsItem(record) => now = was
            /\ Len(was) \in Nat /\ was \in Seq(WholeItems) /\ now \in Seq(WholeItems)
<1> DEFINE next == Append(base, record)
           n == Len(base)
           f == LastFork(next)
           was == DecodeLog(base).items
           now == DecodeLog(next).items
<1>1. /\ next \in Seq(Records) /\ Len(next) = n + 1 /\ next[n + 1] = record
      /\ SubSeq(next, 1, n) = base /\ f = LastFork(base) /\ n \in Nat
  <2>1. /\ next \in Seq(Records) /\ Len(next) = n + 1 /\ next[n + 1] = record
        /\ SubSeq(next, 1, (n + 1) - 1) = base /\ f = LastFork(base)
    BY DecodeAppend
  <2>2. n \in Nat
    BY LenProperties
  <2>3. (n + 1) - 1 = n
    BY <2>2
  <2> QED BY <2>1, <2>2, <2>3
<1>2. f <= n /\ was \in Seq(WholeItems)
  BY <1>1, WholeIsRead
<1>l. Legible(next)
  OBVIOUS
<1> HIDE DEF next, n
<1>3. now \in Seq(WholeItems)
  BY <1>1, <1>l, WholeIsRead
<1>4. Grows(next, f, n)
  BY <1>1, <1>l, Growing
<1>5. DecodeLog(base) = Reading(next, f, n)
  <2>1. n <= Len(next)
    BY <1>1
  <2>2. DecodeLog(SubSeq(next, 1, n)) = Reading(next, f, n)
    BY <1>1, <1>2, <2>1, PrefixIsReading
  <2> QED BY <1>1, <2>2
<1>6. DecodeLog(next) = Reading(next, f, n + 1)
  BY <1>1, DecodeIsReading
<1>7. /\ IsItem(record) => \E item \in WholeItems :
                             /\ now = Append(was, item)
                             /\ record.item.kind # "status" => item = record.item
                             /\ item.kind = record.item.kind
      /\ ~IsItem(record) => now = was
  BY <1>1, <1>4, <1>5, <1>6 DEF Grows
<1> HIDE DEF was, now, f
<1>8. Len(was) \in Nat
  BY <1>2, LenProperties
<1>9. CASE IsItem(record)
  <2>1. PICK item \in WholeItems : /\ now = Append(was, item)
                                   /\ record.item.kind # "status" => item = record.item
                                   /\ item.kind = record.item.kind
    BY <1>7, <1>9
  <2>2. /\ Len(now) = Len(was) + 1 /\ now[Len(was) + 1] = item
        /\ \A i \in 1 .. Len(was) : now[i] = was[i]
    BY <1>2, <2>1, AppendProperties
  <2>3. OneMore(now, was, record.item)
    BY <2>1, <2>2 DEF OneMore, IsNamed
  <2> QED BY <1>2, <1>3, <1>8, <1>9, <2>3 DEF now, was, next
<1>10. CASE ~IsItem(record)
  BY <1>2, <1>3, <1>7, <1>8, <1>10 DEF now, was, next
<1> QED BY <1>9, <1>10

\* A branch is of a prompt and a turn that were used.
BranchKnown(b, ids) == b # None => b.prompt \in ids /\ b.turn \in ids

\* The item that is about to be added has a name of its own.
ItemNew(s, items, ids, b) ==
  s # None /\ s.phase # "sync" /\ IsItem(s.record) =>
    Known(s.record.item, ids) /\ NewName(s.record.item, items, b)

\* What is true of names in every reachable state: alone it is not inductive, it takes that
\* the file can be read (FileInv).
BranchInv ==
  /\ NamesRight(Whole.items, used)
  /\ TurnFirst(Whole.items, branch)
  /\ BranchKnown(branch, used)
  /\ ItemNew(step, Whole.items, used, branch)

\* The file is of records, and legible.
FileParts == file.records \in Seq(Records) /\ Legible(file.records)

LEMMA FilePartsIf == FileInv => FileParts
BY DEF FileInv, FileRight, Files, FileParts

\* The file of a session and what was used at first.
LEMMA ItemsAtFirst ==
  ASSUME NEW records \in Seq(Records), Legible(records)
  PROVE  LET items == DecodeLog(records).items
         IN \A i \in 1 .. Len(items) : Known(items[i], IDs(records))
<1> DEFINE f == LastFork(records)
           n == Len(records)
           Found(k) == LET items == Reading(records, f, k).items
                       IN /\ items \in Seq(WholeItems)
                          /\ \A i \in 1 .. Len(items) : Known(items[i], IDs(records))
           S == {k \in Nat : k <= n => Found(k)}
<1>0. Parts(records, f, n)
  BY LegibleParts
<1>g. \A k \in Nat : k + 1 <= n => Grows(records, f, k)
  BY Growing
<1> HIDE DEF f, n
<1>1. n \in Nat /\ n = Len(records) /\ DecodeLog(records) = Reading(records, f, n) /\ f \in Nat
  BY <1>0 DEF Parts
<1>2. 0 \in S
  <2>1. Reading(records, f, 0) = Read0
    BY <1>1, ReadingSteps
  <2>2. Read0.items = <<>>
    BY DEF Read0
  <2>3. <<>> \in Seq(WholeItems) /\ Len(<<>>) = 0
    BY EmptySeq
  <2> DEFINE items == Reading(records, f, 0).items
  <2>4. items = <<>>
    BY <2>1, <2>2
  <2> HIDE DEF items
  <2>5. items \in Seq(WholeItems) /\ \A i \in 1 .. Len(items) : Known(items[i], IDs(records))
    BY <2>3, <2>4
  <2>6. Found(0)
    BY <2>5 DEF items
  <2> HIDE DEF Found
  <2> QED BY <2>6
<1>3. ASSUME NEW k \in Nat, k \in S PROVE k + 1 \in S
  <2>1. SUFFICES ASSUME k + 1 <= n PROVE Found(k + 1)
    OBVIOUS
  <2> DEFINE a == Reading(records, f, k).items
             b == Reading(records, f, k + 1).items
             record == records[k + 1]
  <2>2. Found(k)
    BY <1>1, <1>3, <2>1
  <2>3. Grows(records, f, k)
    BY <1>g, <2>1
  <2>4. /\ IsItem(record) => \E item \in WholeItems :
                               /\ b = Append(a, item) /\ item.kind = record.item.kind
                               /\ record.item.kind # "status" => item = record.item
        /\ ~IsItem(record) => b = a
    BY <2>3 DEF Grows
  <2>5. a \in Seq(WholeItems) /\ \A i \in 1 .. Len(a) : Known(a[i], IDs(records))
    BY <2>2
  <2>6. k + 1 \in 1 .. n
    BY <1>1, <2>1
  <2> HIDE DEF a, b, record
  <2>7. CASE IsItem(record)
    <3>1. PICK item \in WholeItems : /\ b = Append(a, item) /\ item.kind = record.item.kind
                                     /\ record.item.kind # "status" => item = record.item
      BY <2>4, <2>7
    <3>2. Known(item, IDs(records))
      <4>1. k + 1 \in {j \in 1..Len(records) : IsItem(records[j])}
        BY <1>1, <2>6, <2>7 DEF record
      <4> DEFINE it == records[k + 1].item
                 ids == CASE it.kind = "input" -> {it.id}
                          [] it.kind = "turn" -> {it.turn}
                          [] it.kind = "response" -> {Answer(it.turn)}
                          [] it.kind = "status" -> {it.op}
                          [] OTHER -> {}
      <4>2. ids \subseteq IDs(records)
        BY <4>1 DEF IDs
      <4>3. it.kind = "input" => it.id \in ids
        OBVIOUS
      <4>4. it.kind = "turn" => it.turn \in ids
        OBVIOUS
      <4>5. it = record.item
        BY DEF record
      <4> HIDE DEF ids, it
      <4> QED BY <3>1, <4>2, <4>3, <4>4, <4>5 DEF Known
    <3>3. /\ b \in Seq(WholeItems) /\ Len(b) = Len(a) + 1 /\ b[Len(a) + 1] = item
          /\ \A i \in 1 .. Len(a) : b[i] = a[i]
      BY <2>5, <3>1, AppendProperties
    <3>4. Len(a) \in Nat
      BY <2>5, LenProperties
    <3>5. \A i \in 1 .. Len(b) : Known(b[i], IDs(records))
      <4>1. \A i \in 1 .. Len(b) : i \in 1 .. Len(a) \/ i = Len(a) + 1
        BY <3>3, <3>4
      <4> QED BY <2>5, <3>2, <3>3, <4>1
    <3> QED BY <3>3, <3>5 DEF b
  <2>8. CASE ~IsItem(record)
    BY <2>4, <2>5, <2>8 DEF b
  <2> QED BY <2>7, <2>8
<1> HIDE DEF S
<1>4. n \in S
  BY <1>1, <1>2, <1>3, NatSetInduction
<1>5. Found(n)
  BY <1>1, <1>4 DEF S
<1> QED BY <1>1, <1>5

\* Init establishes it.
LEMMA BranchInvInit == Init => BranchInv
<1> SUFFICES ASSUME Init PROVE BranchInv
  OBVIOUS
<1>1. PICK id \in Inodes, records \in Histories :
        /\ file = [records |-> records, torn |-> FALSE, id |-> id, mtime |-> 0]
        /\ used = IDs(records)
  BY DEF Init
<1>2. records \in Seq(Records) /\ Legible(records) /\ NamedOnce(DecodeLog(records).items)
  BY HistoriesAssumption DEF Legible
<1>3. step = None /\ branch = None
  BY DEF Init
<1>4. file.records = records
  BY <1>1
<1>5. \A i \in 1 .. Len(DecodeLog(records).items) : Known(DecodeLog(records).items[i], IDs(records))
  BY <1>2, ItemsAtFirst
<1>6. NamesRight(DecodeLog(records).items, used)
  BY <1>1, <1>2, <1>5 DEF NamesRight
<1> QED BY <1>3, <1>4, <1>6 DEF BranchInv, Whole, TurnFirst, BranchKnown, ItemNew

\* A file with nothing new in it.
LEMMA BranchInvWithin ==
  ASSUME BranchInv, Within(Whole'.items, Whole.items), used' = used, branch' = branch,
         step' = None \/ (step' = step) \/ (step # None /\ step' # None /\ step'.record = step.record
                                              /\ step.phase # "sync")
  PROVE  BranchInv'
<1> DEFINE now == Whole'.items
           was == Whole.items
<1>1. NamesRight(was, used) /\ TurnFirst(was, branch) /\ ItemNew(step, was, used, branch)
      /\ Within(now, was) /\ BranchKnown(branch, used)
  BY DEF BranchInv
<1> HIDE DEF was, now
<1>2. /\ NamesRight(now, used) /\ TurnFirst(now, branch)
      /\ \A item : NewName(item, was, branch) => NewName(item, now, branch)
  BY <1>1, NamesWithin
<1>3. ItemNew(step', now, used, branch)
  BY <1>1, <1>2 DEF ItemNew
<1>4. now = Whole.items'
  BY DEF now
<1> QED BY <1>1, <1>2, <1>3, <1>4 DEF BranchInv

LEMMA SameWithin == ASSUME NEW items PROVE Within(items, items)
BY DEF Within

\* A step that leaves the records alone keeps it,
LEMMA BranchInvQuiet ==
  ASSUME BranchInv, file'.records = file.records, used' = used, branch' = branch,
         step' = None \/ (step' = step) \/ (step # None /\ step' # None /\ step'.record = step.record
                                              /\ step.phase # "sync")
  PROVE  BranchInv'
<1>1. Whole'.items = Whole.items
  BY DEF Whole
<1>2. Within(Whole'.items, Whole.items)
  BY <1>1, SameWithin
<1> QED BY <1>2, BranchInvWithin

\* so does a step that begins to append an item with a new name,
LEMMA BranchInvAppend ==
  ASSUME BranchInv, NEW record, NEW head, BeginAppend(record, head),
         NEW ids, used \subseteq ids, used' = ids,
         IsItem(record) => Known(record.item, ids) /\ NewName(record.item, Whole.items, branch)
  PROVE  BranchInv'
<1> DEFINE was == Whole.items
<1>1. file' = file /\ branch' = branch
  BY DEF BeginAppend
<1>2. /\ step' = [record |-> record, head |-> head, size |-> WriteState.size, phase |-> "truncate"]
  BY DEF BeginAppend
<1>3. step'.record = record
  BY <1>2
<1>4. Whole.items' = was
  BY <1>1 DEF Whole
<1>5. NamesRight(was, used) /\ TurnFirst(was, branch) /\ BranchKnown(branch, used)
  BY DEF BranchInv
<1>6. IsItem(record) => Known(record.item, ids) /\ NewName(record.item, was, branch)
  OBVIOUS
<1> HIDE DEF was
<1>7. NamesRight(was, ids) /\ BranchKnown(branch, ids)
  BY <1>5 DEF NamesRight, Known, BranchKnown
<1>8. ItemNew(step', was, ids, branch)
  BY <1>3, <1>6 DEF ItemNew
<1> QED BY <1>1, <1>4, <1>5, <1>7, <1>8 DEF BranchInv

\* An item without a name.
LEMMA Nameless ==
  ASSUME NEW item, ~IsNamed(item), NEW ids, NEW items, NEW b
  PROVE  Known(item, ids) /\ NewName(item, items, b)
BY DEF IsNamed, Known, NewName, SameName, IsInput, IsTurn

\* An input is appended by an ID that was not used,
LEMMA BranchInvAppendInput ==
  ASSUME BranchInv, NEW id \in Prompts \cup Settings, AppendInput(id)
  PROVE  BranchInv'
<1> DEFINE item == InputItem(id)
           record == ItemRecord(WriteState.head.seq + 1, item)
           ids == used \cup {id}
<1>1. /\ id \notin used /\ used' = ids
      /\ BeginAppend(record, AddItem(WriteState.head, item))
  BY DEF AppendInput, BeginItem, InputItem
<1>2. IsItem(record) /\ record.item = item /\ item.kind = "input" /\ item.id = id
  BY DEF ItemRecord, IsItem, InputItem
<1> HIDE DEF item, record
<1>3. Known(item, ids)
  BY <1>2 DEF Known
<1>4. NewName(item, Whole.items, branch)
  BY <1>1, <1>2 DEF BranchInv, NamesRight, Known, BranchKnown, NewName, SameName, IsInput, IsTurn
<1>5. used \subseteq ids
  OBVIOUS
<1> HIDE DEF ids
<1> QED BY <1>1, <1>2, <1>3, <1>4, <1>5, BranchInvAppend

\* so is a turn.
LEMMA BranchInvAppendTurn ==
  ASSUME BranchInv, NEW turn \in Turns, AppendTurn(turn)
  PROVE  BranchInv'
<1> DEFINE item == TurnItem(turn, WriteState.head.latest)
           record == ItemRecord(WriteState.head.seq + 1, item)
           ids == used \cup {turn}
<1>1. /\ turn \notin used /\ used' = ids
      /\ BeginAppend(record, AddItem(WriteState.head, item))
  BY DEF AppendTurn, BeginItem, TurnItem
<1>2. IsItem(record) /\ record.item = item /\ item.kind = "turn" /\ item.turn = turn
  BY DEF ItemRecord, IsItem, TurnItem
<1> HIDE DEF item, record
<1>3. Known(item, ids)
  BY <1>2 DEF Known
<1>4. NewName(item, Whole.items, branch)
  BY <1>1, <1>2 DEF BranchInv, NamesRight, Known, BranchKnown, NewName, SameName, IsInput, IsTurn
<1>5. used \subseteq ids
  OBVIOUS
<1> HIDE DEF ids
<1> QED BY <1>1, <1>2, <1>3, <1>4, <1>5, BranchInvAppend

\* A record that names nothing.
LEMMA BranchInvNameless ==
  ASSUME BranchInv, NEW record, NEW head, BeginAppend(record, head),
         NEW ids, used \subseteq ids, used' = ids, IsItem(record) => ~IsNamed(record.item)
  PROVE  BranchInv'
<1>1. IsItem(record) => Known(record.item, ids) /\ NewName(record.item, Whole.items, branch)
  BY Nameless
<1> QED BY <1>1, BranchInvAppend

LEMMA BranchInvNamelessItem ==
  ASSUME BranchInv, NEW item, BeginItem(item), NEW ids, used \subseteq ids, used' = ids, ~IsNamed(item)
  PROVE  BranchInv'
<1> DEFINE record == ItemRecord(WriteState.head.seq + 1, item)
           head == AddItem(WriteState.head,
                     IF item.kind = "status" /\ item.value = Saved
                     THEN [item EXCEPT !.value = WriteState.head.ops[item.op]] ELSE item)
<1>1. BeginAppend(record, head)
  BY DEF BeginItem
<1>2. record.item = item
  BY DEF ItemRecord
<1> HIDE DEF record, head
<1> QED BY <1>1, <1>2, BranchInvNameless

\* Every step of the store keeps it,
LEMMA BranchInvStore ==
  ASSUME FileInv, BranchInv, StoreStep
  PROVE  BranchInv'
<1>1. CASE \E id \in Prompts \cup Settings : AppendInput(id)
  BY <1>1, BranchInvAppendInput
<1>2. CASE \E turn \in Turns : AppendTurn(turn)
  BY <1>2, BranchInvAppendTurn
<1>3. ASSUME NEW turn \in Turns, AppendModelResponse(turn) PROVE BranchInv'
  <2> DEFINE item == ResponseItem(turn)
             ids == used \cup {Answer(turn)}
  <2>1. BeginItem(item) /\ used' = ids
    BY <1>3 DEF AppendModelResponse
  <2>2. ~IsNamed(item)
    BY DEF ResponseItem, IsNamed
  <2>3. used \subseteq ids
    OBVIOUS
  <2> HIDE DEF item, ids
  <2> QED BY <2>1, <2>2, <2>3, BranchInvNamelessItem
<1>4. ASSUME NEW turn \in Turns, NEW op \in Ops, BeginOperation(turn, op) PROVE BranchInv'
  <2> DEFINE item == StatusItem(turn, op, Value("ready"))
             ids == used \cup {op}
  <2>1. BeginItem(item) /\ used' = ids
    BY <1>4 DEF BeginOperation
  <2>2. ~IsNamed(item)
    BY DEF StatusItem, IsNamed
  <2>3. used \subseteq ids
    OBVIOUS
  <2> HIDE DEF item, ids
  <2> QED BY <2>1, <2>2, <2>3, BranchInvNamelessItem
<1>5. ASSUME NEW turn \in Turns, NEW op \in Ops, AppendToolCallStatus(turn, op) PROVE BranchInv'
  <2> DEFINE value == IF WriteState.head.ops[op] = FullValue(op) THEN Saved ELSE FullValue(op)
             item == StatusItem(turn, op, value)
  <2>1. BeginItem(item) /\ used' = used
    BY <1>5 DEF AppendToolCallStatus
  <2> HIDE DEF value
  <2>2. ~IsNamed(item)
    BY DEF StatusItem, IsNamed
  <2> HIDE DEF item
  <2> QED BY <2>1, <2>2, BranchInvNamelessItem
<1>6. ASSUME NEW op \in Ops, NEW status \in {"awaiting", "completed"}, SaveOperationStatus(op, status)
      PROVE BranchInv'
  <2> DEFINE record == OperationRecord(op, Value(status))
             head == SaveOperation(WriteState.head, op, Value(status))
  <2>1. BeginAppend(record, head) /\ used' = used
    BY <1>6 DEF SaveOperationStatus
  <2>2. ~IsItem(record)
    BY DEF OperationRecord, IsItem
  <2> HIDE DEF record, head
  <2> QED BY <2>1, <2>2, BranchInvNameless
<1>7. CASE SaveCheckpoint
  <2> DEFINE located == IF WriteState.head.located THEN WriteState.head
                        ELSE LocateOperations(WriteState.head, UpTo(file, WriteState.size))
             record == CheckpointRecord(WriteState.size + 1, CheckpointHead(located))
  <2>1. BeginAppend(record, located) /\ used' = used
    BY <1>7 DEF SaveCheckpoint
  <2>2. ~IsItem(record)
    BY DEF CheckpointRecord, IsItem
  <2> HIDE DEF record, located
  <2> QED BY <2>1, <2>2, BranchInvNameless
<1>8. CASE Truncate
  <2>1. /\ step # None /\ step.phase = "truncate" /\ step' = [step EXCEPT !.phase = "write"]
        /\ used' = used /\ branch' = branch
    BY <1>8 DEF Truncate
  <2>2. file.records \in Seq(Records) /\ Len(file.records) = step.size /\ step \in Steps
        /\ file \in Files
    BY <2>1 DEF FileInv, FileRight, StepRight, Files
  <2>3. step'.record = step.record /\ step' # None
    BY <2>1, <2>2, NoneAssumption DEF Steps
  <2>4. file'.records = file.records
    BY <1>8, <2>2, TruncatesNothing
  <2> QED BY <2>1, <2>3, <2>4, BranchInvQuiet
<1>9. CASE WriteRecord
  <2> DEFINE was == Whole.items
             now == DecodeLog(Append(file.records, step.record)).items
  <2>1. /\ step # None /\ step.phase = "write" /\ step' = [step EXCEPT !.phase = "sync"]
        /\ used' = used /\ branch' = branch
    BY <1>9 DEF WriteRecord
  <2>2. /\ step \in Steps /\ ~file.torn /\ file \in Files
        /\ Pending(file.records, step.record, step.head, used)
    BY <2>1 DEF FileInv, FileRight, StepRight
  <2>3. step'.phase = "sync"
    BY <2>1, <2>2 DEF Steps
  <2>4. file'.records = Append(file.records, step.record)
    BY <1>9, <2>2, WritesTheRecord
  <2>5. /\ file.records \in Seq(Records) /\ step.record \in Records /\ ~IsFork(step.record)
        /\ Legible(file.records) /\ Legible(Append(file.records, step.record))
    BY <2>2 DEF Pending
  <2>6. /\ IsItem(step.record) => OneMore(now, was, step.record.item)
        /\ ~IsItem(step.record) => now = was
        /\ Len(was) \in Nat
    BY <2>5, ItemsGrow DEF Whole
  <2>7. /\ NamesRight(was, used) /\ TurnFirst(was, branch) /\ BranchKnown(branch, used)
        /\ IsItem(step.record) =>
             Known(step.record.item, used) /\ NewName(step.record.item, was, branch)
    BY <2>1 DEF BranchInv, ItemNew
  <2>8. Whole.items' = now
    BY <2>4 DEF Whole
  <2> HIDE DEF was, now
  <2>9. NamesRight(now, used) /\ TurnFirst(now, branch)
    BY <2>6, <2>7, NamesOneMore
  <2>10. ItemNew(step', now, used, branch)
    BY <2>3 DEF ItemNew
  <2> QED BY <2>1, <2>7, <2>8, <2>9, <2>10 DEF BranchInv
<1>10. CASE Sync
  BY <1>10, BranchInvQuiet DEF Sync
<1>11. CASE AppendFails
  <2>1. file'.records = file.records
    BY <1>11, FailsWithout
  <2> QED BY <1>11, <2>1, BranchInvQuiet DEF AppendFails
<1> QED BY <1>1, <1>2, <1>3, <1>4, <1>5, <1>6, <1>7, <1>8, <1>9, <1>10, <1>11 DEF StoreStep

\* a crash,
LEMMA BranchInvStop ==
  ASSUME FileInv, BranchInv, Stop
  PROVE  BranchInv'
<1>1. step' = None /\ used' = used /\ branch' = branch
  BY DEF Stop
<1>2. CASE file'.records = file.records
  BY <1>1, <1>2, BranchInvQuiet
<1>3. CASE step # None /\ step.phase = "sync" /\ file'.records = Front(file.records)
  <2> DEFINE base == Front(file.records)
             now == DecodeLog(base).items
             was == DecodeLog(file.records).items
  <2>1. file.records = Append(base, step.record) /\ Pending(base, step.record, step.head, used)
    BY <1>3 DEF FileInv, StepRight
  <2>2. /\ base \in Seq(Records) /\ step.record \in Records /\ ~IsFork(step.record)
        /\ Legible(base) /\ Legible(Append(base, step.record))
    BY <2>1 DEF Pending
  <2> HIDE DEF base
  <2>3. /\ IsItem(step.record) => OneMore(was, now, step.record.item)
        /\ ~IsItem(step.record) => was = now
        /\ Len(now) \in Nat
    BY <2>1, <2>2, ItemsGrow
  <2>4. Whole'.items = now /\ Whole.items = was
    BY <1>3 DEF Whole, base
  <2> HIDE DEF now, was
  <2>5. Within(now, was)
    BY <2>3 DEF OneMore, Within
  <2> QED BY <1>1, <2>4, <2>5, BranchInvWithin
<1> QED BY <1>2, <1>3, StopsWith

\* All but the last of a sequence.
LEMMA FrontIs ==
  ASSUME NEW S, NEW s \in Seq(S), Len(s) # 0
  PROVE  /\ Front(s) \in Seq(S) /\ Len(Front(s)) = Len(s) - 1
         /\ \A i \in 1 .. Len(s) - 1 : Front(s)[i] = s[i]
         /\ Last(s) = s[Len(s)]
<1>1. Len(s) \in Nat
  BY LenProperties
<1>2. Front(s) = SubSeq(s, 1, Len(s) - 1) /\ Last(s) = s[Len(s)]
  BY DEF Front, Last
<1> DEFINE n == Len(s) - 1
           c == SubSeq(s, 1, n)
<1>3. n \in Nat /\ Len(s) = n + 1
  BY <1>1
<1> HIDE DEF n
<1>4. c \in Seq(S) /\ Len(c) = n /\ \A i \in 1 .. n : c[i] = s[i]
  <2>1. 1 \in 1 .. Len(s) + 1 /\ n \in 0 .. Len(s)
    BY <1>3
  <2> QED BY <1>3, <2>1, SubSeqProperties
<1> QED BY <1>2, <1>4 DEF n, c

\* What is left has nothing new.
LEMMA LeftIsWithin ==
  ASSUME NEW now \in Seq(WholeItems), NEW was \in Seq(WholeItems), Left(now, was) \in Nat
  PROVE  Within(now, was)
<1>1. CASE IsPrefix(now, was)
  <2>1. Begins(now, was)
    BY <1>1, PrefixIsBeginning
  <2>2. Len(now) \in Nat /\ Len(was) \in Nat
    BY LenProperties
  <2> QED BY <2>1, <2>2 DEF Begins, Within
<1>2. CASE ~IsPrefix(now, was)
  <2>1. Last(now).kind = "fork" /\ IsPrefix(Front(now), was)
    <3>1. Left(now, was) = IF Last(now).kind = "fork" /\ IsPrefix(Front(now), was)
                           THEN Len(now) - 1 ELSE -1
      BY <1>2 DEF Left
    <3>2. -1 \notin Nat
      OBVIOUS
    <3> QED BY <3>1, <3>2
  <2> DEFINE n == Len(now)
             front == Front(now)
  <2>2. n \in Nat /\ n # 0
    <3>1. n \in Nat
      BY LenProperties
    <3>2. now # <<>>
      <4>1. IsPrefix(<<>>, was)
        <5>1. <<>> \in Seq(WholeItems) /\ Len(<<>>) = 0
          BY EmptySeq
        <5>2. Len(was) \in Nat
          BY LenProperties
        <5>3. Begins(<<>>, was)
          BY <5>1, <5>2 DEF Begins
        <5> QED BY <5>1, <5>3, PrefixIsBeginning
      <4> QED BY <1>2, <4>1
    <3> QED BY <3>1, <3>2, EmptySeq
  <2>3. /\ front \in Seq(WholeItems) /\ Len(front) = n - 1
        /\ \A i \in 1 .. n - 1 : front[i] = now[i]
        /\ Last(now) = now[n]
    BY <2>2, FrontIs
  <2> HIDE DEF front, n
  <2>4. Begins(front, was)
    BY <2>1, <2>3, PrefixIsBeginning DEF front
  <2>5. Len(was) \in Nat
    BY LenProperties
  <2>6. ASSUME NEW i \in 1 .. n, IsNamed(now[i]) PROVE i \in 1 .. Len(was) /\ now[i] = was[i]
    <3>1. i # n
      BY <2>1, <2>3, <2>6 DEF IsNamed
    <3>2. i \in 1 .. n - 1
      BY <2>2, <3>1
    <3> QED BY <2>2, <2>3, <2>4, <2>5, <3>2 DEF Begins
  <2> QED BY <2>6 DEF Within, n
<1> QED BY <1>1, <1>2

\* a rewind,
LEMMA BranchInvRewind ==
  ASSUME FileInv, BranchInv, NEW prompt \in Prompts, Rewind(prompt)
  PROVE  BranchInv'
<1>1. step' = step /\ used' = used /\ branch' = branch
  BY DEF Rewind, runner
<1> DEFINE now == DecodeLog(file'.records).items
           was == DecodeLog(file.records).items
<1>2. Rewound(file.records, prompt, file'.records)
  BY RewindsTo
<1>3. /\ file'.records \in Seq(Records) /\ Legible(file'.records) /\ Left(now, was) \in Nat
  BY <1>2 DEF Rewound
<1>4. file.records \in Seq(Records) /\ Legible(file.records)
  BY FilePartsIf DEF FileParts
<1>5. now \in Seq(WholeItems) /\ was \in Seq(WholeItems)
  BY <1>3, <1>4, WholeIsRead
<1>6. Whole'.items = now /\ Whole.items = was
  BY DEF Whole
<1> HIDE DEF now, was
<1>7. Within(now, was)
  BY <1>3, <1>5, LeftIsWithin
<1> QED BY <1>1, <1>6, <1>7, BranchInvWithin

\* The turn before a prompt is before it.
LEMMA TurnBeforeIs ==
  ASSUME NEW items \in Seq(WholeItems), NamedOnce(items), NEW prompt, HasPrompt(items, prompt),
         TurnBefore(items, prompt) # None
  PROVE  /\ \E i \in 1 .. Len(items) : IsInput(items[i], prompt)
         /\ \E i \in 1 .. Len(items) : IsTurn(items[i], TurnBefore(items, prompt))
         /\ \A i, j \in 1 .. Len(items) :
              IsInput(items[i], prompt) /\ IsTurn(items[j], TurnBefore(items, prompt)) => j < i
<1> DEFINE n == Len(items)
           at == CHOOSE i \in 1 .. n : items[i] = InputItem(prompt)
           turns == {i \in 1 .. at : items[i].kind = "turn"}
           last == Max(turns)
           turn == TurnBefore(items, prompt)
<1>1. n \in Nat /\ at \in 1 .. n /\ items[at] = InputItem(prompt)
  BY LenProperties DEF HasPrompt
<1>2. IsInput(items[at], prompt)
  BY <1>1 DEF InputItem, IsInput
<1>3. turn = IF turns = {} THEN None ELSE items[last].turn
  BY DEF TurnBefore
<1>4. turns # {} /\ turn = items[last].turn
  BY <1>3
<1>o. NamedOnce(items)
  OBVIOUS
<1> HIDE DEF n, at, turn
<1>5. turns \in SUBSET (1 .. at) /\ at \in Nat
  BY <1>1
<1>6. last \in turns
  <2> HIDE DEF turns
  <2> QED BY <1>4, <1>5, LastPlace
<1> HIDE DEF last
<1>7. last \in 1 .. at /\ items[last].kind = "turn" /\ last \in 1 .. n
  BY <1>1, <1>6
<1>8. IsTurn(items[last], turn)
  BY <1>4, <1>7 DEF IsTurn
<1>9. last # at
  BY <1>2, <1>7 DEF IsInput
<1>10. last < at
  BY <1>1, <1>7, <1>9
<1>11. ASSUME NEW i \in 1 .. n, NEW j \in 1 .. n, IsInput(items[i], prompt), IsTurn(items[j], turn)
       PROVE  j < i
  <2>1. i = at
    <3>1. SameName(items[i], items[at])
      BY <1>2, <1>11 DEF SameName, IsInput
    <3> QED BY <1>1, <1>o, <3>1 DEF NamedOnce, n
  <2>2. j = last
    <3>1. SameName(items[j], items[last])
      BY <1>8, <1>11 DEF SameName, IsTurn
    <3> QED BY <1>7, <1>o, <3>1 DEF NamedOnce, n
  <2> QED BY <1>10, <2>1, <2>2
<1> QED BY <1>1, <1>2, <1>7, <1>8, <1>11 DEF n, turn

\* the scan for the turn of a branch,
LEMMA BranchInvScan ==
  ASSUME FileInv, BranchInv, NEW prompt \in Prompts, BranchScan(prompt)
  PROVE  BranchInv'
<1> DEFINE items == Whole.items
           turn == TurnBefore(items, prompt)
<1>1. /\ HasPrompt(items, prompt) /\ turn # None
      /\ branch' = [prompt |-> prompt, turn |-> turn]
      /\ file' = file /\ used' = used /\ step' = step
  BY DEF BranchScan, Whole, runner
<1>2. ItemNew(step, items, used, branch)
  BY DEF BranchInv
<1>3. items \in Seq(WholeItems)
  BY FilePartsIf, WholeIsRead DEF FileParts, Whole
<1>4. NamesRight(items, used)
  BY DEF BranchInv
<1>5. Whole.items' = items
  BY <1>1 DEF Whole
<1> HIDE DEF items
<1>6. /\ \E i \in 1 .. Len(items) : IsInput(items[i], prompt)
      /\ \E i \in 1 .. Len(items) : IsTurn(items[i], turn)
      /\ \A i, j \in 1 .. Len(items) : IsInput(items[i], prompt) /\ IsTurn(items[j], turn) => j < i
  BY <1>1, <1>3, <1>4, TurnBeforeIs DEF NamesRight
<1> HIDE DEF turn
<1>7. branch'.prompt = prompt /\ branch'.turn = turn
  BY <1>1
<1>8. TurnFirst(items, branch')
  BY <1>6, <1>7 DEF TurnFirst
<1>9. BranchKnown(branch', used)
  BY <1>4, <1>6, <1>7 DEF BranchKnown, NamesRight, Known, IsInput, IsTurn
<1>10. ItemNew(step', items, used, branch')
  BY <1>1, <1>2, <1>6, <1>7 DEF ItemNew, NewName, SameName, IsInput, IsTurn
<1> QED BY <1>1, <1>4, <1>5, <1>8, <1>9, <1>10 DEF BranchInv

\* What a branch is given.
LEMMA BranchIsWithin ==
  ASSUME NEW items \in Seq(WholeItems), NEW turn, NEW b \in 1 .. Len(items),
         NEW rest, Branched(items, turn, b, rest)
  PROVE  Within(DecodeLog(rest).items, items)
<1> DEFINE now == DecodeLog(rest).items
<1>1. /\ Len(now) = b + 1 /\ now[b + 1] = ForkItem(turn)
      /\ \A i \in 1 .. b : now[i] = WithoutOperations(items[i])
  BY DEF Branched
<1>2. Len(items) \in Nat /\ b \in Nat /\ \A i \in 1 .. b : i \in 1 .. Len(items) /\ items[i] \in WholeItems
  <2>1. Len(items) \in Nat /\ \A i \in 1 .. Len(items) : items[i] \in WholeItems
    BY LenProperties, ElementOfSeq
  <2> QED BY <2>1
<1>3. now[b + 1].kind = "fork"
  BY <1>1 DEF ForkItem
<1> HIDE DEF now
<1>4. ASSUME NEW i \in 1 .. Len(now), IsNamed(now[i]) PROVE i \in 1 .. Len(items) /\ now[i] = items[i]
  <2>1. i \in 1 .. b
    BY <1>1, <1>2, <1>3, <1>4 DEF IsNamed
  <2>2. /\ WithoutOperations(items[i]).kind = items[i].kind
        /\ items[i].kind # "status" => WithoutOperations(items[i]) = items[i]
    BY <1>2, <2>1, BareItem
  <2> QED BY <1>1, <1>2, <1>4, <2>1, <2>2 DEF IsNamed
<1> QED BY <1>4 DEF Within, now

\* the file that is copied for it,
LEMMA BranchInvFork ==
  ASSUME FileInv, BranchInv, BranchFork
  PROVE  BranchInv'
<1>1. branch' = None /\ used' = used
  BY DEF BranchFork
<1> DEFINE was == Whole.items
           now == DecodeLog(file'.records).items
<1>2. NamesRight(was, used)
  BY DEF BranchInv
<1>3. Within(now, was) /\ (step' = None \/ step' = step)
  <2>1. CASE file' # file
    <3> DEFINE b == Boundary(was, branch.turn)
    <3>1. Branched(was, branch.turn, b, file'.records) /\ b # 0 /\ step' = None
      BY <2>1, BranchesTo DEF Whole
    <3>2. was \in Seq(WholeItems)
      BY FilePartsIf, WholeIsRead DEF FileParts, Whole
    <3> HIDE DEF was
    <3>3. b \in 1 .. Len(was)
      BY <3>1, <3>2, BoundaryIs DEF BoundaryAt
    <3> HIDE DEF b
    <3> QED BY <3>1, <3>2, <3>3, BranchIsWithin
  <2>2. CASE file' = file
    <3>1. now = was
      BY <2>2 DEF Whole
    <3>2. step' = None \/ step' = step
      BY DEF BranchFork, runner
    <3> QED BY <3>1, <3>2, SameWithin
  <2> QED BY <2>1, <2>2
<1>4. Whole.items' = now
  BY DEF Whole
<1> HIDE DEF was, now
<1>5. TurnFirst(was, None)
  BY DEF TurnFirst
<1>6. NamesRight(now, used) /\ TurnFirst(now, None)
        /\ \A item : NewName(item, was, None) => NewName(item, now, None)
  BY <1>2, <1>3, <1>5, NamesWithin
<1>7. ItemNew(step', now, used, None)
  <2>1. ItemNew(step, was, used, branch)
    BY DEF BranchInv, was
  <2>2. ItemNew(step, was, used, None)
    BY <2>1 DEF ItemNew, NewName
  <2> QED BY <1>3, <1>6, <2>2 DEF ItemNew
<1> QED BY <1>1, <1>4, <1>6, <1>7 DEF BranchInv, BranchKnown

\* and every other step.
LEMMA BranchInvNext ==
  ASSUME FileInv, BranchInv, [Next]_vars
  PROVE  BranchInv'
<1>1. CASE Start
  BY <1>1, BranchInvQuiet DEF Start, runner
<1>2. CASE Stop
  BY <1>2, BranchInvStop
<1>3. CASE \E forResume \in BOOLEAN : ReadSession(forResume)
  BY <1>3, BranchInvQuiet DEF ReadSession
<1>4. CASE StoreStep
  BY <1>4, BranchInvStore
<1>5. CASE \E prompt \in Prompts : Preview(prompt) \/ Rewind(prompt) \/ BranchScan(prompt)
  <2>1. ASSUME NEW prompt \in Prompts, Preview(prompt) PROVE BranchInv'
    BY <2>1, BranchInvQuiet DEF Preview, runner
  <2> QED BY <1>5, <2>1, BranchInvRewind, BranchInvScan
<1>6. CASE BranchFork
  BY <1>6, BranchInvFork
<1>7. CASE LoadBegin \/ LoadEnd
  BY <1>7, BranchInvQuiet DEF LoadBegin, LoadEnd, runner
<1>8. CASE UNCHANGED vars
  BY <1>8, BranchInvQuiet DEF vars, runner
<1> QED BY <1>1, <1>2, <1>3, <1>4, <1>5, <1>6, <1>7, <1>8 DEF Next

\* What an item without its operation is still recognised by.
LEMMA WithoutOperationsAlike ==
  ASSUME NEW item \in WholeItems, NEW b
  PROVE  LET bare == WithoutOperations(item)
         IN /\ bare.kind = "turn" <=> item.kind = "turn"
            /\ IsTurn(item, b) => IsTurn(bare, b)
            /\ OfTurn(item, b) => OfTurn(bare, b)
            /\ \A prompt : bare = InputItem(prompt) => IsInput(item, prompt)
<1> DEFINE bare == WithoutOperations(item)
<1>1. /\ bare.kind = item.kind
      /\ item.kind # "status" => bare = item
      /\ item.kind = "status" => bare.turn = item.turn
  BY BareItem
<1> HIDE DEF bare
<1>2. \A prompt : bare = InputItem(prompt) => IsInput(item, prompt)
  BY <1>1 DEF InputItem, IsInput
<1> QED BY <1>1, <1>2 DEF IsTurn, OfTurn, bare

\* What a branch ends with.
BranchEnds ==
  LET was == [i \in DOMAIN Whole.items |-> WithoutOperations(Whole.items[i])]
      now == DecodeLog(file'.records)
      copied == Front(now.items)
      later == {i \in DOMAIN was : /\ was[i].kind = "turn"
                                   /\ \E j \in 1..i : was[j] = InputItem(branch.prompt)}
  IN /\ now.ok
     /\ IsPrefix(copied, was)
     /\ \A i \in later : i > Len(copied)
     /\ \E i \in DOMAIN copied : OfTurn(copied[i], branch.turn)

\* A branch ends with a new file only when it is copied.
LEMMA OnlyForksBranch ==
  ASSUME FileInv, [Next]_vars, branch # None, branch' = None, file' # file
  PROVE  BranchFork
<1>1. CASE Start
  BY <1>1 DEF Start
<1>2. CASE Stop
  BY <1>2 DEF Stop
<1>3. CASE \E forResume \in BOOLEAN : ReadSession(forResume)
  BY <1>3 DEF ReadSession
<1>4. CASE StoreStep
  BY <1>4 DEF StoreStep, AppendInput, AppendTurn, AppendModelResponse, BeginOperation,
              AppendToolCallStatus, SaveOperationStatus, SaveCheckpoint, BeginItem, BeginAppend,
              Truncate, WriteRecord, Sync, AppendFails
<1>5. CASE \E prompt \in Prompts : Preview(prompt) \/ Rewind(prompt) \/ BranchScan(prompt)
  BY <1>5 DEF Preview, Rewind, BranchScan
<1>6. CASE BranchFork
  BY <1>6
<1>7. CASE LoadBegin
  BY <1>7 DEF LoadBegin
<1>8. CASE LoadEnd
  BY <1>8 DEF LoadEnd
<1>9. CASE UNCHANGED vars
  BY <1>9 DEF vars
<1> QED BY <1>1, <1>2, <1>3, <1>4, <1>5, <1>6, <1>7, <1>8, <1>9 DEF Next

\* Boundary ends before a turn begins that is not the branch's; a turn the prompt led to begins
\* behind the prompt, and so behind the turn of the branch.
LEMMA BranchingEnds ==
  ASSUME FileInv, BranchInv, [Next]_vars, branch # None, branch' = None, file' # file
  PROVE  BranchEnds
<1> DEFINE items == Whole.items
           n == Len(items)
           turn == branch.turn
           prompt == branch.prompt
           b == Boundary(items, turn)
           now == DecodeLog(file'.records)
           copied == Front(now.items)
           was == [i \in DOMAIN items |-> WithoutOperations(items[i])]
<1>1. BranchFork
  BY OnlyForksBranch
<1>2. b # 0 /\ Branched(items, turn, b, file'.records)
  BY <1>1, BranchesTo DEF Whole
<1>3. items \in Seq(WholeItems)
  BY FilePartsIf, WholeIsRead DEF FileParts, Whole
<1>4. TurnFirst(items, branch)
  BY DEF BranchInv
<1> HIDE DEF items
<1>5. BoundaryAt(items, turn, b)
  BY <1>2, <1>3, BoundaryIs
<1> HIDE DEF b, now
<1>6. /\ now.ok /\ now.items \in Seq(WholeItems) /\ Len(now.items) = b + 1
      /\ \A i \in 1 .. b : now.items[i] = WithoutOperations(items[i])
  BY <1>2 DEF Branched, now
<1>7. n \in Nat /\ DOMAIN items = 1 .. n /\ \A i \in 1 .. n : items[i] \in WholeItems
  BY <1>3, LenProperties, ElementOfSeq
<1>8. b \in 1 .. n /\ b \in Nat /\ b # 0
  BY <1>5, <1>7 DEF BoundaryAt
<1> HIDE DEF n
<1>9. copied \in Seq(WholeItems) /\ Len(copied) = b /\ \A i \in 1 .. b : copied[i] = now.items[i]
  <2>1. Len(now.items) # 0 /\ Len(now.items) - 1 = b
    BY <1>6, <1>8
  <2> QED BY <1>6, <2>1, FrontIs
<1> HIDE DEF copied
<1>10. \A i \in 1 .. b : i \in 1 .. n /\ copied[i] = WithoutOperations(items[i])
  BY <1>6, <1>7, <1>8, <1>9
<1>11. /\ was \in Seq(WholeItems) /\ Len(was) = n /\ DOMAIN was = 1 .. n
       /\ \A i \in 1 .. n : was[i] = WithoutOperations(items[i])
  <2>1. \A i \in 1 .. n : WithoutOperations(items[i]) \in WholeItems
    BY <1>7, BareItem
  <2>2. was = [i \in 1 .. n |-> WithoutOperations(items[i])]
    BY <1>7
  <2>3. was \in [1 .. n -> WholeItems]
    BY <2>1, <2>2
  <2>4. was \in Seq(WholeItems)
    BY <1>7, <2>3, SeqDef
  <2>5. Len(was) = n /\ DOMAIN was = 1 .. n
    BY <1>7, <2>2, <2>4, LenProperties
  <2> QED BY <2>2, <2>4, <2>5
<1> HIDE DEF was
<1>12. IsPrefix(copied, was)
  <2>1. Begins(copied, was)
    BY <1>8, <1>9, <1>10, <1>11 DEF Begins
  <2> QED BY <1>9, <1>11, <2>1, PrefixIsBeginning
<1>13. \E i \in DOMAIN copied : OfTurn(copied[i], turn)
  <2>1. OfTurn(items[b], turn) /\ items[b] \in WholeItems
    BY <1>5, <1>7, <1>8 DEF BoundaryAt
  <2>2. OfTurn(WithoutOperations(items[b]), turn)
    BY <2>1, WithoutOperationsAlike
  <2>3. DOMAIN copied = 1 .. b
    BY <1>9, LenProperties
  <2> QED BY <1>8, <1>10, <2>2, <2>3
<1>14. ASSUME NEW i \in 1 .. n, was[i].kind = "turn", NEW j \in 1 .. i, was[j] = InputItem(prompt)
       PROVE  i > b
  <2>1. PICK s \in 1 .. b :
          /\ IsTurn(items[s], turn)
          /\ \A k \in s + 1 .. b : items[k].kind # "turn"
    BY <1>5 DEF BoundaryAt, IsTurn
  <2>2. j \in 1 .. n /\ s \in 1 .. n
    BY <1>7, <1>8
  <2>3. items[i].kind = "turn"
    BY <1>7, <1>11, <1>14, WithoutOperationsAlike
  <2>4. IsInput(items[j], prompt)
    BY <1>7, <1>11, <1>14, <2>2, WithoutOperationsAlike
  <2>5. s < j
    BY <1>4, <2>1, <2>2, <2>4 DEF TurnFirst, n
  <2>6. i >= s + 1
    BY <1>7, <1>8, <2>2, <2>5
  <2> QED BY <1>7, <1>8, <2>1, <2>3, <2>6
<1> DEFINE later == {i \in DOMAIN was : /\ was[i].kind = "turn"
                                        /\ \E j \in 1..i : was[j] = InputItem(prompt)}
<1>15. \A i \in later : i > Len(copied)
  BY <1>9, <1>11, <1>14
<1> HIDE DEF later
<1> QED BY <1>6, <1>12, <1>13, <1>15 DEF BranchEnds, items, now, copied, was, later

\* No input and no turn occurs twice in a file, and of a branch in progress the turn is
\* before the prompt.
THEOREM NamesInvariant == Spec => []BranchInv
<1>1. Init => BranchInv
  BY BranchInvInit
<1>2. FileInv /\ BranchInv /\ [Next]_vars => BranchInv'
  BY BranchInvNext
<1> QED BY <1>1, <1>2, FileInvariant, PTL DEF Spec

\* BranchEndsWithTheTurn: the file of a branch is the beginning of the session's, with what is
\* the turn's before the prompt, and without the turns from the prompt on, though the session went on
\* between the scan for the turn and the copy (BranchSession, forkStoredState).
THEOREM BranchesEndWithTheTurn == Spec => BranchEndsWithTheTurn
<1>1. FileInv /\ BranchInv /\ [Next]_vars =>
        [branch # None /\ branch' = None /\ file' # file =>
           LET was == [i \in DOMAIN Whole.items |-> WithoutOperations(Whole.items[i])]
               now == DecodeLog(file'.records)
               copied == Front(now.items)
               later == {i \in DOMAIN was : /\ was[i].kind = "turn"
                                            /\ \E j \in 1..i : was[j] = InputItem(branch.prompt)}
           IN /\ now.ok
              /\ IsPrefix(copied, was)
              /\ \A i \in later : i > Len(copied)
              /\ \E i \in DOMAIN copied : OfTurn(copied[i], branch.turn)]_vars
  BY BranchingEnds DEF BranchEnds
<1> QED BY <1>1, FileInvariant, NamesInvariant, PTL DEF Spec, BranchEndsWithTheTurn

-----------------------------------------------------------------------------
(* The entries of a file, record by record *)

ListedBy(g, records, inherited, n) ==
  g = [k \in 0 .. n |->
         IF k = 0 THEN Listed0
         ELSE CHOOSE next \in {ListRecord(state, records[k], k, inherited) :
                                 state \in {g[k - 1]}} : TRUE]

Listing(records, inherited, n) == (CHOOSE g : ListedBy(g, records, inherited, n))[n]

LEMMA OneListed ==
  ASSUME NEW s, NEW record, NEW k, NEW inherited
  PROVE  (CHOOSE next \in {ListRecord(state, record, k, inherited) : state \in {s}} : TRUE)
           = ListRecord(s, record, k, inherited)
<1> DEFINE e == ListRecord(s, record, k, inherited)
<1>1. {ListRecord(state, record, k, inherited) : state \in {s}} = {e}
  OBVIOUS
<1> HIDE DEF e
<1>2. (CHOOSE next \in {e} : TRUE) = e
  OBVIOUS
<1> QED BY <1>1, <1>2 DEF e

\* What is listed, record by record.
LEMMA ListedByDef ==
  ASSUME NEW g, NEW records, NEW inherited, NEW n \in Nat
  PROVE  ListedBy(g, records, inherited, n) <=>
           g = [k \in 0 .. n |-> IF k = 0 THEN Listed0
                                 ELSE ListRecord(g[k - 1], records[k], k, inherited)]
BY OneListed, Zenon DEF ListedBy

\* There is such a list.
LEMMA ListedByExists ==
  ASSUME NEW records, NEW inherited, NEW n \in Nat
  PROVE  \E g : ListedBy(g, records, inherited, n)
<1> DEFINE S == {m \in Nat : \E g : ListedBy(g, records, inherited, m)}
<1>1. 0 \in S
  <2> DEFINE g == [k \in 0 .. 0 |-> Listed0]
  <2>1. g = [k \in 0 .. 0 |-> IF k = 0 THEN Listed0
                              ELSE ListRecord(g[k - 1], records[k], k, inherited)]
    OBVIOUS
  <2> HIDE DEF g
  <2>2. ListedBy(g, records, inherited, 0)
    BY <2>1, ListedByDef
  <2> QED BY <2>2
<1>2. ASSUME NEW m \in Nat, m \in S PROVE m + 1 \in S
  <2>0. PICK f : ListedBy(f, records, inherited, m)
    BY <1>2
  <2> DEFINE g == [k \in 0 .. m + 1 |->
                     IF k = m + 1 THEN ListRecord(f[m], records[k], k, inherited) ELSE f[k]]
  <2>1. \A k \in 0 .. m : f[k] = IF k = 0 THEN Listed0
                                 ELSE ListRecord(f[k - 1], records[k], k, inherited)
    <3>1. f = [k \in 0 .. m |-> IF k = 0 THEN Listed0
                                ELSE ListRecord(f[k - 1], records[k], k, inherited)]
      BY <2>0, ListedByDef
    <3> QED BY <3>1
  <2>2. \A k \in 0 .. m : g[k] = f[k]
    OBVIOUS
  <2>3. \A k \in 0 .. m + 1 : g[k] = IF k = 0 THEN Listed0
                                     ELSE ListRecord(g[k - 1], records[k], k, inherited)
    <3> SUFFICES ASSUME NEW k \in 0 .. m + 1
                 PROVE  g[k] = IF k = 0 THEN Listed0
                               ELSE ListRecord(g[k - 1], records[k], k, inherited)
      OBVIOUS
    <3>1. CASE k = m + 1
      <4>1. k # 0 /\ k - 1 = m /\ m \in 0 .. m
        BY <3>1
      <4> QED BY <2>2, <3>1, <4>1
    <3>2. CASE k \in 0 .. m
      <4>1. k = 0 \/ k - 1 \in 0 .. m
        BY <3>2
      <4>2. g[k] = f[k] /\ (k # 0 => g[k - 1] = f[k - 1])
        BY <2>2, <3>2, <4>1
      <4> HIDE DEF g
      <4> QED BY <2>1, <3>2, <4>2
    <3> QED BY <3>1, <3>2
  <2>4. g = [k \in 0 .. m + 1 |-> g[k]]
    OBVIOUS
  <2> HIDE DEF g
  <2>5. g = [k \in 0 .. m + 1 |-> IF k = 0 THEN Listed0
                                  ELSE ListRecord(g[k - 1], records[k], k, inherited)]
    BY <2>3, <2>4
  <2>6. ListedBy(g, records, inherited, m + 1)
    BY <2>5, ListedByDef
  <2> QED BY <2>6
<1> HIDE DEF S
<1>3. Nat \subseteq S
  BY <1>1, <1>2, NatSetInduction
<1> QED BY <1>3 DEF S

LEMMA ListingIs ==
  ASSUME NEW records, NEW inherited, NEW n \in Nat
  PROVE  ListedBy(CHOOSE g : ListedBy(g, records, inherited, n), records, inherited, n)
BY ListedByExists, Zenon

Listings(f, a, i, m, g, b, j, n, l) ==
  /\ i \in Nat /\ j \in Nat /\ m \in Nat /\ n \in Nat /\ l \in Nat /\ l <= m /\ l <= n
  /\ ListedBy(f, a, i, m) /\ ListedBy(g, b, j, n)
  /\ Alike(a, b, i, j, l)

\* Lists of records that are alike so far.
LEMMA ListedAlike ==
  ASSUME NEW f, NEW a, NEW i, NEW m, NEW g, NEW b, NEW j, NEW n, NEW l,
         Listings(f, a, i, m, g, b, j, n, l)
  PROVE  f[l] = g[l]
<1>a. /\ i \in Nat /\ j \in Nat /\ m \in Nat /\ n \in Nat /\ l \in Nat /\ l <= m /\ l <= n
      /\ ListedBy(f, a, i, m) /\ ListedBy(g, b, j, n)
      /\ Alike(a, b, i, j, l)
  BY DEF Listings
<1> DEFINE S == {k \in Nat : k <= l => f[k] = g[k]}
<1>0. /\ \A k \in 0 .. m : f[k] = IF k = 0 THEN Listed0 ELSE ListRecord(f[k - 1], a[k], k, i)
      /\ \A k \in 0 .. n : g[k] = IF k = 0 THEN Listed0 ELSE ListRecord(g[k - 1], b[k], k, j)
  <2>1. f = [k \in 0 .. m |-> IF k = 0 THEN Listed0 ELSE ListRecord(f[k - 1], a[k], k, i)]
    BY <1>a, ListedByDef
  <2>2. g = [k \in 0 .. n |-> IF k = 0 THEN Listed0 ELSE ListRecord(g[k - 1], b[k], k, j)]
    BY <1>a, ListedByDef
  <2>3. \A k \in 0 .. m : f[k] = IF k = 0 THEN Listed0 ELSE ListRecord(f[k - 1], a[k], k, i)
    BY <2>1
  <2>4. \A k \in 0 .. n : g[k] = IF k = 0 THEN Listed0 ELSE ListRecord(g[k - 1], b[k], k, j)
    BY <2>2
  <2> QED BY <2>3, <2>4
<1>1. 0 \in S
  BY <1>a, <1>0
<1>2. ASSUME NEW k \in Nat, k \in S PROVE k + 1 \in S
  <2> SUFFICES ASSUME k + 1 <= l PROVE f[k + 1] = g[k + 1]
    OBVIOUS
  <2>1. /\ k + 1 \in 0 .. m /\ k + 1 \in 0 .. n /\ k + 1 # 0 /\ (k + 1) - 1 = k
        /\ k + 1 \in 1 .. l /\ k <= l
    BY <1>a
  <2>2. f[k] = g[k] /\ a[k + 1] = b[k + 1] /\ (k + 1 <= i <=> k + 1 <= j)
    BY <1>a, <1>2, <2>1 DEF Alike
  <2>3. f[k + 1] = ListRecord(f[k], a[k + 1], k + 1, i)
    BY <1>0, <2>1
  <2>4. g[k + 1] = ListRecord(g[k], b[k + 1], k + 1, j)
    BY <1>0, <2>1
  <2>5. /\ (k + 1 > i) <=> ~(k + 1 <= i)
        /\ (k + 1 > j) <=> ~(k + 1 <= j)
    BY <1>a
  <2>6. \A s : DecodeRecord(s, b[k + 1], k + 1, i) = DecodeRecord(s, b[k + 1], k + 1, j)
    BY <2>2, <2>5 DEF DecodeRecord
  <2> QED BY <2>2, <2>3, <2>4, <2>6 DEF ListRecord
<1> HIDE DEF S
<1>3. l \in S
  BY <1>a, <1>1, <1>2, NatSetInduction
<1> QED BY <1>3 DEF S

\* Files that are alike so far list the same entries.
LEMMA ListingAlike ==
  ASSUME NEW a, NEW b, NEW i \in Nat, NEW j \in Nat, NEW n \in Nat,
         Alike(a, b, i, j, n)
  PROVE  Listing(a, i, n) = Listing(b, j, n)
<1> DEFINE f == CHOOSE f : ListedBy(f, a, i, n)
           g == CHOOSE g : ListedBy(g, b, j, n)
<1>1. ListedBy(f, a, i, n) /\ ListedBy(g, b, j, n)
  BY ListingIs
<1>2. Listing(a, i, n) = f[n] /\ Listing(b, j, n) = g[n]
  BY DEF Listing
<1> HIDE DEF f, g
<1>3. f[n] = g[n]
  <2>1. Listings(f, a, i, n, g, b, j, n, n)
    BY <1>1 DEF Listings
  <2> QED BY <2>1, ListedAlike
<1> QED BY <1>2, <1>3

\* A listing starts with nothing, and goes on with the entry of each record.
LEMMA ListingSteps ==
  ASSUME NEW records, NEW inherited \in Nat, NEW n \in Nat
  PROVE  /\ Listing(records, inherited, 0) = Listed0
         /\ Listing(records, inherited, n + 1)
              = ListRecord(Listing(records, inherited, n), records[n + 1], n + 1, inherited)
<1> DEFINE F(m) == CHOOSE f : ListedBy(f, records, inherited, m)
<1>1. \A m \in Nat : ListedBy(F(m), records, inherited, m) /\ Listing(records, inherited, m) = F(m)[m]
  BY ListingIs DEF Listing
<1> HIDE DEF F
<1>2. \A m \in Nat : \A k \in 0 .. m :
        F(m)[k] = IF k = 0 THEN Listed0 ELSE ListRecord(F(m)[k - 1], records[k], k, inherited)
  <2> SUFFICES ASSUME NEW m \in Nat
               PROVE  \A k \in 0 .. m :
                        F(m)[k] = IF k = 0 THEN Listed0
                                  ELSE ListRecord(F(m)[k - 1], records[k], k, inherited)
    OBVIOUS
  <2>1. F(m) = [k \in 0 .. m |-> IF k = 0 THEN Listed0
                                 ELSE ListRecord(F(m)[k - 1], records[k], k, inherited)]
    BY <1>1, ListedByDef
  <2> QED BY <2>1
<1>3. Listing(records, inherited, 0) = Listed0
  BY <1>1, <1>2
<1>4. F(n + 1)[n] = F(n)[n]
  <2>1. ListedBy(F(n + 1), records, inherited, n + 1) /\ ListedBy(F(n), records, inherited, n)
    BY <1>1
  <2>2. n <= n + 1 /\ n <= n /\ n + 1 \in Nat
    OBVIOUS
  <2>3. Alike(records, records, inherited, inherited, n)
    BY DEF Alike
  <2>4. Listings(F(n + 1), records, inherited, n + 1, F(n), records, inherited, n, n)
    BY <2>1, <2>2, <2>3 DEF Listings
  <2> QED BY <2>4, ListedAlike
<1>5. F(n + 1)[n + 1] = ListRecord(F(n + 1)[n], records[n + 1], n + 1, inherited)
  <2>1. n + 1 \in Nat /\ n + 1 \in 0 .. n + 1 /\ n + 1 # 0 /\ (n + 1) - 1 = n
    OBVIOUS
  <2> QED BY <1>2, <2>1
<1>6. Listing(records, inherited, n + 1) = F(n + 1)[n + 1] /\ Listing(records, inherited, n) = F(n)[n]
  BY <1>1
<1> QED BY <1>3, <1>4, <1>5, <1>6

\* What is listed next to the entries is what is read.
LEMMA ListsReading ==
  ASSUME NEW records, NEW inherited \in Nat, NEW n \in Nat
  PROVE  Listing(records, inherited, n).state = Reading(records, inherited, n)
<1> DEFINE S == {k \in Nat : Listing(records, inherited, k).state = Reading(records, inherited, k)}
<1>1. 0 \in S
  BY ListingSteps, ReadingSteps DEF Listed0
<1>2. ASSUME NEW k \in Nat, k \in S PROVE k + 1 \in S
  <2>1. /\ Listing(records, inherited, k + 1)
             = ListRecord(Listing(records, inherited, k), records[k + 1], k + 1, inherited)
        /\ Reading(records, inherited, k + 1)
             = DecodeRecord(Reading(records, inherited, k), records[k + 1], k + 1, inherited)
    BY ListingSteps, ReadingSteps
  <2>2. ListRecord(Listing(records, inherited, k), records[k + 1], k + 1, inherited).state
          = DecodeRecord(Listing(records, inherited, k).state, records[k + 1], k + 1, inherited)
    BY Zenon DEF ListRecord
  <2>3. Listing(records, inherited, k).state = Reading(records, inherited, k)
    BY <1>2
  <2>4. Listing(records, inherited, k + 1).state = Reading(records, inherited, k + 1)
    BY <2>1, <2>2, <2>3
  <2> QED BY <2>4
<1> HIDE DEF S
<1>3. n \in S
  BY <1>1, <1>2, NatSetInduction
<1> QED BY <1>3 DEF S

\* The entries of the first n records of a file.
Lists(records, n) == Listing(records, LastFork(records), n).entries

\* The entries of a file are those of all its records.
LEMMA EntriesAreListed ==
  ASSUME NEW records
  PROVE  Entries(records) = Lists(records, Len(records))
BY Zenon DEF Entries, Over, Lists, Listing, ListedBy

\* One record more.
LEMMA ListsStep ==
  ASSUME NEW records, LastFork(records) \in Nat, NEW k \in Nat
  PROVE  /\ Lists(records, 0) = <<>>
         /\ Lists(records, k + 1)
              = Lists(records, k)
                  \o EntryOf(records[k + 1], Reading(records, LastFork(records), k).head)
<1> DEFINE f == LastFork(records)
<1>1. Listing(records, f, 0) = Listed0
  BY ListingSteps
<1>2. Listing(records, f, k + 1) = ListRecord(Listing(records, f, k), records[k + 1], k + 1, f)
  BY ListingSteps
<1>3. Listing(records, f, k).state = Reading(records, f, k)
  BY ListsReading
<1>4. Lists(records, 0) = <<>>
  BY <1>1 DEF Lists, Listed0
<1>5. ListRecord(Listing(records, f, k), records[k + 1], k + 1, f).entries
        = Listing(records, f, k).entries \o EntryOf(records[k + 1], Listing(records, f, k).state.head)
  BY Zenon DEF ListRecord
<1>6. /\ Lists(records, k + 1) = Listing(records, f, k + 1).entries
      /\ Lists(records, k) = Listing(records, f, k).entries
  BY DEF Lists
<1> HIDE DEF f
<1>7. Lists(records, k + 1) = Lists(records, k) \o EntryOf(records[k + 1], Reading(records, f, k).head)
  BY <1>2, <1>3, <1>5, <1>6
<1> QED BY <1>4, <1>7 DEF f

-----------------------------------------------------------------------------
(* The entries that are in a set *)

Pick(sofar, entry, chosen) == IF entry \in chosen THEN Append(sofar, entry) ELSE sofar

PickedBy(g, entries, chosen, n) ==
  g = [k \in 0 .. n |->
         IF k = 0 THEN <<>>
         ELSE CHOOSE next \in {Pick(state, entries[k], chosen) :
                                 state \in {g[k - 1]}} : TRUE]

Picking(entries, chosen, n) == (CHOOSE g : PickedBy(g, entries, chosen, n))[n]

LEMMA OnePicked ==
  ASSUME NEW s, NEW record, NEW chosen
  PROVE  (CHOOSE next \in {Pick(state, record, chosen) : state \in {s}} : TRUE)
           = Pick(s, record, chosen)
<1> DEFINE e == Pick(s, record, chosen)
<1>1. {Pick(state, record, chosen) : state \in {s}} = {e}
  OBVIOUS
<1> HIDE DEF e
<1>2. (CHOOSE next \in {e} : TRUE) = e
  OBVIOUS
<1> QED BY <1>1, <1>2 DEF e

\* What is picked, entry by entry.
LEMMA PickedByDef ==
  ASSUME NEW g, NEW entries, NEW chosen, NEW n \in Nat
  PROVE  PickedBy(g, entries, chosen, n) <=>
           g = [k \in 0 .. n |-> IF k = 0 THEN <<>>
                                 ELSE Pick(g[k - 1], entries[k], chosen)]
BY OnePicked, Zenon DEF PickedBy

\* There is such a choice.
LEMMA PickedByExists ==
  ASSUME NEW entries, NEW chosen, NEW n \in Nat
  PROVE  \E g : PickedBy(g, entries, chosen, n)
<1> DEFINE S == {m \in Nat : \E g : PickedBy(g, entries, chosen, m)}
<1>1. 0 \in S
  <2> DEFINE g == [k \in 0 .. 0 |-> <<>>]
  <2>1. g = [k \in 0 .. 0 |-> IF k = 0 THEN <<>>
                              ELSE Pick(g[k - 1], entries[k], chosen)]
    OBVIOUS
  <2> HIDE DEF g
  <2>2. PickedBy(g, entries, chosen, 0)
    BY <2>1, PickedByDef
  <2> QED BY <2>2
<1>2. ASSUME NEW m \in Nat, m \in S PROVE m + 1 \in S
  <2>0. PICK f : PickedBy(f, entries, chosen, m)
    BY <1>2
  <2> DEFINE g == [k \in 0 .. m + 1 |->
                     IF k = m + 1 THEN Pick(f[m], entries[k], chosen) ELSE f[k]]
  <2>1. \A k \in 0 .. m : f[k] = IF k = 0 THEN <<>>
                                 ELSE Pick(f[k - 1], entries[k], chosen)
    <3>1. f = [k \in 0 .. m |-> IF k = 0 THEN <<>>
                                ELSE Pick(f[k - 1], entries[k], chosen)]
      BY <2>0, PickedByDef
    <3> QED BY <3>1
  <2>2. \A k \in 0 .. m : g[k] = f[k]
    OBVIOUS
  <2>3. \A k \in 0 .. m + 1 : g[k] = IF k = 0 THEN <<>>
                                     ELSE Pick(g[k - 1], entries[k], chosen)
    <3> SUFFICES ASSUME NEW k \in 0 .. m + 1
                 PROVE  g[k] = IF k = 0 THEN <<>>
                               ELSE Pick(g[k - 1], entries[k], chosen)
      OBVIOUS
    <3>1. CASE k = m + 1
      <4>1. k # 0 /\ k - 1 = m /\ m \in 0 .. m
        BY <3>1
      <4> QED BY <2>2, <3>1, <4>1
    <3>2. CASE k \in 0 .. m
      <4>1. k = 0 \/ k - 1 \in 0 .. m
        BY <3>2
      <4>2. g[k] = f[k] /\ (k # 0 => g[k - 1] = f[k - 1])
        BY <2>2, <3>2, <4>1
      <4> HIDE DEF g
      <4> QED BY <2>1, <3>2, <4>2
    <3> QED BY <3>1, <3>2
  <2>4. g = [k \in 0 .. m + 1 |-> g[k]]
    OBVIOUS
  <2> HIDE DEF g
  <2>5. g = [k \in 0 .. m + 1 |-> IF k = 0 THEN <<>>
                                  ELSE Pick(g[k - 1], entries[k], chosen)]
    BY <2>3, <2>4
  <2>6. PickedBy(g, entries, chosen, m + 1)
    BY <2>5, PickedByDef
  <2> QED BY <2>6
<1> HIDE DEF S
<1>3. Nat \subseteq S
  BY <1>1, <1>2, NatSetInduction
<1> QED BY <1>3 DEF S

LEMMA PickingIs ==
  ASSUME NEW entries, NEW chosen, NEW n \in Nat
  PROVE  PickedBy(CHOOSE g : PickedBy(g, entries, chosen, n), entries, chosen, n)
BY PickedByExists, Zenon

Pickings(f, a, m, g, b, n, l, chosen) ==
  /\ m \in Nat /\ n \in Nat /\ l \in Nat /\ l <= m /\ l <= n
  /\ PickedBy(f, a, chosen, m) /\ PickedBy(g, b, chosen, n)
  /\ \A k \in 1 .. l : a[k] = b[k]

\* The same is picked of entries that are the same so far.
LEMMA PickedAlike ==
  ASSUME NEW f, NEW a, NEW m, NEW g, NEW b, NEW n, NEW l, NEW chosen,
         Pickings(f, a, m, g, b, n, l, chosen)
  PROVE  f[l] = g[l]
<1>a. /\ m \in Nat /\ n \in Nat /\ l \in Nat /\ l <= m /\ l <= n
      /\ PickedBy(f, a, chosen, m) /\ PickedBy(g, b, chosen, n)
      /\ \A k \in 1 .. l : a[k] = b[k]
  BY DEF Pickings
<1> DEFINE S == {k \in Nat : k <= l => f[k] = g[k]}
<1>0. /\ \A k \in 0 .. m : f[k] = IF k = 0 THEN <<>> ELSE Pick(f[k - 1], a[k], chosen)
      /\ \A k \in 0 .. n : g[k] = IF k = 0 THEN <<>> ELSE Pick(g[k - 1], b[k], chosen)
  <2>1. f = [k \in 0 .. m |-> IF k = 0 THEN <<>> ELSE Pick(f[k - 1], a[k], chosen)]
    BY <1>a, PickedByDef
  <2>2. g = [k \in 0 .. n |-> IF k = 0 THEN <<>> ELSE Pick(g[k - 1], b[k], chosen)]
    BY <1>a, PickedByDef
  <2>3. \A k \in 0 .. m : f[k] = IF k = 0 THEN <<>> ELSE Pick(f[k - 1], a[k], chosen)
    BY <2>1
  <2>4. \A k \in 0 .. n : g[k] = IF k = 0 THEN <<>> ELSE Pick(g[k - 1], b[k], chosen)
    BY <2>2
  <2> QED BY <2>3, <2>4
<1>1. 0 \in S
  BY <1>a, <1>0
<1>2. ASSUME NEW k \in Nat, k \in S PROVE k + 1 \in S
  <2> SUFFICES ASSUME k + 1 <= l PROVE f[k + 1] = g[k + 1]
    OBVIOUS
  <2>1. /\ k + 1 \in 0 .. m /\ k + 1 \in 0 .. n /\ k + 1 # 0 /\ (k + 1) - 1 = k
        /\ k + 1 \in 1 .. l /\ k <= l
    BY <1>a
  <2>2. f[k] = g[k] /\ a[k + 1] = b[k + 1]
    BY <1>a, <1>2, <2>1
  <2>3. f[k + 1] = Pick(f[k], a[k + 1], chosen)
    BY <1>0, <2>1
  <2>4. g[k + 1] = Pick(g[k], b[k + 1], chosen)
    BY <1>0, <2>1
  <2> QED BY <2>2, <2>3, <2>4
<1> HIDE DEF S
<1>3. l \in S
  BY <1>a, <1>1, <1>2, NatSetInduction
<1> QED BY <1>3 DEF S

LEMMA PickingAlike ==
  ASSUME NEW a, NEW b, NEW n \in Nat, NEW chosen, \A k \in 1 .. n : a[k] = b[k]
  PROVE  Picking(a, chosen, n) = Picking(b, chosen, n)
<1> DEFINE f == CHOOSE f : PickedBy(f, a, chosen, n)
           g == CHOOSE g : PickedBy(g, b, chosen, n)
<1>1. PickedBy(f, a, chosen, n) /\ PickedBy(g, b, chosen, n)
  BY PickingIs
<1>2. Picking(a, chosen, n) = f[n] /\ Picking(b, chosen, n) = g[n]
  BY DEF Picking
<1> HIDE DEF f, g
<1>3. f[n] = g[n]
  <2>1. Pickings(f, a, n, g, b, n, n, chosen)
    BY <1>1 DEF Pickings
  <2> QED BY <2>1, PickedAlike
<1> QED BY <1>2, <1>3

\* A choice starts with nothing, and goes on entry by entry.
LEMMA PickingSteps ==
  ASSUME NEW entries, NEW chosen, NEW n \in Nat
  PROVE  /\ Picking(entries, chosen, 0) = <<>>
         /\ Picking(entries, chosen, n + 1)
              = Pick(Picking(entries, chosen, n), entries[n + 1], chosen)
<1> DEFINE F(m) == CHOOSE f : PickedBy(f, entries, chosen, m)
<1>1. \A m \in Nat : PickedBy(F(m), entries, chosen, m) /\ Picking(entries, chosen, m) = F(m)[m]
  BY PickingIs DEF Picking
<1> HIDE DEF F
<1>2. \A m \in Nat : \A k \in 0 .. m :
        F(m)[k] = IF k = 0 THEN <<>> ELSE Pick(F(m)[k - 1], entries[k], chosen)
  <2> SUFFICES ASSUME NEW m \in Nat
               PROVE  \A k \in 0 .. m :
                        F(m)[k] = IF k = 0 THEN <<>>
                                  ELSE Pick(F(m)[k - 1], entries[k], chosen)
    OBVIOUS
  <2>1. F(m) = [k \in 0 .. m |-> IF k = 0 THEN <<>>
                                 ELSE Pick(F(m)[k - 1], entries[k], chosen)]
    BY <1>1, PickedByDef
  <2> QED BY <2>1
<1>3. Picking(entries, chosen, 0) = <<>>
  BY <1>1, <1>2
<1>4. F(n + 1)[n] = F(n)[n]
  <2>1. PickedBy(F(n + 1), entries, chosen, n + 1) /\ PickedBy(F(n), entries, chosen, n)
    BY <1>1
  <2>2. n <= n + 1 /\ n <= n /\ n + 1 \in Nat
    OBVIOUS
  <2>3. Pickings(F(n + 1), entries, n + 1, F(n), entries, n, n, chosen)
    BY <2>1, <2>2 DEF Pickings
  <2> QED BY <2>3, PickedAlike
<1>5. F(n + 1)[n + 1] = Pick(F(n + 1)[n], entries[n + 1], chosen)
  <2>1. n + 1 \in Nat /\ n + 1 \in 0 .. n + 1 /\ n + 1 # 0 /\ (n + 1) - 1 = n
    OBVIOUS
  <2> QED BY <1>2, <2>1
<1>6. Picking(entries, chosen, n + 1) = F(n + 1)[n + 1] /\ Picking(entries, chosen, n) = F(n)[n]
  BY <1>1
<1> QED BY <1>3, <1>4, <1>5, <1>6

\* Only is the choice from all of them.
LEMMA OnlyIsPicking ==
  ASSUME NEW entries, NEW chosen
  PROVE  Log!Only(entries, chosen) = Picking(entries, chosen, Len(entries))
BY Zenon DEF Log!Only, Log!Over, Picking, PickedBy, Pick

\* Only, from the back.
LEMMA OnlyIs ==
  ASSUME NEW S, NEW s \in Seq(S), NEW e \in S, NEW chosen
  PROVE  /\ Log!Only(<<>>, chosen) = <<>>
         /\ Log!Only(Append(s, e), chosen) = Pick(Log!Only(s, chosen), e, chosen)
<1> DEFINE t == Append(s, e)
           n == Len(s)
<1>1. n \in Nat /\ Len(t) = n + 1 /\ t[n + 1] = e /\ \A k \in 1 .. n : t[k] = s[k]
  BY LenProperties, LenOfAppend, AppendProperties
<1>2. Log!Only(<<>>, chosen) = Picking(<<>>, chosen, 0)
  <2>1. Len(<<>>) = 0
    OBVIOUS
  <2> QED BY <2>1, OnlyIsPicking
<1>3. Picking(<<>>, chosen, 0) = <<>>
  BY PickingSteps
<1>4. Log!Only(t, chosen) = Picking(t, chosen, n + 1) /\ Log!Only(s, chosen) = Picking(s, chosen, n)
  BY <1>1, OnlyIsPicking
<1> HIDE DEF t, n
<1>5. Picking(t, chosen, n + 1) = Pick(Picking(t, chosen, n), t[n + 1], chosen)
  BY <1>1, PickingSteps
<1>6. Picking(t, chosen, n) = Picking(s, chosen, n)
  BY <1>1, PickingAlike
<1>7. Log!Only(t, chosen) = Pick(Log!Only(s, chosen), e, chosen)
  BY <1>1, <1>4, <1>5, <1>6
<1> QED BY <1>2, <1>3, <1>7 DEF t

Entry(item) == [type |-> "item", item |-> item]

LogEntries ==
  [type : {"item"}, item : WholeItems] \cup [type : {"operation"}, op : Ops, value : FullValues]

\* The item of a record is listed with its operation.
ListsItem(records, k, item) ==
  LET f == LastFork(records)
      a == Reading(records, f, k)
      b == Reading(records, f, k + 1)
      record == records[k + 1]
  IN /\ item \in WholeItems /\ b.items = Append(a.items, item)
     /\ EntryOf(record, a.head) = <<Entry(item)>>
     /\ item.kind = record.item.kind
     /\ record.item.kind # "status" => item = record.item
     /\ record.item.kind = "status" =>
          item.op = record.item.op /\ (item.value = None <=> record.item.value = None)

\* The entry of a record, by its type.
LEMMA EntryIs ==
  ASSUME NEW record, NEW head
  PROVE  /\ IsItem(record) => EntryOf(record, head) = <<Entry(Resolved(head, record.item))>>
         /\ record.type = "operation" => EntryOf(record, head) = <<record>>
         /\ record.type = "checkpoint" => EntryOf(record, head) = <<>>
<1>1. ASSUME IsItem(record) PROVE EntryOf(record, head) = <<Entry(Resolved(head, record.item))>>
  <2>1. record.type # "operation"
    BY <1>1 DEF IsItem
  <2> QED BY <1>1, <2>1, Zenon DEF EntryOf, Entry
<1>2. ASSUME record.type = "operation" PROVE EntryOf(record, head) = <<record>>
  <2>1. ~IsItem(record)
    BY <1>2 DEF IsItem
  <2> QED BY <1>2, <2>1, Zenon DEF EntryOf
<1>3. ASSUME record.type = "checkpoint" PROVE EntryOf(record, head) = <<>>
  <2>1. ~IsItem(record) /\ record.type # "operation"
    BY <1>3 DEF IsItem
  <2> QED BY <2>1, Zenon DEF EntryOf
<1> QED BY <1>1, <1>2, <1>3

\* Such an item there is: a status that holds its operation by ID is listed with what the head has.
LEMMA ListsTheItem ==
  ASSUME NEW records \in Seq(Records), Legible(records),
         NEW k \in Nat, k + 1 <= Len(records), IsItem(records[k + 1])
  PROVE  \E item : ListsItem(records, k, item)
<1> DEFINE f == LastFork(records)
           a == Reading(records, f, k)
           b == Reading(records, f, k + 1)
           record == records[k + 1]
           item == Resolved(a.head, record.item)
<1>f. f \in Nat
  BY LegibleParts DEF Parts
<1>1. EntryOf(record, a.head) = <<Entry(item)>>
  BY EntryIs
<1>2. CASE k + 1 <= f
  <2>1. Grows(records, f, k)
    BY Growing
  <2>2. /\ record \in Records /\ record.item.kind = "status" => record.item.value = None
        /\ b.items = Append(a.items, record.item)
    BY <1>2, <2>1 DEF Grows
  <2>3. item = record.item
    BY <2>2, RecordsAssumption DEF Resolved
  <2>4. record.item \in WholeItems
    <3>1. record.item \in RecordedItems
      BY <2>2, RecordKinds
    <3>2. record.item.kind # "status" => record.item \in WholeItems
      BY <3>1 DEF RecordedItems, WholeItems
    <3>3. record.item.kind = "status" => record.item \in WholeItems
      BY <2>2, <3>1 DEF RecordedItems, WholeItems
    <3> QED BY <3>2, <3>3
  <2> QED BY <1>1, <2>2, <2>3, <2>4 DEF ListsItem
<1>3. CASE k >= f
  <2>1. OwnStep(records, f, k)
    BY <1>3, OwnSteps
  <2>2. /\ record \in Records /\ ~IsFork(record) /\ Sane(a.head) /\ a \in ReadStates
        /\ Follows(record, a.head, records, k + 1)
        /\ Resolvable(a.head, record.item) /\ item \in WholeItems
        /\ b.items = Append(a.items, item)
    BY <2>1 DEF OwnStep
  <2> HIDE DEF a, b
  <2>3. record.item \in RecordedItems /\ a.head \in Heads
    BY <2>2, RecordKinds DEF ReadStates
  <2>4. record.item.kind = "status" => record.item.value # None
    BY <2>2 DEF IsStatus, Follows
  <2>5. /\ item.kind = record.item.kind
        /\ record.item.kind # "status" => item = record.item
        /\ record.item.kind = "status" => item.op = record.item.op /\ item.value \in FullValues
    BY <2>2, <2>3, <2>4, ResolvedItem
  <2> HIDE DEF item, record
  <2>6. record.item.kind = "status" =>
          item.op = record.item.op /\ (item.value = None <=> record.item.value = None)
    BY <2>4, <2>5, Marks
  <2> QED BY <1>1, <2>2, <2>5, <2>6 DEF ListsItem, a, b, record, f
<1> QED BY <1>2, <1>3, <1>f

\* The fields of an entry.
LEMMA EntryParts ==
  ASSUME NEW item
  PROVE  Entry(item).type = "item" /\ Entry(item).item = item /\ Log!ItemEntry(item) = Entry(item)
BY DEF Entry, Log!ItemEntry

\* What a record adds to what is listed.
Adds(records, k) ==
  LET f == LastFork(records)
      a == Reading(records, f, k)
      b == Reading(records, f, k + 1)
      record == records[k + 1]
      was == Lists(records, k)
      now == Lists(records, k + 1)
  IN /\ was \in Seq(LogEntries) /\ now \in Seq(LogEntries)
     /\ IsItem(record) => \E item : /\ ListsItem(records, k, item)
                                    /\ Entry(item) \in LogEntries
                                    /\ now = Append(was, Entry(item))
     /\ record.type = "operation" => /\ record \in LogEntries /\ now = Append(was, record)
                                     /\ b.items = a.items
     /\ record.type = "checkpoint" => now = was /\ b.items = a.items

\* That is so of a record when those before it are listed,
LEMMA AddsMore ==
  ASSUME NEW records \in Seq(Records), Legible(records),
         NEW k \in Nat, k + 1 <= Len(records), Lists(records, k) \in Seq(LogEntries)
  PROVE  Adds(records, k)
<1> DEFINE f == LastFork(records)
           a == Reading(records, f, k)
           b == Reading(records, f, k + 1)
           record == records[k + 1]
           was == Lists(records, k)
           now == Lists(records, k + 1)
<1>f. f \in Nat
  BY LegibleParts DEF Parts
<1>1. now = was \o EntryOf(record, a.head)
  BY <1>f, ListsStep
<1>2. record \in Records
  <2>1. k + 1 \in 1 .. Len(records)
    BY LenProperties
  <2> QED BY <2>1, ElementOfSeq
<1>3. Grows(records, f, k)
  BY Growing
<1>4. ~IsItem(record) => b.items = a.items
  BY <1>3 DEF Grows
<1>5. was \in Seq(LogEntries)
  OBVIOUS
<1> HIDE DEF f, a, b, was, now
<1>6. CASE IsItem(record)
  <2>1. PICK item : ListsItem(records, k, item)
    BY <1>6, ListsTheItem
  <2>2. item \in WholeItems /\ EntryOf(record, a.head) = <<Entry(item)>>
    BY <2>1 DEF ListsItem, a, f
  <2> DEFINE e == Entry(item)
  <2>3. e \in LogEntries
    BY <2>2 DEF Entry, LogEntries
  <2> HIDE DEF e
  <2>4. now = was \o <<e>>
    BY <1>1, <2>2 DEF e
  <2>5. now = Append(was, e) /\ now \in Seq(LogEntries)
    BY <1>5, <2>3, <2>4, AppendIsConcat, AppendProperties
  <2>6. record.type # "operation" /\ record.type # "checkpoint"
    BY <1>6 DEF IsItem
  <2> QED BY <1>5, <2>1, <2>3, <2>5, <2>6 DEF Adds, e, was, now
<1>7. CASE record.type = "operation"
  <2>1. ~IsItem(record) /\ record.type # "checkpoint"
    BY <1>7 DEF IsItem
  <2>2. record \in LogEntries
    BY <1>2, <1>7 DEF Records, LogEntries
  <2>3. now = was \o <<record>>
    BY <1>1, <1>7, EntryIs
  <2>4. now = Append(was, record) /\ now \in Seq(LogEntries)
    BY <1>5, <2>2, <2>3, AppendIsConcat, AppendProperties
  <2> QED BY <1>4, <1>5, <2>1, <2>2, <2>4 DEF Adds, was, now, a, b, f
<1>8. CASE record.type = "checkpoint"
  <2>1. ~IsItem(record) /\ record.type # "operation"
    BY <1>8 DEF IsItem
  <2>2. now = was \o <<>>
    BY <1>1, <1>8, EntryIs
  <2>3. now = was
    BY <1>5, <2>2, ConcatEmptySeq
  <2> QED BY <1>4, <1>5, <2>1, <2>3 DEF Adds, was, now, a, b, f
<1>9. record.type \in {"item", "operation", "checkpoint"}
  BY <1>2, RecordKinds
<1> QED BY <1>6, <1>7, <1>8, <1>9 DEF IsItem

\* which they all are,
LEMMA ListsTyped ==
  ASSUME NEW records \in Seq(Records), Legible(records), NEW k \in Nat, k <= Len(records)
  PROVE  Lists(records, k) \in Seq(LogEntries)
<1> DEFINE S == {m \in Nat : m <= Len(records) => Lists(records, m) \in Seq(LogEntries)}
<1>l. Len(records) \in Nat
  BY LenProperties
<1>1. 0 \in S
  <2>1. LastFork(records) \in Nat
    BY LegibleParts DEF Parts
  <2>2. Lists(records, 0) = <<>>
    BY <2>1, ListsStep
  <2>3. <<>> \in Seq(LogEntries)
    BY EmptySeq
  <2> QED BY <2>2, <2>3
<1>2. ASSUME NEW m \in Nat, m \in S PROVE m + 1 \in S
  <2> SUFFICES ASSUME m + 1 <= Len(records) PROVE Lists(records, m + 1) \in Seq(LogEntries)
    OBVIOUS
  <2>1. Lists(records, m) \in Seq(LogEntries)
    BY <1>2, <1>l
  <2>2. Adds(records, m)
    BY <2>1, AddsMore
  <2> QED BY <2>2 DEF Adds
<1> HIDE DEF S
<1>3. k \in S
  BY <1>1, <1>2, NatSetInduction
<1> QED BY <1>3 DEF S

\* and so of every record.
LEMMA Adding ==
  ASSUME NEW records \in Seq(Records), Legible(records), NEW k \in Nat, k + 1 <= Len(records)
  PROVE  Adds(records, k)
<1>1. k <= Len(records)
  BY LenProperties
<1> QED BY <1>1, ListsTyped, AddsMore

\* An entry that begins an operation.
Starts(entry, o) ==
  entry.type = "item" /\ entry.item.kind = "status" /\ entry.item.op = o /\ entry.item.value # None

BegunAfter(entries, l) == {o \in Ops : \E i \in l + 1 .. Len(entries) : Starts(entries[i], o)}

ForkEntry(entry) == entry.type = "item" /\ entry.item.kind = "fork"

\* The last fork of a log.
LEMMA LogForkPlace ==
  ASSUME NEW entries, Len(entries) \in Nat
  PROVE  \E l \in 0 .. Len(entries) :
           /\ l # 0 => ForkEntry(entries[l])
           /\ \A k \in 1 .. Len(entries) : ForkEntry(entries[k]) => k <= l
           /\ Log!Begun(entries) = BegunAfter(entries, l)
<1> DEFINE I == {k \in 1 .. Len(entries) : Log!EntryIsFork(entries[k])}
           l == IF I # {} THEN Max(I) ELSE 0
<1>1. Log!SelectLastInSeq(entries, Log!EntryIsFork) = l
  BY Zenon DEF Log!SelectLastInSeq, Log!Max, Max
<1>2. Log!Begun(entries) = BegunAfter(entries, Log!SelectLastInSeq(entries, Log!EntryIsFork))
  BY Zenon DEF Log!Begun, BegunAfter, Starts
<1>3. \A e : Log!EntryIsFork(e) <=> ForkEntry(e)
  BY DEF Log!EntryIsFork, ForkEntry
<1>4. CASE I = {}
  <2>1. l = 0 /\ l \in 0 .. Len(entries)
    BY <1>4
  <2>2. \A k \in 1 .. Len(entries) : ~ForkEntry(entries[k])
    BY <1>3, <1>4
  <2> HIDE DEF l
  <2> QED BY <1>1, <1>2, <2>1, <2>2
<1>5. CASE I # {}
  <2>1. Max(I) \in I /\ \A k \in I : k <= Max(I)
    BY <1>5, LastPlace
  <2>2. l = Max(I)
    BY <1>5
  <2> HIDE DEF l
  <2>3. l \in 1 .. Len(entries) /\ ForkEntry(entries[l])
    BY <1>3, <2>1, <2>2
  <2>4. \A k \in 1 .. Len(entries) : ForkEntry(entries[k]) => k <= l
    BY <1>3, <2>1, <2>2
  <2> HIDE DEF I
  <2> QED BY <1>1, <1>2, <2>3, <2>4
<1> QED BY <1>4, <1>5

\* The operations that were begun after the last fork, where that is known,
LEMMA BegunAt ==
  ASSUME NEW entries, Len(entries) \in Nat, NEW l \in 0 .. Len(entries),
         l # 0 => ForkEntry(entries[l]),
         \A i \in l + 1 .. Len(entries) : ~ForkEntry(entries[i])
  PROVE  Log!Begun(entries) = BegunAfter(entries, l)
<1>1. PICK m \in 0 .. Len(entries) :
        /\ m # 0 => ForkEntry(entries[m])
        /\ \A k \in 1 .. Len(entries) : ForkEntry(entries[k]) => k <= m
        /\ Log!Begun(entries) = BegunAfter(entries, m)
  BY LogForkPlace
<1>2. m = l
  <2>1. l <= m
    BY <1>1
  <2>2. m <= l
    BY <1>1
  <2> QED BY <2>1, <2>2
<1> QED BY <1>1, <1>2

\* and where none was begun.
LEMMA BegunNone ==
  ASSUME NEW entries, Len(entries) \in Nat,
         \A i \in 1 .. Len(entries) : \A o : ~Starts(entries[i], o)
  PROVE  Log!Begun(entries) = {}
<1>1. PICK l \in 0 .. Len(entries) : Log!Begun(entries) = BegunAfter(entries, l)
  BY LogForkPlace
<1>2. BegunAfter(entries, l) = {}
  <2>1. \A i \in l + 1 .. Len(entries) : i \in 1 .. Len(entries)
    OBVIOUS
  <2> QED BY <2>1 DEF BegunAfter
<1> QED BY <1>1, <1>2

\* One entry more: what it begins.
LEMMA BegunMore ==
  ASSUME NEW s \in Seq(LogEntries), NEW e \in LogEntries, NEW l \in 0 .. Len(s)
  PROVE  BegunAfter(Append(s, e), l) = BegunAfter(s, l) \cup {o \in Ops : Starts(e, o)}
<1> DEFINE t == Append(s, e)
           n == Len(s)
<1>1. n \in Nat /\ Len(t) = n + 1 /\ t[n + 1] = e /\ \A i \in 1 .. n : t[i] = s[i]
  BY LenProperties, AppendProperties
<1> HIDE DEF t, n
<1>2. l \in Nat /\ l <= n
  BY DEF n
<1>3. \A i \in l + 1 .. n + 1 : i = n + 1 \/ i \in l + 1 .. n
  BY <1>1
<1>4. n + 1 \in l + 1 .. n + 1 /\ \A i \in l + 1 .. n : i \in l + 1 .. n + 1 /\ i \in 1 .. n
  BY <1>1, <1>2
<1>5. ASSUME NEW o PROVE (\E i \in l + 1 .. n + 1 : Starts(t[i], o))
                           <=> (\E i \in l + 1 .. n : Starts(s[i], o)) \/ Starts(e, o)
  BY <1>1, <1>3, <1>4
<1>6. BegunAfter(t, l) = {o \in Ops : \E i \in l + 1 .. n + 1 : Starts(t[i], o)}
  BY <1>1 DEF BegunAfter
<1>7. BegunAfter(s, l) = {o \in Ops : \E i \in l + 1 .. n : Starts(s[i], o)}
  BY DEF BegunAfter, n
<1> QED BY <1>5, <1>6, <1>7 DEF t

\* Items as entries.
Written(items) == [i \in 1 .. Len(items) |-> Entry(items[i])]

\* One item more.
LEMMA WrittenMore ==
  ASSUME NEW s \in Seq(WholeItems), NEW e \in WholeItems
  PROVE  /\ Written(s) \in Seq(LogEntries) /\ Len(Written(s)) = Len(s)
         /\ Written(Append(s, e)) = Append(Written(s), Entry(e))
<1> DEFINE W == {Entry(item) : item \in WholeItems}
<1>1. ASSUME NEW x \in Seq(WholeItems)
      PROVE  /\ Written(x) \in Seq(LogEntries) /\ Len(Written(x)) = Len(x)
             /\ \A i \in 1 .. Len(x) : Written(x)[i] = Entry(x[i])
  <2>1. Len(x) \in Nat /\ \A i \in 1 .. Len(x) : x[i] \in WholeItems
    BY LenProperties, ElementOfSeq
  <2>2. \A i \in 1 .. Len(x) : Entry(x[i]) \in LogEntries
    BY <2>1 DEF Entry, LogEntries
  <2> DEFINE w == Written(x)
  <2>3. w = [i \in 1 .. Len(x) |-> Entry(x[i])]
    BY DEF Written
  <2> HIDE DEF w
  <2>4. w \in [1 .. Len(x) -> LogEntries] /\ \A i \in 1 .. Len(x) : w[i] = Entry(x[i])
    BY <2>2, <2>3
  <2>5. w \in Seq(LogEntries)
    BY <2>1, <2>4, SeqDef
  <2>6. Len(w) = Len(x)
    BY <2>1, <2>4, <2>5, LenProperties
  <2> QED BY <2>4, <2>5, <2>6 DEF w
<1> DEFINE t == Append(s, e)
           n == Len(s)
<1>2. /\ n \in Nat /\ t \in Seq(WholeItems) /\ Len(t) = n + 1 /\ t[n + 1] = e
      /\ \A i \in 1 .. n : t[i] = s[i]
  BY LenProperties, AppendProperties
<1>3. Entry(e) \in LogEntries
  BY DEF Entry, LogEntries
<1> DEFINE u == Append(Written(s), Entry(e))
<1>4. /\ u \in Seq(LogEntries) /\ Len(u) = n + 1 /\ u[n + 1] = Entry(e)
      /\ \A i \in 1 .. n : u[i] = Entry(s[i])
  BY <1>1, <1>3, AppendProperties
<1>5. /\ Written(t) \in Seq(LogEntries) /\ Len(Written(t)) = n + 1
      /\ \A i \in 1 .. n + 1 : Written(t)[i] = Entry(t[i])
  BY <1>1, <1>2
<1> HIDE DEF u, t, n
<1>6. \A i \in 1 .. n + 1 : i = n + 1 \/ i \in 1 .. n
  BY <1>2
<1>7. \A i \in 1 .. n + 1 : Written(t)[i] = u[i]
  BY <1>2, <1>4, <1>5, <1>6
<1>8. Written(t) = u
  BY <1>4, <1>5, <1>7, SeqEqual
<1> QED BY <1>1, <1>8 DEF t, u

\* Which entries are of items.
LEMMA ItemEntriesAre ==
  /\ \A item \in WholeItems : Entry(item) \in Log!ItemEntries
  /\ \A e : e.type = "operation" => e \notin Log!ItemEntries
<1>1. ASSUME NEW item \in WholeItems PROVE Entry(item) \in Log!ItemEntries
  <2>v. \A v \in FullValues : v \in Log!Values
    BY DEF FullValues, Log!Values, Unfinished, Log!Unfinished, Bare, Log!Bare
  <2>1. CASE item.kind = "input"
    <3>1. PICK id \in Prompts \cup Settings : item = [kind |-> "input", id |-> id]
      BY <2>1 DEF WholeItems
    <3>w. Entry(item) = Log!ItemEntry(Log!InputItem(id))
      BY <3>1, Zenon DEF Entry, Log!ItemEntry, Log!InputItem
    <3> QED BY <3>w DEF Log!ItemEntries
  <2>2. CASE item.kind = "turn"
    <3>1. PICK t \in Turns, p \in Turns \cup {None} :
            item = [kind |-> "turn", turn |-> t, previous |-> p]
      BY <2>2 DEF WholeItems
    <3>w. Entry(item) = Log!ItemEntry(Log!TurnItem(t, p))
      BY <3>1, Zenon DEF Entry, Log!ItemEntry, Log!TurnItem
    <3> QED BY <3>w DEF Log!ItemEntries
  <2>3. CASE item.kind = "response"
    <3>1. PICK t \in Turns : item = [kind |-> "response", turn |-> t]
      BY <2>3 DEF WholeItems
    <3>w. Entry(item) = Log!ItemEntry(Log!ResponseItem(t))
      BY <3>1, Zenon DEF Entry, Log!ItemEntry, Log!ResponseItem
    <3> QED BY <3>w DEF Log!ItemEntries
  <2>4. CASE item.kind = "status"
    <3>1. PICK t \in Turns, o \in Ops, v \in FullValues \cup {None} :
            item = [kind |-> "status", turn |-> t, op |-> o, value |-> v]
      BY <2>4 DEF WholeItems
    <3>2. v \in Log!Values \cup {None}
      BY <2>v, <3>1
    <3>w. Entry(item) = Log!ItemEntry(Log!StatusItem(t, o, v))
      BY <3>1, Zenon DEF Entry, Log!ItemEntry, Log!StatusItem
    <3> QED BY <3>2, <3>w DEF Log!ItemEntries
  <2>5. CASE item.kind = "fork"
    <3>1. PICK p \in Turns \cup {None} : item = [kind |-> "fork", previous |-> p]
      BY <2>5 DEF WholeItems
    <3>w. Entry(item) = Log!ItemEntry(Log!ForkItem(p))
      BY <3>1, Zenon DEF Entry, Log!ItemEntry, Log!ForkItem
    <3> QED BY <3>w DEF Log!ItemEntries
  <2>6. item.kind \in {"input", "turn", "response", "status", "fork"}
    BY DEF WholeItems
  <2> QED BY <2>1, <2>2, <2>3, <2>4, <2>5, <2>6
<1>2. \A e \in Log!ItemEntries : e.type = "item"
  BY DEF Log!ItemEntries, Log!ItemEntry
<1> QED BY <1>1, <1>2

\* What is known of the entries of the first k records: of another session's there is one for
\* each; the operations begun after them are those the head has; and their items are those read.
ListsAt(records, k) ==
  LET f == LastFork(records)
      a == Reading(records, f, k)
      entries == Lists(records, k)
  IN /\ entries \in Seq(LogEntries)
     /\ k <= f => /\ Len(entries) = k
                  /\ \A i \in 1 .. k : entries[i] = Entry(records[i].item)
     /\ k >= f => /\ f <= Len(entries) /\ (f # 0 => ForkEntry(entries[f]))
                  /\ \A i \in f + 1 .. Len(entries) : ~ForkEntry(entries[i])
                  /\ BegunAfter(entries, f) = DOMAIN a.head.ops
     /\ Log!Only(entries, Log!ItemEntries) = Written(a.items)

\* It is known of no records,
LEMMA ListsAtFirst ==
  ASSUME NEW records \in Seq(Records), Legible(records)
  PROVE  ListsAt(records, 0)
<1> DEFINE f == LastFork(records)
           a == Reading(records, f, 0)
           entries == Lists(records, 0)
<1>1. f \in Nat
  BY LegibleParts DEF Parts
<1>2. a = Read0 /\ entries = <<>>
  BY <1>1, ReadingSteps, ListsStep
<1>3. a.items = <<>> /\ a.head.ops = <<>>
  BY <1>2 DEF Read0, NewHead
<1>4. entries \in Seq(LogEntries) /\ Len(entries) = 0
  BY <1>2, EmptySeq
<1>5. Log!Only(entries, Log!ItemEntries) = <<>>
  <2>1. <<>> \in Seq(WholeItems) /\ <<>> \in Seq({1}) /\ 1 \in {1}
    BY EmptySeq
  <2> QED BY <1>2, <2>1, OnlyIs
<1>6. Written(a.items) = <<>>
  <2>1. Len(a.items) = 0 /\ a.items \in Seq(WholeItems)
    BY <1>3, EmptySeq
  <2>2. Written(a.items) = [i \in 1 .. 0 |-> Entry(a.items[i])]
    BY <2>1 DEF Written
  <2> QED BY <2>2
<1>7. BegunAfter(entries, 0) = {}
  BY <1>4 DEF BegunAfter
<1> HIDE DEF f, a, entries
<1>8. 0 >= f => f = 0
  BY <1>1
<1>9. DOMAIN a.head.ops = {}
  BY <1>3, NoOps
<1>10. \A i \in 1 .. 0 : FALSE
  OBVIOUS
<1>11. 0 >= f => /\ f <= Len(entries) /\ (f # 0 => ForkEntry(entries[f]))
                 /\ \A i \in f + 1 .. Len(entries) : ~ForkEntry(entries[i])
                 /\ BegunAfter(entries, f) = DOMAIN a.head.ops
  <2> SUFFICES ASSUME f = 0
               PROVE  /\ f <= Len(entries) /\ (f # 0 => ForkEntry(entries[f]))
                      /\ \A i \in f + 1 .. Len(entries) : ~ForkEntry(entries[i])
                      /\ BegunAfter(entries, f) = DOMAIN a.head.ops
    BY <1>8
  <2>1. \A i \in f + 1 .. Len(entries) : FALSE
    BY <1>4
  <2> QED BY <1>4, <1>7, <1>9, <2>1
<1>12. \A i \in 1 .. 0 : entries[i] = Entry(records[i].item)
  BY <1>10
<1> QED BY <1>4, <1>5, <1>6, <1>11, <1>12 DEF ListsAt, f, a, entries

\* of one more that was inherited,
LEMMA ListsAtInherited ==
  ASSUME NEW records \in Seq(Records), Legible(records),
         NEW k \in Nat, k + 1 <= LastFork(records), ListsAt(records, k)
  PROVE  ListsAt(records, k + 1)
<1> DEFINE f == LastFork(records)
           a == Reading(records, f, k)
           b == Reading(records, f, k + 1)
           record == records[k + 1]
           was == Lists(records, k)
           now == Lists(records, k + 1)
<1>0. Parts(records, f, Len(records))
  BY LegibleParts
<1>g. k + 1 <= f
  OBVIOUS
<1>1. f \in Nat /\ f <= Len(records) /\ k + 1 <= Len(records) /\ k <= f /\ (f # 0 => IsFork(records[f]))
  <2>1. f \in Nat /\ f <= Len(records) /\ Len(records) \in Nat /\ (f # 0 => IsFork(records[f]))
    BY <1>0 DEF Parts
  <2> HIDE DEF f
  <2> QED BY <1>g, <2>1
<1>2. Grows(records, f, k) /\ Adds(records, k)
  BY <1>1, Growing, Adding
<1>3. /\ was \in Seq(LogEntries) /\ Len(was) = k
      /\ \A i \in 1 .. k : was[i] = Entry(records[i].item)
      /\ Log!Only(was, Log!ItemEntries) = Written(a.items)
  BY <1>1 DEF ListsAt
<1>4. /\ IsItem(record) /\ Readable(a) /\ b.head.ops = <<>>
      /\ record.item.kind = "status" => record.item.value = None
      /\ b.items = Append(a.items, record.item)
      /\ \E x \in WholeItems : b.items = Append(a.items, x)
  BY <1>2, <1>g DEF Grows
<1>5. PICK item : /\ ListsItem(records, k, item)
                  /\ now = Append(was, Entry(item)) /\ Entry(item) \in LogEntries
  BY <1>2, <1>4 DEF Adds
<1>6. item \in WholeItems /\ b.items = Append(a.items, item)
  BY <1>5 DEF ListsItem
<1> HIDE DEF f, a, b, record, was, now
<1>7. a.items \in Seq(WholeItems) /\ Len(a.items) \in Nat
  BY <1>4, ReadableParts
<1>8. item = record.item
  <2> DEFINE T == WholeItems \cup {record.item}
             n == Len(a.items)
             s == Append(a.items, item)
             t == Append(a.items, record.item)
  <2>1. a.items \in Seq(T) /\ item \in T /\ record.item \in T
    BY <1>6, <1>7, SeqMonotonic
  <2> HIDE DEF T
  <2>2. s[n + 1] = item /\ t[n + 1] = record.item
    BY <2>1, AppendProperties
  <2>3. s = t
    BY <1>4, <1>6
  <2> HIDE DEF s, t
  <2> QED BY <2>2, <2>3
<1> DEFINE e == Entry(item)
<1>9. /\ now \in Seq(LogEntries) /\ Len(now) = k + 1 /\ now[k + 1] = e
      /\ \A i \in 1 .. k : now[i] = was[i]
  BY <1>3, <1>5, AppendProperties
<1>10. \A i \in 1 .. k + 1 : now[i] = Entry(records[i].item)
  <2>1. \A i \in 1 .. k + 1 : i = k + 1 \/ i \in 1 .. k
    OBVIOUS
  <2>2. e = Entry(records[k + 1].item)
    BY <1>8 DEF record
  <2> HIDE DEF e
  <2> QED BY <1>3, <1>9, <2>1, <2>2
<1>11. Log!Only(now, Log!ItemEntries) = Written(b.items)
  <2>1. Log!Only(now, Log!ItemEntries) = Pick(Log!Only(was, Log!ItemEntries), e, Log!ItemEntries)
    BY <1>3, <1>5, OnlyIs
  <2>2. e \in Log!ItemEntries
    BY <1>6, ItemEntriesAre
  <2>3. Written(b.items) = Append(Written(a.items), e)
    BY <1>6, <1>7, WrittenMore
  <2> HIDE DEF e
  <2> QED BY <1>3, <2>1, <2>2, <2>3 DEF Pick
<1>12. k + 1 >= f => /\ f <= Len(now) /\ (f # 0 => ForkEntry(now[f]))
                     /\ \A i \in f + 1 .. Len(now) : ~ForkEntry(now[i])
                     /\ BegunAfter(now, f) = DOMAIN b.head.ops
  <2> SUFFICES ASSUME k + 1 >= f
               PROVE  /\ f <= Len(now) /\ (f # 0 => ForkEntry(now[f]))
                      /\ \A i \in f + 1 .. Len(now) : ~ForkEntry(now[i])
                      /\ BegunAfter(now, f) = DOMAIN b.head.ops
    OBVIOUS
  <2>1. f = k + 1
    BY <1>1, <1>g
  <2>2. ForkEntry(now[f])
    <3>1. IsFork(records[f])
      BY <1>1, <2>1
    <3>2. now[f] = Entry(records[f].item)
      <4>1. f \in 1 .. k + 1
        BY <1>1, <2>1
      <4> QED BY <1>10, <4>1
    <3>3. Entry(records[f].item).type = "item" /\ Entry(records[f].item).item = records[f].item
      BY EntryParts
    <3> QED BY <3>1, <3>2, <3>3 DEF ForkEntry, IsFork
  <2>3. \A i \in f + 1 .. Len(now) : FALSE
    BY <1>9, <2>1
  <2>4. BegunAfter(now, f) = {}
    BY <2>3 DEF BegunAfter
  <2> QED BY <1>4, <1>9, <2>1, <2>2, <2>3, <2>4, NoOps
<1> QED BY <1>9, <1>10, <1>11, <1>12 DEF ListsAt, f, b, now

\* of one more of the session itself,
LEMMA ListsAtOwn ==
  ASSUME NEW records \in Seq(Records), Legible(records),
         NEW k \in Nat, k >= LastFork(records), k + 1 <= Len(records), ListsAt(records, k)
  PROVE  ListsAt(records, k + 1)
<1> DEFINE f == LastFork(records)
           a == Reading(records, f, k)
           b == Reading(records, f, k + 1)
           record == records[k + 1]
           was == Lists(records, k)
           now == Lists(records, k + 1)
<1>1. f \in Nat
  BY LegibleParts DEF Parts
<1>g. k >= f
  OBVIOUS
<1>2. Grows(records, f, k) /\ Adds(records, k)
  BY Growing, Adding
<1>3. /\ was \in Seq(LogEntries) /\ now \in Seq(LogEntries)
      /\ f <= Len(was) /\ (f # 0 => ForkEntry(was[f]))
      /\ \A i \in f + 1 .. Len(was) : ~ForkEntry(was[i])
      /\ BegunAfter(was, f) = DOMAIN a.head.ops
      /\ Log!Only(was, Log!ItemEntries) = Written(a.items)
  BY <1>2, <1>g DEF ListsAt, Adds
<1>4. /\ Readable(a) /\ record \in Records
      /\ IF IsStatus(record) /\ record.item.value # None
         THEN DOMAIN b.head.ops = DOMAIN a.head.ops \cup {record.item.op}
         ELSE DOMAIN b.head.ops = DOMAIN a.head.ops
  <2>1. /\ Readable(a) /\ record \in Records
        /\ IF IsStatus(record) /\ record.item.value # None
           THEN DOMAIN b.head.ops = DOMAIN a.head.ops \cup {record.item.op}
           ELSE IF record.type = "operation"
           THEN b.head.ops = [a.head.ops EXCEPT ![record.op] = record.value]
           ELSE b.head.ops = a.head.ops
    BY <1>2 DEF Grows
  <2>2. DOMAIN [a.head.ops EXCEPT ![record.op] = record.value] = DOMAIN a.head.ops
    OBVIOUS
  <2> HIDE DEF a, b, record
  <2> QED BY <2>1, <2>2
<1>f. ~IsFork(record)
  <2>1. k + 1 > f
    BY <1>1, <1>g
  <2> QED BY <1>2, <2>1 DEF Grows
<1>5. /\ IsItem(record) => \E item : /\ ListsItem(records, k, item)
                                     /\ Entry(item) \in LogEntries
                                     /\ now = Append(was, Entry(item))
      /\ record.type = "operation" => /\ record \in LogEntries /\ now = Append(was, record)
                                      /\ b.items = a.items
      /\ record.type = "checkpoint" => now = was /\ b.items = a.items
  BY <1>2 DEF Adds
<1>b. \A item : ListsItem(records, k, item) =>
        /\ item \in WholeItems /\ b.items = Append(a.items, item)
        /\ item.kind = record.item.kind
        /\ record.item.kind = "status" =>
             item.op = record.item.op /\ (item.value = None <=> record.item.value = None)
  BY DEF ListsItem
<1> HIDE DEF f, a, b, record, was, now
<1>6. a.items \in Seq(WholeItems) /\ DOMAIN a.head.ops \subseteq Ops
  BY <1>4, ReadableParts, HeadParts
<1>7. ASSUME NEW e \in LogEntries, now = Append(was, e), ~ForkEntry(e),
             DOMAIN b.head.ops = DOMAIN a.head.ops \cup {o \in Ops : Starts(e, o)},
             Pick(Written(a.items), e, Log!ItemEntries) = Written(b.items)
      PROVE  /\ f <= Len(now) /\ (f # 0 => ForkEntry(now[f]))
             /\ \A i \in f + 1 .. Len(now) : ~ForkEntry(now[i])
             /\ BegunAfter(now, f) = DOMAIN b.head.ops
             /\ Log!Only(now, Log!ItemEntries) = Written(b.items)
  <2> DEFINE n == Len(was)
  <2>1. n \in Nat /\ f <= n
    BY <1>3, LenProperties
  <2>2. Len(now) = n + 1 /\ now[n + 1] = e /\ \A i \in 1 .. n : now[i] = was[i]
    BY <1>3, <1>7, AppendProperties
  <2>4. Log!Only(now, Log!ItemEntries) = Pick(Log!Only(was, Log!ItemEntries), e, Log!ItemEntries)
    BY <1>3, <1>7, OnlyIs
  <2>5. BegunAfter(now, f) = BegunAfter(was, f) \cup {o \in Ops : Starts(e, o)}
    BY <1>1, <1>3, <1>7, <2>1, BegunMore
  <2>n. \A i \in f + 1 .. n : ~ForkEntry(was[i])
    BY <1>3
  <2> HIDE DEF n
  <2>6. \A i \in f + 1 .. n + 1 : i = n + 1 \/ (i \in f + 1 .. n /\ i \in 1 .. n)
    BY <1>1, <2>1
  <2>7. \A i \in f + 1 .. n + 1 : ~ForkEntry(now[i])
    BY <1>7, <2>2, <2>6, <2>n
  <2>8. f # 0 => ForkEntry(now[f])
    BY <1>1, <1>3, <2>1, <2>2
  <2>9. f <= n + 1
    BY <1>1, <2>1
  <2> QED BY <1>3, <1>7, <2>2, <2>4, <2>5, <2>7, <2>8, <2>9
<1>8. CASE IsItem(record)
  <2>1. PICK item : /\ ListsItem(records, k, item)
                    /\ Entry(item) \in LogEntries /\ now = Append(was, Entry(item))
    BY <1>5, <1>8
  <2>2. /\ item \in WholeItems /\ b.items = Append(a.items, item)
        /\ item.kind = record.item.kind
        /\ record.item.kind = "status" =>
             item.op = record.item.op /\ (item.value = None <=> record.item.value = None)
    BY <1>b, <2>1
  <2> DEFINE e == Entry(item)
  <2>3. e.type = "item" /\ e.item = item
    BY EntryParts
  <2>4. e \in LogEntries /\ now = Append(was, e)
    BY <2>1
  <2>5. e \in Log!ItemEntries
    BY <2>2, ItemEntriesAre
  <2>6. Written(b.items) = Append(Written(a.items), e)
    BY <1>6, <2>2, WrittenMore
  <2> HIDE DEF e
  <2>7. ~ForkEntry(e)
    BY <1>8, <1>f, <2>2, <2>3 DEF ForkEntry, IsFork
  <2>8. DOMAIN b.head.ops = DOMAIN a.head.ops \cup {o \in Ops : Starts(e, o)}
    <3>1. CASE IsStatus(record) /\ record.item.value # None
      <4>1. record.item.op \in Ops
        <5>1. record.item \in RecordedItems /\ record.item.kind = "status"
          BY <1>4, <1>8, <3>1, RecordKinds DEF IsStatus
        <5> QED BY <5>1 DEF RecordedItems
      <4>2. {o \in Ops : Starts(e, o)} = {record.item.op}
        BY <2>2, <2>3, <3>1, <4>1 DEF Starts, IsStatus
      <4> QED BY <1>4, <3>1, <4>2
    <3>2. CASE ~(IsStatus(record) /\ record.item.value # None)
      <4>1. \A o : ~Starts(e, o)
        BY <1>8, <2>2, <2>3, <3>2 DEF Starts, IsStatus
      <4>2. {o \in Ops : Starts(e, o)} = {}
        BY <4>1
      <4> QED BY <1>4, <3>2, <4>2
    <3> QED BY <3>1, <3>2
  <2>9. Pick(Written(a.items), e, Log!ItemEntries) = Written(b.items)
    BY <2>5, <2>6 DEF Pick
  <2>10. k + 1 <= f => FALSE
    BY <1>1, <1>g
  <2> QED BY <1>3, <1>7, <2>4, <2>7, <2>8, <2>9, <2>10 DEF ListsAt, f, b, now
<1>9. CASE record.type = "operation"
  <2>1. record \in LogEntries /\ now = Append(was, record) /\ b.items = a.items
    BY <1>5, <1>9
  <2>2. ~ForkEntry(record) /\ \A o : ~Starts(record, o)
    BY <1>9 DEF ForkEntry, Starts
  <2>3. {o \in Ops : Starts(record, o)} = {}
    BY <2>2
  <2>4. DOMAIN b.head.ops = DOMAIN a.head.ops
    BY <1>4, <1>9 DEF IsStatus, IsItem
  <2>5. record \notin Log!ItemEntries
    BY <1>9, ItemEntriesAre
  <2>6. Pick(Written(a.items), record, Log!ItemEntries) = Written(b.items)
    BY <2>1, <2>5 DEF Pick
  <2>10. k + 1 <= f => FALSE
    BY <1>1, <1>g
  <2> QED BY <1>3, <1>7, <2>1, <2>2, <2>3, <2>4, <2>6, <2>10 DEF ListsAt, f, b, now
<1>10. CASE record.type = "checkpoint"
  <2>1. now = was /\ b.items = a.items
    BY <1>5, <1>10
  <2>2. DOMAIN b.head.ops = DOMAIN a.head.ops
    BY <1>4, <1>10 DEF IsStatus, IsItem
  <2>10. k + 1 <= f => FALSE
    BY <1>1, <1>g
  <2> QED BY <1>3, <2>1, <2>2, <2>10 DEF ListsAt, f, b, now
<1>11. record.type \in {"item", "operation", "checkpoint"}
  BY <1>4, RecordKinds
<1> QED BY <1>8, <1>9, <1>10, <1>11 DEF IsItem

\* and so of all of them.
LEMMA ListsAtEach ==
  ASSUME NEW records \in Seq(Records), Legible(records), NEW k \in Nat, k <= Len(records)
  PROVE  ListsAt(records, k)
<1> DEFINE S == {m \in Nat : m <= Len(records) => ListsAt(records, m)}
<1>l. Len(records) \in Nat /\ LastFork(records) \in Nat
  BY LenProperties, LegibleParts DEF Parts
<1>1. 0 \in S
  BY ListsAtFirst
<1>2. ASSUME NEW m \in Nat, m \in S PROVE m + 1 \in S
  <2> SUFFICES ASSUME m + 1 <= Len(records) PROVE ListsAt(records, m + 1)
    OBVIOUS
  <2>1. ListsAt(records, m)
    BY <1>2, <1>l
  <2>2. CASE m + 1 <= LastFork(records)
    BY <2>1, <2>2, ListsAtInherited
  <2>3. CASE m >= LastFork(records)
    BY <2>1, <2>3, ListsAtOwn
  <2> QED BY <1>l, <2>2, <2>3
<1> HIDE DEF S
<1>3. k \in S
  BY <1>1, <1>2, NatSetInduction
<1> QED BY <1>3 DEF S

-----------------------------------------------------------------------------
(* More about the entries that are in a set *)

\* Of what is not in the set, none is.
LEMMA PickingNothing ==
  ASSUME NEW entries, NEW chosen, NEW n \in Nat, \A i \in 1 .. n : entries[i] \notin chosen
  PROVE  Picking(entries, chosen, n) = <<>>
<1> DEFINE S == {m \in Nat : m <= n => Picking(entries, chosen, m) = <<>>}
<1>1. 0 \in S
  BY PickingSteps
<1>2. ASSUME NEW m \in Nat, m \in S PROVE m + 1 \in S
  <2> SUFFICES ASSUME m + 1 <= n PROVE Picking(entries, chosen, m + 1) = <<>>
    OBVIOUS
  <2>1. Picking(entries, chosen, m) = <<>> /\ m + 1 \in 1 .. n
    BY <1>2
  <2>2. entries[m + 1] \notin chosen
    BY <2>1
  <2>3. Picking(entries, chosen, m + 1) = Pick(Picking(entries, chosen, m), entries[m + 1], chosen)
    BY PickingSteps
  <2> QED BY <2>1, <2>2, <2>3 DEF Pick
<1> HIDE DEF S
<1>3. n \in S
  BY <1>1, <1>2, NatSetInduction
<1>4. n <= n
  OBVIOUS
<1> QED BY <1>3, <1>4 DEF S

LEMMA OnlyNothing ==
  ASSUME NEW S, NEW s \in Seq(S), NEW chosen, \A i \in 1 .. Len(s) : s[i] \notin chosen
  PROVE  Log!Only(s, chosen) = <<>>
<1>1. Len(s) \in Nat
  BY LenProperties
<1>2. Picking(s, chosen, Len(s)) = <<>>
  BY <1>1, PickingNothing
<1> QED BY <1>2, OnlyIsPicking

\* What is after a place, when an entry is added.
Rest(s, n) == SubSeq(s, n + 1, Len(s))

LEMMA RestIs ==
  ASSUME NEW S, NEW s \in Seq(S), NEW n \in 0 .. Len(s)
  PROVE  /\ Rest(s, n) \in Seq(S) /\ Len(Rest(s, n)) = Len(s) - n
         /\ \A i \in 1 .. Len(s) - n : Rest(s, n)[i] = s[n + i]
<1>1. n + 1 \in 1 .. Len(s) + 1 /\ Len(s) \in n .. Len(s) /\ Len(s) \in Nat
  BY LenProperties
<1>2. /\ SubSeq(s, n + 1, Len(s)) \in Seq(S)
      /\ Len(SubSeq(s, n + 1, Len(s))) = Len(s) - n
  <2>1. SubSeq(s, n + 1, Len(s)) \in Seq(S)
    BY <1>1, SubSeqProperties
  <2>2. n + 1 \in Nat /\ Len(s) - (n + 1) + 1 = Len(s) - n
    BY <1>1
  <2>3. Len(SubSeq(s, n + 1, Len(s))) = IF n + 1 <= Len(s) THEN Len(s) - (n + 1) + 1 ELSE 0
    BY <1>1, SubSeqProperties
  <2>4. ASSUME NEW l \in Nat, n \in 0 .. l, NEW x, x = IF n + 1 <= l THEN l - (n + 1) + 1 ELSE 0
        PROVE  x = l - n
    BY <2>4
  <2>5. Len(SubSeq(s, n + 1, Len(s))) = Len(s) - n
    BY <1>1, <2>3, <2>4
  <2> QED BY <2>1, <2>5
<1>3. \A i \in 1 .. Len(s) - n : SubSeq(s, n + 1, Len(s))[i] = s[n + i]
  <2> TAKE i \in 1 .. Len(s) - n
  <2>1. SubSeq(s, n + 1, Len(s))[i] = s[(n + 1) + i - 1]
    BY <1>1, <1>2, SubSeqProperties
  <2>2. (n + 1) + i - 1 = n + i
    BY <1>1
  <2> QED BY <2>1, <2>2
<1> QED BY <1>2, <1>3 DEF Rest

LEMMA RestMore ==
  ASSUME NEW S, NEW s \in Seq(S), NEW e \in S, NEW n \in 0 .. Len(s)
  PROVE  Rest(Append(s, e), n) = Append(Rest(s, n), e)
<1>1. Len(Append(s, e)) = Len(s) + 1
  BY LenOfAppend
<1> QED BY <1>1, AppendToRest DEF Rest

LEMMA RestNone ==
  ASSUME NEW S, NEW s \in Seq(S)
  PROVE  Rest(s, Len(s)) = <<>>
BY NoneOfIt DEF Rest

\* The beginning of a sequence.
LEMMA BeginningIs ==
  ASSUME NEW S, NEW a \in Seq(S), NEW b \in Seq(S), Begins(a, b)
  PROVE  /\ SubSeq(b, 1, Len(a)) = a
         /\ b = a \o Rest(b, Len(a))
<1> DEFINE n == Len(a)
           m == Len(b)
<1>1. n \in Nat /\ m \in Nat /\ n <= m /\ \A i \in 1 .. n : b[i] = a[i]
  BY LenProperties DEF Begins
<1>2. SubSeq(b, 1, n) = a
  <2>1. n \in 0 .. m /\ 1 \in 1 .. m + 1 /\ n \in 1 - 1 .. m
    BY <1>1
  <2>2. SubSeq(b, 1, n) \in Seq(S)
    BY <2>1, SubSeqProperties
  <2>3. Len(SubSeq(b, 1, n)) = n
    <3>1. Len(SubSeq(b, 1, n)) = IF 1 <= n THEN n - 1 + 1 ELSE 0
      BY <2>1, SubSeqProperties
    <3> QED BY <1>1, <3>1
  <2>4. \A i \in 1 .. n : SubSeq(b, 1, n)[i] = a[i]
    <3> TAKE i \in 1 .. n
    <3>1. SubSeq(b, 1, n)[i] = b[1 + i - 1] /\ 1 + i - 1 = i
      BY <2>1, <2>3, SubSeqProperties
    <3> QED BY <1>1, <3>1
  <2> HIDE DEF n
  <2> QED BY <2>2, <2>3, <2>4, SeqEqual DEF n
<1>3. b = a \o Rest(b, n)
  <2> DEFINE r == Rest(b, n)
             t == a \o r
  <2>1. n \in 0 .. m
    BY <1>1
  <2>2. r \in Seq(S) /\ Len(r) = m - n /\ \A i \in 1 .. m - n : r[i] = b[n + i]
    BY <2>1, RestIs
  <2> HIDE DEF r
  <2>3. t \in Seq(S) /\ Len(t) = n + Len(r) /\ \A i \in 1 .. n + Len(r) : t[i] = IF i <= n THEN a[i] ELSE r[i - n]
    BY <2>2, ConcatProperties
  <2> HIDE DEF n, m, t
  <2>4. Len(t) = m
    BY <1>1, <2>2, <2>3
  <2>5. \A i \in 1 .. m : t[i] = b[i]
    <3> TAKE i \in 1 .. m
    <3>1. t[i] = IF i <= n THEN a[i] ELSE r[i - n]
      BY <2>3, <2>4
    <3>2. CASE i <= n
      <4>1. i \in 1 .. n
        BY <1>1, <3>2
      <4> QED BY <1>1, <3>1, <3>2, <4>1
    <3>3. CASE ~(i <= n)
      <4>1. i - n \in 1 .. m - n /\ n + (i - n) = i
        BY <1>1, <3>3
      <4>2. r[i - n] = b[n + (i - n)]
        BY <2>2, <4>1
      <4> QED BY <3>1, <3>3, <4>1, <4>2
    <3> QED BY <3>2, <3>3
  <2>6. b = t
    BY <2>3, <2>4, <2>5, SeqEqual DEF m
  <2> QED BY <2>6 DEF t, r
<1> QED BY <1>2, <1>3

\* The entries of more records begin with those of fewer.
LEMMA BeginsItself ==
  ASSUME NEW S, NEW s \in Seq(S)
  PROVE  Begins(s, s)
BY LenProperties DEF Begins

LEMMA ListsBegin ==
  ASSUME NEW records \in Seq(Records), Legible(records),
         NEW n \in Nat, NEW k \in Nat, n <= k, k <= Len(records)
  PROVE  Begins(Lists(records, n), Lists(records, k))
<1> DEFINE S == {m \in Nat : n <= m /\ m <= Len(records) => Begins(Lists(records, n), Lists(records, m))}
<1>l. Len(records) \in Nat
  BY LenProperties
<1>0. ASSUME NEW m \in Nat, m <= Len(records) PROVE Lists(records, m) \in Seq(LogEntries)
  BY <1>0, ListsTyped
<1>1. 0 \in S
  <2>1. n <= 0 => n = 0
    OBVIOUS
  <2>2. Begins(Lists(records, 0), Lists(records, 0))
    BY <1>0, <1>l, BeginsItself
  <2> QED BY <2>1, <2>2
<1>2. ASSUME NEW m \in Nat, m \in S PROVE m + 1 \in S
  <2> SUFFICES ASSUME n <= m + 1, m + 1 <= Len(records)
               PROVE  Begins(Lists(records, n), Lists(records, m + 1))
    OBVIOUS
  <2>1. CASE n = m + 1
    BY <1>0, <2>1, BeginsItself
  <2>2. CASE n # m + 1
    <3>1. n <= m /\ m <= Len(records) /\ n <= Len(records)
      BY <1>l, <2>2
    <3>2. Begins(Lists(records, n), Lists(records, m))
      BY <1>2, <3>1
    <3>3. Adds(records, m)
      BY Adding
    <3>4. \/ Lists(records, m + 1) = Lists(records, m)
          \/ \E e \in LogEntries : Lists(records, m + 1) = Append(Lists(records, m), e)
      <4>1. records[m + 1].type \in {"item", "operation", "checkpoint"}
        <5>1. m + 1 \in 1 .. Len(records)
          BY <1>l
        <5>2. records[m + 1] \in Records
          BY <5>1, ElementOfSeq
        <5> QED BY <5>2, RecordKinds
      <4> QED BY <3>3, <4>1 DEF Adds, IsItem
    <3> QED BY <1>0, <3>1, <3>2, <3>4, BeginsMore
  <2> QED BY <2>1, <2>2
<1> HIDE DEF S
<1>3. k \in S
  BY <1>1, <1>2, NatSetInduction
<1> QED BY <1>3 DEF S

-----------------------------------------------------------------------------
(* The cut, on the entries *)

\* The saves of operations.
Outcomes(owned) == {Log!SaveEntry(o, v) : o \in owned, v \in Values}

\* Which entries are saves of some operations.
LEMMA OutcomeIs ==
  ASSUME NEW owned, owned \subseteq Ops
  PROVE  /\ \A e \in LogEntries : e.type = "operation" => (e \in Outcomes(owned) <=> e.op \in owned)
         /\ \A item : Entry(item) \notin Outcomes(owned)
<1>1. ASSUME NEW e \in LogEntries, e.type = "operation"
      PROVE  e \in Outcomes(owned) <=> e.op \in owned
  <2>1. e \in [type : {"operation"}, op : Ops, value : FullValues]
    BY <1>1 DEF LogEntries
  <2>2. e = [type |-> "operation", op |-> e.op, value |-> e.value] /\ e.value \in Values
    BY <2>1, Marks
  <2>3. ASSUME NEW o, NEW v PROVE Log!SaveEntry(o, v).op = o
    BY DEF Log!SaveEntry
  <2>4. e = Log!SaveEntry(e.op, e.value)
    BY <2>2 DEF Log!SaveEntry
  <2> QED BY <2>2, <2>3, <2>4 DEF Outcomes
<1>2. ASSUME NEW item PROVE Entry(item) \notin Outcomes(owned)
  <2>1. \A o, v : Log!SaveEntry(o, v).type = "operation"
    BY DEF Log!SaveEntry
  <2>2. Entry(item).type = "item"
    BY EntryParts
  <2> QED BY <2>1, <2>2 DEF Outcomes
<1> QED BY <1>1, <1>2

SettingsEntry(entry) == entry.type = "item" /\ entry.item.kind = "input" /\ entry.item.id \in Settings

\* The cutter knows whether what it keeps ends with a mark.
Marked(records, n, cut) == n = 0 \/ IsFork(records[n]) => cut.sinceFork = 0

\* A cutter that has not found its prompt, and the entries: after those of the records it will keep
\* come settings.
CleanLists(records, j, k, cut) ==
  LET kept == Lists(records, j)
      now == Lists(records, k)
  IN /\ j \in Nat /\ j <= k
     /\ Marked(records, j, cut)
     /\ \A i \in Len(kept) + 1 .. Len(now) : SettingsEntry(now[i])

\* The cutter starts so,
LEMMA CleanListsStarts ==
  ASSUME NEW records \in Seq(Records), Legible(records)
  PROVE  CleanLists(records, 0, 0, Cutter)
<1>1. Cutter.sinceFork = 0
  BY CutterStarts
<1>2. Len(Lists(records, 0)) \in Nat
  <2>1. 0 \in Nat /\ 0 <= Len(records)
    BY LenProperties
  <2> QED BY <2>1, ListsTyped, LenProperties
<1>3. \A i \in Len(Lists(records, 0)) + 1 .. Len(Lists(records, 0)) : FALSE
  BY <1>2
<1> QED BY <1>1, <1>3 DEF CleanLists, Marked

\* The entry of an input.
LEMMA ListsInput ==
  ASSUME NEW records \in Seq(Records), Legible(records),
         NEW k \in Nat, k + 1 <= Len(records), IsItem(records[k + 1]),
         records[k + 1].item.kind = "input"
  PROVE  /\ Entry(records[k + 1].item) \in LogEntries
         /\ Lists(records, k + 1) = Append(Lists(records, k), Entry(records[k + 1].item))
<1>1. Adds(records, k)
  BY Adding
<1>2. PICK item : /\ ListsItem(records, k, item) /\ Entry(item) \in LogEntries
                  /\ Lists(records, k + 1) = Append(Lists(records, k), Entry(item))
  BY <1>1 DEF Adds
<1>3. item = records[k + 1].item
  BY <1>2 DEF ListsItem
<1> QED BY <1>2, <1>3

\* waits so while there are settings,
LEMMA CleanListsSettings ==
  ASSUME NEW records \in Seq(Records), Legible(records),
         NEW j, NEW k \in Nat, k + 1 <= Len(records), NEW prompt,
         NEW cut \in CutStates, ~cut.found, CleanLists(records, j, k, cut),
         IsSettings(records[k + 1]), ~IsPrompt(records[k + 1], prompt)
  PROVE  /\ CleanLists(records, j, k + 1, CutterAdd(prompt, cut, records[k + 1], k + 1))
         /\ CutterAdd(prompt, cut, records[k + 1], k + 1).waiting = Append(cut.waiting, records[k + 1])
<1> DEFINE record == records[k + 1]
           next == CutterAdd(prompt, cut, record, k + 1)
           kept == Lists(records, j)
           was == Lists(records, k)
           now == Lists(records, k + 1)
           e == Entry(record.item)
<1>1. record \in Records
  <2>1. k + 1 \in 1 .. Len(records)
    BY LenProperties
  <2> QED BY <2>1, ElementOfSeq
<1>2. next.sinceFork = cut.sinceFork /\ next.waiting = Append(cut.waiting, record)
  BY <1>1, AddsSettings
<1>3. IsItem(record) /\ record.item.kind = "input" /\ record.item.id \in Settings
  BY DEF IsSettings
<1>4. e \in LogEntries /\ now = Append(was, e)
  BY <1>3, ListsInput
<1>5. was \in Seq(LogEntries)
  <2>1. k <= Len(records)
    BY LenProperties
  <2> QED BY <2>1, ListsTyped
<1>6. e.type = "item" /\ e.item = record.item
  BY EntryParts
<1>7. /\ j \in Nat /\ j <= k /\ Marked(records, j, cut)
      /\ \A i \in Len(kept) + 1 .. Len(was) : SettingsEntry(was[i])
  BY DEF CleanLists
<1>8. Len(kept) \in Nat /\ Len(was) \in Nat
  <2>1. j <= Len(records)
    BY <1>7, LenProperties
  <2>2. kept \in Seq(LogEntries)
    BY <1>7, <2>1, ListsTyped
  <2> QED BY <1>5, <2>2, LenProperties
<1> HIDE DEF next, e, kept, was, now, record
<1>9. \A i \in Len(kept) + 1 .. Len(now) : SettingsEntry(now[i])
  <2>1. Len(now) = Len(was) + 1 /\ now[Len(was) + 1] = e /\ \A i \in 1 .. Len(was) : now[i] = was[i]
    BY <1>4, <1>5, LenOfAppend, AppendProperties
  <2>2. SettingsEntry(e)
    BY <1>3, <1>6 DEF SettingsEntry
  <2> DEFINE l == Len(kept)
             m == Len(was)
  <2>3. l \in Nat /\ m \in Nat
    BY <1>8
  <2>4. \A i \in l + 1 .. m : SettingsEntry(was[i])
    BY <1>7
  <2> HIDE DEF l, m
  <2>5. \A i \in l + 1 .. m + 1 : i = m + 1 \/ (i \in l + 1 .. m /\ i \in 1 .. m)
    BY <2>3
  <2>6. \A i \in l + 1 .. m + 1 : SettingsEntry(now[i])
    BY <2>1, <2>2, <2>4, <2>5 DEF m
  <2> QED BY <2>1, <2>6 DEF l, m
<1>10. CleanLists(records, j, k + 1, next)
  BY <1>2, <1>7, <1>9 DEF CleanLists, Marked, kept, now
<1> QED BY <1>2, <1>10 DEF next, record

\* and starts again after anything else.
LEMMA CleanListsOther ==
  ASSUME NEW records \in Seq(Records), Legible(records),
         NEW k \in Nat, k + 1 <= Len(records), NEW prompt,
         NEW cut \in CutStates, ~cut.found,
         \A i \in 1 .. Len(cut.waiting) : IsSettings(cut.waiting[i]),
         ~IsSettings(records[k + 1]), ~IsPrompt(records[k + 1], prompt)
  PROVE  LET next == CutterAdd(prompt, cut, records[k + 1], k + 1)
         IN CleanLists(records, k + 1, k + 1, next) /\ Len(next.waiting) = 0
<1> DEFINE record == records[k + 1]
           next == CutterAdd(prompt, cut, record, k + 1)
           now == Lists(records, k + 1)
           w == Len(cut.waiting)
           u == Forward(cut, w)
<1>1. record \in Records
  <2>1. k + 1 \in 1 .. Len(records)
    BY LenProperties
  <2> QED BY <2>1, ElementOfSeq
<1>2. next = Remain(Flushed(cut), record)
  BY <1>1, AddsOther
<1>3. Flushed(cut) = u
  BY Flushing
<1>4. w \in Nat
  BY CutParts
<1>5. u \in CutStates /\ u.waiting = <<>>
  BY <1>4, ForwardParts
<1> HIDE DEF u, next
<1>6. Remained(u, next, record)
  BY <1>1, <1>2, <1>3, <1>5, Remaining
<1>7. Len(next.waiting) = 0
  <2>1. next.waiting = <<>>
    BY <1>5, <1>6 DEF Remained
  <2> QED BY <2>1, EmptySeq
<1>8. IsFork(record) => Remain(u, record).sinceFork = 0
  <2> SUFFICES ASSUME IsFork(record) PROVE Remain(u, record).sinceFork = 0
    OBVIOUS
  <2> DEFINE more == [u EXCEPT !.items = @ + 1, !.sinceFork = @ + 1]
  <2>1. IsItem(record) /\ record.item.kind = "fork"
    BY DEF IsFork
  <2>2. Remain(u, record) = [more EXCEPT !.sinceFork = 0, !.owned = {}]
    <3>1. record.item.kind # "turn" /\ ~(record.item.kind = "status" /\ record.item.value # None)
      BY <2>1
    <3> QED BY <2>1, <3>1, ZenonT(60) DEF Remain
  <2>3. more \in CutStates
    <3>1. u.items + 1 \in Nat /\ u.sinceFork + 1 \in Nat
      BY <1>5, CutParts
    <3> QED BY <1>5, <3>1 DEF CutStates
  <2> HIDE DEF more
  <2>4. [more EXCEPT !.sinceFork = 0, !.owned = {}].sinceFork = 0
    BY <2>3 DEF CutStates
  <2> QED BY <2>2, <2>4
<1>9. Marked(records, k + 1, next)
  <2>1. k + 1 # 0
    OBVIOUS
  <2> QED BY <1>2, <1>3, <1>8, <2>1 DEF Marked
<1>10. Len(now) \in Nat
  BY ListsTyped, LenProperties
<1>11. \A i \in Len(now) + 1 .. Len(now) : FALSE
  BY <1>10
<1>12. CleanLists(records, k + 1, k + 1, next)
  BY <1>9, <1>11 DEF CleanLists
<1> QED BY <1>7, <1>12 DEF next

\* What a record adds to the entries of a file.
LEMMA EntriesOfMore ==
  ASSUME NEW base \in Seq(Records), Legible(base), NEW record \in Records, ~IsFork(record)
  PROVE  Entries(Append(base, record)) = Entries(base) \o EntryOf(record, DecodeLog(base).head)
<1> DEFINE more == Append(base, record)
           f == LastFork(base)
           n == Len(base)
<1>1. n \in Nat /\ f \in Nat /\ f <= n
  BY LegibleParts DEF Parts
<1>2. /\ Len(more) = n + 1 /\ more[n + 1] = record /\ LastFork(more) = f
      /\ \A k \in 1 .. n : more[k] = base[k]
  BY DecodeAppend
<1>3. DecodeLog(base) = Reading(base, f, n)
  BY DecodeIsReading
<1> HIDE DEF more, f, n
<1>4. Alike(more, base, f, f, n)
  BY <1>1, <1>2 DEF Alike
<1>5. Listing(more, f, n) = Listing(base, f, n) /\ Reading(more, f, n) = Reading(base, f, n)
  BY <1>1, <1>4, ListingAlike, ReadingAlike
<1>6. Lists(more, n) = Lists(base, n)
  BY <1>2, <1>5 DEF Lists, f
<1>7. Lists(more, n + 1) = Lists(more, n) \o EntryOf(more[n + 1], Reading(more, f, n).head)
  BY <1>1, <1>2, ListsStep
<1>8. Entries(more) = Lists(more, n + 1) /\ Entries(base) = Lists(base, n)
  BY <1>2, EntriesAreListed DEF n
<1> QED BY <1>2, <1>3, <1>5, <1>6, <1>7, <1>8 DEF more

\* One entry at the end.
LEMMA ConcatOne ==
  ASSUME NEW S, NEW s \in Seq(S), NEW e
  PROVE  s \o <<e>> = Append(s, e)
OBVIOUS

\* A save is an entry itself.
LEMMA EntriesOfSave ==
  ASSUME NEW base \in Seq(Records), Legible(base), NEW record \in Records, record.type = "operation"
  PROVE  Entries(Append(base, record)) = Append(Entries(base), record)
<1>1. ~IsFork(record)
  BY DEF IsFork, IsItem
<1>2. EntryOf(record, DecodeLog(base).head) = <<record>>
  BY EntryIs
<1>3. Entries(base) \in Seq(LogEntries)
  <2>1. Len(base) \in Nat /\ Len(base) <= Len(base)
    BY LenProperties
  <2>2. Lists(base, Len(base)) \in Seq(LogEntries)
    BY <2>1, ListsTyped
  <2> QED BY <2>2, EntriesAreListed
<1>4. Entries(Append(base, record)) = Entries(base) \o EntryOf(record, DecodeLog(base).head)
  BY <1>1, EntriesOfMore
<1> QED BY <1>2, <1>3, <1>4, ConcatOne

\* The entries of the first records of a file, with all that it inherited.
LEMMA EntriesOfPrefix ==
  ASSUME NEW records \in Seq(Records), Legible(records),
         NEW n \in Nat, n <= Len(records), LastFork(records) <= n
  PROVE  Entries(SubSeq(records, 1, n)) = Lists(records, n)
<1> DEFINE p == SubSeq(records, 1, n)
           f == LastFork(records)
<1>1. /\ Len(p) = n /\ LastFork(p) = f
      /\ \A k \in 1 .. n : p[k] = records[k]
  BY PrefixIsReading
<1>2. f \in Nat
  BY LegibleParts DEF Parts
<1> HIDE DEF p, f
<1>3. Alike(p, records, f, f, n)
  BY <1>1, <1>2 DEF Alike
<1>4. Listing(p, f, n) = Listing(records, f, n)
  BY <1>2, <1>3, ListingAlike
<1>5. Entries(p) = Lists(p, n)
  BY <1>1, EntriesAreListed
<1> QED BY <1>1, <1>4, <1>5 DEF Lists, f, p

\* A cutter that has found its prompt, and the entries: after those of the records it keeps come
\* settings and the prompt; what it adds back is what operations begun before came to.
PromptEntry(entries, n, prompt) ==
  \E p \in n + 1 .. Len(entries) :
    entries[p] = Entry(InputItem(prompt)) /\ \A i \in n + 1 .. p - 1 : SettingsEntry(entries[i])

CutLists(records, n, k, prompt, cut) ==
  LET kept == Lists(records, n)
      now == Lists(records, k)
  IN /\ n \in Nat /\ n < k
     /\ Marked(records, n, cut)
     /\ PromptEntry(now, Len(kept), prompt)
     /\ Log!Only(Rest(now, Len(kept)), Outcomes(cut.owned)) = cut.saves
     /\ n >= LastFork(records) =>
          Entries(SubSeq(records, 1, n) \o cut.saves) = kept \o cut.saves

\* What is listed before a record.
LEMMA ListsBefore ==
  ASSUME NEW records \in Seq(Records), Legible(records),
         NEW j \in Nat, NEW k \in Nat, j <= k, k + 1 <= Len(records)
  PROVE  /\ Lists(records, j) \in Seq(LogEntries) /\ Lists(records, k) \in Seq(LogEntries)
         /\ Lists(records, k + 1) \in Seq(LogEntries)
         /\ Begins(Lists(records, j), Lists(records, k))
         /\ Begins(Lists(records, j), Lists(records, k + 1))
<1>0. Len(records) \in Nat
  BY LenProperties
<1>1. k <= Len(records) /\ j <= Len(records) /\ k + 1 \in Nat /\ j <= k + 1
  BY <1>0
<1> QED BY <1>1, ListsTyped, ListsBegin

\* At the prompt the cutter knows where the settings before it began, and has nothing to add back.
LEMMA FindsPromptEntry ==
  ASSUME NEW records \in Seq(Records), Legible(records),
         NEW j, NEW k \in Nat, k + 1 <= Len(records), NEW prompt,
         NEW cut \in CutStates, ~cut.found, cut.saves = <<>>, CleanLists(records, j, k, cut),
         j = k - Len(cut.waiting), cut.owned \subseteq Ops,
         IsPrompt(records[k + 1], prompt), ~IsSettings(records[k + 1])
  PROVE  CutLists(records, j, k + 1, prompt, CutterAdd(prompt, cut, records[k + 1], k + 1))
<1> DEFINE record == records[k + 1]
           next == CutterAdd(prompt, cut, record, k + 1)
           kept == Lists(records, j)
           was == Lists(records, k)
           now == Lists(records, k + 1)
           e == Entry(record.item)
           gone == Rest(now, Len(kept))
<1>1. record \in Records
  <2>1. k + 1 \in 1 .. Len(records)
    BY LenProperties
  <2> QED BY <2>1, ElementOfSeq
<1>2. /\ j \in Nat /\ j <= k /\ Marked(records, j, cut)
      /\ \A i \in Len(kept) + 1 .. Len(was) : SettingsEntry(was[i])
  BY DEF CleanLists
<1>3. next.sinceFork = cut.sinceFork /\ next.saves = <<>> /\ next.owned = cut.owned
  <2>1. Len(cut.waiting) \in Nat
    BY CutParts
  <2>2. (k + 1) - Len(cut.waiting) - 1 = k - Len(cut.waiting)
    BY <2>1
  <2>3. (k + 1) - Len(cut.waiting) - 1 \in Nat /\ k + 1 \in Nat
    BY <1>2, <2>2
  <2> QED BY <1>1, <2>3, AddsPrompt
<1>4. IsItem(record) /\ record.item = InputItem(prompt) /\ record.item.kind = "input"
  BY DEF IsPrompt, InputItem
<1>5. e \in LogEntries /\ now = Append(was, e)
  BY <1>4, ListsInput
<1>6. was \in Seq(LogEntries) /\ kept \in Seq(LogEntries) /\ Begins(kept, now) /\ now \in Seq(LogEntries)
  <2> QED BY <1>2, ListsBefore
<1> HIDE DEF next, e, kept, was, now
<1>7. Len(now) = Len(was) + 1 /\ now[Len(was) + 1] = e /\ \A i \in 1 .. Len(was) : now[i] = was[i]
  BY <1>5, <1>6, LenOfAppend, AppendProperties
<1> DEFINE l == Len(kept)
           m == Len(was)
<1>8. l \in Nat /\ m \in Nat /\ l <= m
  <2>1. Begins(kept, was)
    <3>1. k <= Len(records)
      BY LenProperties
    <3> QED BY <1>2, <3>1, ListsBegin DEF kept, was
  <2> QED BY <1>6, <2>1, LenProperties DEF Begins
<1>9. \A i \in l + 1 .. m : SettingsEntry(was[i])
  BY <1>2
<1>e. e = Entry(InputItem(prompt))
  BY <1>4 DEF e
<1>n. Len(now) = m + 1 /\ now[m + 1] = e /\ \A i \in 1 .. m : now[i] = was[i]
  BY <1>7
<1> HIDE DEF l, m, record
<1>10. \A i \in l + 1 .. m : SettingsEntry(now[i])
  <2>1. \A i \in l + 1 .. m : i \in 1 .. m
    BY <1>8
  <2> QED BY <1>9, <1>n, <2>1
<1>11. PromptEntry(now, l, prompt)
  <2>1. m + 1 \in l + 1 .. m + 1 /\ (m + 1) - 1 = m
    BY <1>8
  <2> QED BY <1>10, <1>e, <1>n, <2>1 DEF PromptEntry
<1>12. Log!Only(Rest(now, l), Outcomes(cut.owned)) = <<>>
  <2>1. l \in 0 .. Len(now)
    BY <1>8, <1>n
  <2>2. /\ Rest(now, l) \in Seq(LogEntries) /\ Len(Rest(now, l)) = Len(now) - l
        /\ \A i \in 1 .. Len(now) - l : Rest(now, l)[i] = now[l + i]
    BY <1>6, <2>1, RestIs
  <2>3. \A i \in l + 1 .. m + 1 : now[i] \notin Outcomes(cut.owned)
    <3> SUFFICES ASSUME NEW i \in l + 1 .. m + 1 PROVE now[i] \notin Outcomes(cut.owned)
      OBVIOUS
    <3>1. now[i].type = "item"
      <4>1. i = m + 1 \/ i \in l + 1 .. m
        BY <1>8
      <4>2. CASE i = m + 1
        BY <1>e, <1>n, <4>2, EntryParts
      <4>3. CASE i \in l + 1 .. m
        BY <1>10, <4>3 DEF SettingsEntry
      <4> QED BY <4>1, <4>2, <4>3
    <3>2. \A x \in Outcomes(cut.owned) : x.type = "operation"
      <4>1. \A o, v : Log!SaveEntry(o, v).type = "operation"
        BY DEF Log!SaveEntry
      <4> QED BY <4>1 DEF Outcomes
    <3> QED BY <3>1, <3>2
  <2>4. \A i \in 1 .. Len(Rest(now, l)) : Rest(now, l)[i] \notin Outcomes(cut.owned)
    <3> SUFFICES ASSUME NEW i \in 1 .. Len(Rest(now, l)) PROVE Rest(now, l)[i] \notin Outcomes(cut.owned)
      OBVIOUS
    <3>1. l + i \in l + 1 .. m + 1 /\ i \in 1 .. Len(now) - l
      BY <1>8, <1>n, <2>2
    <3> QED BY <2>2, <2>3, <3>1
  <2> QED BY <2>2, <2>4, OnlyNothing
<1>13. j >= LastFork(records) => Entries(SubSeq(records, 1, j) \o <<>>) = kept \o <<>>
  <2> SUFFICES ASSUME j >= LastFork(records) PROVE Entries(SubSeq(records, 1, j) \o <<>>) = kept \o <<>>
    OBVIOUS
  <2>0. LastFork(records) \in Nat /\ Len(records) \in Nat
    BY LegibleParts, LenProperties DEF Parts
  <2>1. j <= Len(records) /\ LastFork(records) <= j
    BY <1>2, <2>0
  <2>2. SubSeq(records, 1, j) \in Seq(Records)
    BY <1>2, <2>1, PrefixIsReading
  <2>3. SubSeq(records, 1, j) \o <<>> = SubSeq(records, 1, j) /\ kept \o <<>> = kept
    BY <1>6, <2>2, NothingMore
  <2>4. Entries(SubSeq(records, 1, j)) = kept
    BY <1>2, <2>1, EntriesOfPrefix DEF kept
  <2> QED BY <2>3, <2>4
<1>14. Marked(records, j, next)
  BY <1>2, <1>3 DEF Marked
<1>15. j < k + 1
  BY <1>2
<1>16. CutLists(records, j, k + 1, prompt, next)
  BY <1>2, <1>3, <1>11, <1>12, <1>13, <1>14, <1>15 DEF CutLists, kept, now, l
<1> QED BY <1>16 DEF next, record

\* After the prompt it goes on adding back the saves.
LEMMA CutListsStep ==
  ASSUME NEW records \in Seq(Records), Legible(records),
         NEW k \in Nat, k + 1 <= Len(records), NEW prompt, NEW n,
         NEW cut, CutAt(records, LastFork(records), n, k, prompt, cut),
         CutLists(records, n, k, prompt, cut)
  PROVE  CutLists(records, n, k + 1, prompt, CutterAdd(prompt, cut, records[k + 1], k + 1))
<1> DEFINE f == LastFork(records)
           a == Reading(records, f, n)
           b == Reading(records, f, k)
           record == records[k + 1]
           next == CutterAdd(prompt, cut, record, k + 1)
           p == SubSeq(records, 1, n)
           kept == Lists(records, n)
           was == Lists(records, k)
           now == Lists(records, k + 1)
           C == Outcomes(cut.owned)
           l == Len(kept)
           m == Len(was)
<1>1. /\ cut \in CutStates /\ cut.found /\ n \in Nat /\ n < k
      /\ cut.owned = DOMAIN a.head.ops /\ Readable(a)
      /\ n >= f => Restores(p \o cut.saves, a, b)
  BY DEF CutAt
<1>2. /\ Marked(records, n, cut) /\ PromptEntry(was, l, prompt)
      /\ Log!Only(Rest(was, l), C) = cut.saves
      /\ n >= f => Entries(p \o cut.saves) = kept \o cut.saves
  BY DEF CutLists
<1>3. record \in Records
  <2>1. k + 1 \in 1 .. Len(records)
    BY LenProperties
  <2> QED BY <2>1, ElementOfSeq
<1>4. /\ next.sinceFork = cut.sinceFork /\ next.owned = cut.owned
      /\ next.saves = IF record.type = "operation" /\ record.op \in cut.owned
                      THEN Append(cut.saves, record) ELSE cut.saves
  BY <1>1, <1>3, CutsOff
<1>5. Adds(records, k)
  BY Adding
<1>6. /\ now = was \/ \E e \in LogEntries : now = Append(was, e)
      /\ IsItem(record) => \E item : Entry(item) \in LogEntries /\ now = Append(was, Entry(item))
      /\ record.type = "operation" => record \in LogEntries /\ now = Append(was, record)
      /\ record.type = "checkpoint" => now = was
      /\ was \in Seq(LogEntries) /\ now \in Seq(LogEntries)
  <2>1. record.type \in {"item", "operation", "checkpoint"}
    BY <1>3, RecordKinds
  <2>2. /\ IsItem(record) => \E item : Entry(item) \in LogEntries /\ now = Append(was, Entry(item))
        /\ record.type = "operation" => record \in LogEntries /\ now = Append(was, record)
        /\ record.type = "checkpoint" => now = was
        /\ was \in Seq(LogEntries) /\ now \in Seq(LogEntries)
    BY <1>5 DEF Adds
  <2> HIDE DEF record, was, now
  <2> QED BY <2>1, <2>2 DEF IsItem
<1>7. kept \in Seq(LogEntries) /\ l \in Nat /\ m \in Nat /\ l <= m /\ l \in 0 .. m
  <2>0. Len(records) \in Nat
    BY LenProperties
  <2>1. k <= Len(records) /\ n <= k /\ n <= Len(records)
    BY <1>1, <2>0
  <2>2. Begins(kept, was) /\ kept \in Seq(LogEntries)
    BY <1>1, <2>1, ListsBegin, ListsTyped
  <2>3. l \in Nat /\ m \in Nat
    BY <1>6, <2>2, LenProperties
  <2>4. l <= m
    BY <2>2 DEF Begins
  <2> QED BY <2>2, <2>3, <2>4
<1>8. cut.owned \subseteq Ops
  BY <1>1, CutParts
<1> HIDE DEF next, kept, was, now, C, l, m, record, p
\* The prompt stays where it is.
<1>9. PromptEntry(now, l, prompt)
  <2>1. CASE now = was
    BY <1>2, <2>1
  <2>2. ASSUME NEW e \in LogEntries, now = Append(was, e) PROVE PromptEntry(now, l, prompt)
    <3>1. Len(now) = m + 1 /\ \A i \in 1 .. m : now[i] = was[i]
      BY <1>6, <2>2, LenOfAppend, AppendProperties DEF m
    <3>2. PICK q \in l + 1 .. m :
            /\ was[q] = Entry(InputItem(prompt)) /\ \A i \in l + 1 .. q - 1 : SettingsEntry(was[i])
      BY <1>2 DEF PromptEntry, m
    <3>3. q \in l + 1 .. m + 1 /\ q \in 1 .. m
      BY <1>7
    <3>4. \A i \in l + 1 .. q - 1 : i \in 1 .. m
      BY <1>7
    <3>5. \A i \in l + 1 .. q - 1 : SettingsEntry(now[i])
      BY <3>1, <3>2, <3>4
    <3> QED BY <3>1, <3>2, <3>3, <3>5 DEF PromptEntry
  <2> QED BY <1>6, <2>1, <2>2
\* What is left out, and what is added back of it.
<1>10. Log!Only(Rest(now, l), C) = next.saves
  <2>r. Rest(was, l) \in Seq(LogEntries)
    BY <1>6, <1>7, RestIs DEF m
  <2>1. ASSUME NEW e \in LogEntries, now = Append(was, e)
        PROVE  Log!Only(Rest(now, l), C) = IF e \in C THEN Append(cut.saves, e) ELSE cut.saves
    <3>1. Rest(now, l) = Append(Rest(was, l), e)
      BY <1>6, <1>7, <2>1, RestMore DEF m
    <3>2. Log!Only(Append(Rest(was, l), e), C) = Pick(Log!Only(Rest(was, l), C), e, C)
      BY <2>r, OnlyIs
    <3> QED BY <1>2, <3>1, <3>2 DEF Pick
  <2>2. CASE IsItem(record)
    <3>1. PICK item : Entry(item) \in LogEntries /\ now = Append(was, Entry(item))
      BY <1>6, <2>2
    <3>2. Entry(item) \notin C
      BY <1>8, OutcomeIs DEF C
    <3>3. next.saves = cut.saves
      BY <1>4, <2>2 DEF IsItem
    <3>4. Log!Only(Rest(now, l), C) = IF Entry(item) \in C THEN Append(cut.saves, Entry(item)) ELSE cut.saves
      BY <2>1, <3>1
    <3> QED BY <3>2, <3>3, <3>4
  <2>3. CASE record.type = "operation"
    <3>1. record \in C <=> record.op \in cut.owned
      BY <1>6, <1>8, <2>3, OutcomeIs DEF C
    <3>2. Log!Only(Rest(now, l), C) = IF record \in C THEN Append(cut.saves, record) ELSE cut.saves
      BY <1>6, <2>1, <2>3
    <3> QED BY <1>4, <2>3, <3>1, <3>2
  <2>4. CASE record.type = "checkpoint"
    <3>1. now = was /\ next.saves = cut.saves
      BY <1>4, <1>6, <2>4
    <3> QED BY <1>2, <3>1
  <2>5. record.type \in {"item", "operation", "checkpoint"}
    BY <1>3, RecordKinds
  <2> QED BY <2>2, <2>3, <2>4, <2>5 DEF IsItem
<1>11. n >= f => Entries(p \o next.saves) = kept \o next.saves
  <2> SUFFICES ASSUME n >= f PROVE Entries(p \o next.saves) = kept \o next.saves
    OBVIOUS
  <2>1. Entries(p \o cut.saves) = kept \o cut.saves
    BY <1>2
  <2>2. CASE next.saves = cut.saves
    BY <2>1, <2>2
  <2>3. CASE record.type = "operation" /\ record.op \in cut.owned
    <3> DEFINE rest == p \o cut.saves
    <3>1. next.saves = Append(cut.saves, record)
      BY <1>4, <2>3
    <3>2. p \in Seq(Records) /\ cut.saves \in Seq(Records)
      <4>0. Len(records) \in Nat /\ f \in Nat
        BY LenProperties, LegibleParts DEF Parts
      <4>1. n <= Len(records) /\ f <= n
        BY <1>1, <4>0
      <4>2. p \in Seq(Records)
        BY <1>1, <4>1, PrefixIsReading DEF p
      <4> QED BY <1>1, <4>2, CutParts
    <3>3. p \o next.saves = Append(rest, record)
      BY <1>3, <3>1, <3>2, ConcatAppend
    <3>4. rest \in Seq(Records) /\ Legible(rest)
      <4>1. Restores(rest, a, b)
        BY <1>1
      <4> HIDE DEF rest
      <4> QED BY <4>1 DEF Restores
    <3>5. Entries(Append(rest, record)) = Append(Entries(rest), record)
      <4> HIDE DEF rest
      <4> QED BY <1>3, <2>3, <3>4, EntriesOfSave
    <3>6. kept \o next.saves = Append(kept \o cut.saves, record)
      <4>1. cut.saves \in Seq(Records \cup LogEntries) /\ kept \in Seq(Records \cup LogEntries)
        BY <1>7, <3>2, SeqMonotonic
      <4> QED BY <1>3, <3>1, <4>1, ConcatAppend
    <3> QED BY <2>1, <3>3, <3>5, <3>6
  <2> QED BY <1>4, <2>2, <2>3
<1>12. Marked(records, n, next) /\ n < k + 1
  BY <1>1, <1>2, <1>4 DEF Marked
<1>13. Log!Only(Rest(now, l), Outcomes(next.owned)) = next.saves
  BY <1>4, <1>10 DEF C
<1>14. CutLists(records, n, k + 1, prompt, next)
  BY <1>1, <1>9, <1>11, <1>12, <1>13 DEF CutLists, kept, now, l, p
<1> QED BY <1>14 DEF next, record

\* The cut of a whole file, on its entries.
CutListed(records, prompt, cut) ==
  CutLists(records, cut.keep, Len(records), prompt, cut)

\* So a cut that is found is one of the entries.
LEMMA CuttingLists ==
  ASSUME NEW records \in Seq(Records), Legible(records), NEW prompt \in Prompts
  PROVE  CutLog(records, prompt).found => CutListed(records, prompt, CutLog(records, prompt))
<1> DEFINE n == Len(records)
           f == LastFork(records)
           cuts == CHOOSE g : CutBy(g, records, prompt, n)
           CleanAt(k) == /\ Clean(records, f, k, cuts[k])
                         /\ CleanLists(records, k - Len(cuts[k].waiting), k, cuts[k])
           FoundAt(k) == \E m : /\ CutAt(records, f, m, k, prompt, cuts[k])
                                /\ CutLists(records, m, k, prompt, cuts[k])
           S == {k \in Nat : k <= n => CleanAt(k) \/ FoundAt(k)}
<1>1. n \in Nat
  BY LenProperties
<1>2. CutLog(records, prompt) = cuts[n]
  BY Zenon DEF CutLog, Over, CutBy
<1>3. CutBy(cuts, records, prompt, n)
  BY <1>1, CutByExists, Zenon
<1> HIDE DEF cuts
<1>4. \A k \in 0 .. n : cuts[k] = IF k = 0 THEN Cutter ELSE CutterAdd(prompt, cuts[k - 1], records[k], k)
  <2>1. cuts = [k \in 0 .. n |-> IF k = 0 THEN Cutter ELSE CutterAdd(prompt, cuts[k - 1], records[k], k)]
    BY <1>1, <1>3, CutByDef
  <2> QED BY <2>1
<1> HIDE DEF n, CleanAt, FoundAt
<1>5. 0 \in S
  <2>1. cuts[0] = Cutter
    BY <1>1, <1>4
  <2>2. Clean(records, f, 0, Cutter)
    BY CleanStarts
  <2>3. 0 - Len(Cutter.waiting) = 0
    <3>1. Cutter.waiting = <<>>
      BY CutterStarts
    <3>2. Len(<<>>) = 0
      OBVIOUS
    <3>3. Len(Cutter.waiting) = 0
      BY <3>1, <3>2
    <3> QED BY <3>3
  <2>4. CleanLists(records, 0, 0, Cutter)
    BY CleanListsStarts
  <2>5. CleanAt(0)
    BY <2>1, <2>2, <2>3, <2>4 DEF CleanAt
  <2> QED BY <2>5
<1>6. ASSUME NEW k \in Nat, k \in S PROVE k + 1 \in S
  <2> SUFFICES ASSUME k + 1 <= n PROVE CleanAt(k + 1) \/ FoundAt(k + 1)
    OBVIOUS
  <2>1. k + 1 \in 0 .. n /\ k + 1 # 0 /\ (k + 1) - 1 = k /\ k <= n
    BY <1>1
  <2>2. cuts[k + 1] = CutterAdd(prompt, cuts[k], records[k + 1], k + 1)
    BY <1>4, <2>1
  <2>3. CleanAt(k) \/ FoundAt(k)
    BY <1>6, <2>1
  <2>l. k + 1 <= Len(records)
    BY DEF n
  <2>4. CASE FoundAt(k)
    <3>1. PICK m : CutAt(records, f, m, k, prompt, cuts[k]) /\ CutLists(records, m, k, prompt, cuts[k])
      BY <2>4 DEF FoundAt
    <3>2. CutAt(records, f, m, k + 1, prompt, cuts[k + 1])
      BY <2>2, <2>l, <3>1, CutStep
    <3>3. CutLists(records, m, k + 1, prompt, cuts[k + 1])
      BY <2>2, <2>l, <3>1, CutListsStep
    <3> QED BY <3>2, <3>3 DEF FoundAt
  <2>5. CASE CleanAt(k)
    <3> DEFINE cut == cuts[k]
               w == Len(cut.waiting)
    <3>1. Clean(records, f, k, cut) /\ CleanLists(records, k - w, k, cut)
      BY <2>5 DEF CleanAt
    <3>2. /\ cut \in CutStates /\ ~cut.found /\ cut.saves = <<>>
          /\ \A i \in 1 .. w : IsSettings(cut.waiting[i])
      BY <3>1 DEF Clean, CleanFrom
    <3>3. w \in Nat /\ cut.owned \subseteq Ops
      BY <3>2, CutParts
    <3>4. CASE IsPrompt(records[k + 1], prompt)
      <4>1. ~IsSettings(records[k + 1])
        BY <3>4, RecordsAssumption DEF IsPrompt, IsSettings, InputItem
      <4>2. CutAt(records, f, k - w, k + 1, prompt, cuts[k + 1])
        BY <2>2, <2>l, <3>1, <3>4, <4>1, FindsPrompt
      <4>3. CutLists(records, k - w, k + 1, prompt, cuts[k + 1])
        BY <2>2, <2>l, <3>1, <3>2, <3>3, <3>4, <4>1, FindsPromptEntry
      <4> QED BY <4>2, <4>3 DEF FoundAt
    <3>5. CASE ~IsPrompt(records[k + 1], prompt) /\ IsSettings(records[k + 1])
      <4>1. Clean(records, f, k + 1, cuts[k + 1])
        BY <2>2, <2>l, <3>1, <3>5, CleanSettings
      <4>2. /\ CleanLists(records, k - w, k + 1, cuts[k + 1])
            /\ cuts[k + 1].waiting = Append(cut.waiting, records[k + 1])
        <5>1. ASSUME NEW c \in CutStates, ~c.found, NEW j, CleanLists(records, j, k, c)
              PROVE  /\ CleanLists(records, j, k + 1, CutterAdd(prompt, c, records[k + 1], k + 1))
                     /\ CutterAdd(prompt, c, records[k + 1], k + 1).waiting
                          = Append(c.waiting, records[k + 1])
          BY <2>l, <3>5, <5>1, CleanListsSettings
        <5>2. cut \in CutStates /\ ~cut.found /\ CleanLists(records, k - w, k, cut)
          BY <3>1, <3>2
        <5>3. cuts[k + 1] = CutterAdd(prompt, cut, records[k + 1], k + 1)
          BY <2>2
        <5> HIDE DEF cut, w
        <5> QED BY <5>1, <5>2, <5>3
      <4>3. (k + 1) - Len(cuts[k + 1].waiting) = k - w
        <5>1. cut.waiting \in Seq(Records)
          BY <3>2, CutParts
        <5>2. Len(cuts[k + 1].waiting) = w + 1
          BY <4>2, <5>1, LenOfAppend
        <5> HIDE DEF w
        <5> QED BY <3>3, <5>2
      <4>4. CleanAt(k + 1)
        BY <4>1, <4>2, <4>3 DEF CleanAt
      <4> QED BY <4>4
    <3>6. CASE ~IsPrompt(records[k + 1], prompt) /\ ~IsSettings(records[k + 1])
      <4>1. Clean(records, f, k + 1, cuts[k + 1])
        BY <2>2, <2>l, <3>1, <3>6, CleanOther
      <4>2. CleanLists(records, k + 1, k + 1, cuts[k + 1]) /\ Len(cuts[k + 1].waiting) = 0
        BY <2>2, <2>l, <3>2, <3>6, CleanListsOther
      <4>3. (k + 1) - Len(cuts[k + 1].waiting) = k + 1
        BY <4>2
      <4>4. CleanAt(k + 1)
        BY <4>1, <4>2, <4>3 DEF CleanAt
      <4> QED BY <4>4
    <3> QED BY <3>4, <3>5, <3>6
  <2> QED BY <2>3, <2>4, <2>5
<1> HIDE DEF S, f
<1>7. n \in S
  BY <1>1, <1>5, <1>6, NatSetInduction
<1>8. CleanAt(n) \/ FoundAt(n)
  <2>1. n <= n
    BY <1>1
  <2> QED BY <1>7, <2>1 DEF S
<1>9. CASE CleanAt(n)
  <2>1. ~cuts[n].found
    BY <1>9 DEF CleanAt, Clean, CleanFrom
  <2> QED BY <1>2, <2>1
<1>10. CASE FoundAt(n)
  <2>1. PICK m : CutAt(records, f, m, n, prompt, cuts[n]) /\ CutLists(records, m, n, prompt, cuts[n])
    BY <1>10 DEF FoundAt
  <2>2. cuts[n].keep = m
    BY <2>1 DEF CutAt
  <2> QED BY <1>2, <2>1, <2>2 DEF CutListed, n
<1> QED BY <1>8, <1>9, <1>10

\* The entries of a file of another session's items only.
LEMMA InheritedEntries ==
  ASSUME NEW rest \in Seq(Records), Inherits(rest, Len(rest)),
         Len(rest) # 0 => IsFork(rest[Len(rest)])
  PROVE  /\ Legible(rest)
         /\ Entries(rest) \in Seq(LogEntries) /\ Len(Entries(rest)) = Len(rest)
         /\ \A i \in 1 .. Len(rest) : Entries(rest)[i] = Entry(rest[i].item)
<1> DEFINE n == Len(rest)
           f == LastFork(rest)
<1>1. Legible(rest)
  BY InheritedIsLegible
<1>2. Parts(rest, f, n)
  BY <1>1, LegibleParts
<1>3. n \in Nat /\ f \in 0 .. n /\ f \in Nat
  BY <1>2 DEF Parts
<1>4. f = n
  <2>1. \A k \in 1 .. n : IsFork(rest[k]) => k <= f
    BY <1>3, ForkPlace
  <2>2. n # 0 => IsFork(rest[n])
    OBVIOUS
  <2> HIDE DEF n, f
  <2>3. n # 0 => n \in 1 .. n
    BY <1>3
  <2> QED BY <1>3, <2>1, <2>2, <2>3
<1>5. ListsAt(rest, n)
  BY <1>1, <1>3, ListsAtEach
<1>6. /\ Lists(rest, n) \in Seq(LogEntries) /\ Len(Lists(rest, n)) = n
      /\ \A i \in 1 .. n : Lists(rest, n)[i] = Entry(rest[i].item)
  <2>1. n <= f
    BY <1>3, <1>4
  <2> QED BY <1>5, <2>1 DEF ListsAt
<1> QED BY <1>1, <1>6, EntriesAreListed

\* What may remain of a log cut before m.
MarkedAsAnother(kept) == {Append(kept, Entry(ForkItem(t))) : t \in Turns \cup {None}}
HasFork(gone) == \E k \in 1 .. Len(gone) : ForkEntry(gone[k])

RemainingOf(kept, gone) ==
  IF HasFork(gone) /\ kept # <<>> /\ ~ForkEntry(Last(kept))
  THEN MarkedAsAnother(kept)
  ELSE {kept \o Log!Only(gone, Outcomes(Log!Begun(kept)))}

\* What remains, by the parts of the log.
LEMMA RemainingIs ==
  ASSUME NEW entries, NEW m
  PROVE  Log!Remaining(entries, m)
           = RemainingOf(SubSeq(entries, 1, m - 1), SubSeq(entries, m, Len(entries)))
<1> DEFINE kept == SubSeq(entries, 1, m - 1)
           gone == SubSeq(entries, m, Len(entries))
<1>1. Log!Values = Values
  BY DEF Log!Values, Values, Log!Bare, Bare, Log!Unfinished, Unfinished
<1>2. Log!Remaining(entries, m)
        = IF (\E k \in 1 .. Len(gone) : Log!EntryIsFork(gone[k])) /\ (kept # <<>> /\ ~Log!EntryIsFork(Last(kept)))
          THEN {Append(kept, Log!ItemEntry(Log!ForkItem(t))) : t \in Turns \cup {None}}
          ELSE {kept \o Log!Only(gone, Log!OutcomesOf(Log!Begun(kept)))}
  BY Zenon DEF Log!Remaining, Log!Last, Last
<1> HIDE DEF kept, gone
<1>3. (\E k \in 1 .. Len(gone) : Log!EntryIsFork(gone[k])) <=> HasFork(gone)
  BY Zenon DEF HasFork, Log!EntryIsFork, ForkEntry
<1>4. Log!EntryIsFork(Last(kept)) <=> ForkEntry(Last(kept))
  BY Zenon DEF Log!EntryIsFork, ForkEntry
<1>5. {Append(kept, Log!ItemEntry(Log!ForkItem(t))) : t \in Turns \cup {None}} = MarkedAsAnother(kept)
  BY Zenon DEF MarkedAsAnother, Log!ItemEntry, Log!ForkItem, Entry, ForkItem
<1>6. Log!OutcomesOf(Log!Begun(kept)) = Outcomes(Log!Begun(kept))
  BY <1>1 DEF Outcomes, Log!OutcomesOf
<1>7. Log!Remaining(entries, m) = RemainingOf(kept, gone)
  <2>1. CASE HasFork(gone) /\ kept # <<>> /\ ~ForkEntry(Last(kept))
    BY <1>2, <1>3, <1>4, <1>5, <2>1, Zenon DEF RemainingOf
  <2>2. CASE ~(HasFork(gone) /\ kept # <<>> /\ ~ForkEntry(Last(kept)))
    BY <1>2, <1>3, <1>4, <1>6, <2>2, Zenon DEF RemainingOf
  <2> QED BY <2>1, <2>2
<1> QED BY <1>7 DEF kept, gone

\* Where a log may be cut before a prompt.
LEMMA CutsHere ==
  ASSUME NEW entries \in Seq(LogEntries), NEW n \in Nat, NEW prompt,
         PromptEntry(entries, n, prompt)
  PROVE  n + 1 \in Log!Cuts(entries, prompt)
<1>1. PICK p \in n + 1 .. Len(entries) :
        entries[p] = Entry(InputItem(prompt)) /\ \A i \in n + 1 .. p - 1 : SettingsEntry(entries[i])
  BY DEF PromptEntry
<1>2. Len(entries) \in Nat
  BY LenProperties
<1>3. n + 1 \in 1 .. Len(entries)
  BY <1>1, <1>2
<1>4. entries[p] = Log!ItemEntry(Log!InputItem(prompt))
  BY <1>1, Zenon DEF Entry, InputItem, Log!ItemEntry, Log!InputItem
<1>5. \A j \in n + 1 .. p - 1 : Log!EntryIsSettings(entries[j])
  BY <1>1, Zenon DEF SettingsEntry, Log!EntryIsSettings
<1> DEFINE m == n + 1
<1> HIDE DEF m
<1>6. m \in Log!Cuts(entries, prompt)
  BY <1>1, <1>3, <1>4, <1>5 DEF Log!Cuts, m
<1> QED BY <1>6 DEF m

\* A log that is cut where the entries of the first n records end.
CutEntries(records, n, prompt) ==
  LET kept == Lists(records, n)
      entries == Entries(records)
  IN /\ kept \in Seq(LogEntries) /\ entries \in Seq(LogEntries)
     /\ Begins(kept, entries)
     /\ Len(kept) + 1 \in Log!Cuts(entries, prompt)
     /\ Log!Remaining(entries, Len(kept) + 1) = RemainingOf(kept, Rest(entries, Len(kept)))

\* A prompt that comes after settings only is where a log is cut.
LEMMA CutsEntries ==
  ASSUME NEW records \in Seq(Records), Legible(records), NEW prompt,
         NEW n \in Nat, n <= Len(records),
         PromptEntry(Entries(records), Len(Lists(records, n)), prompt)
  PROVE  CutEntries(records, n, prompt)
<1> DEFINE kept == Lists(records, n)
           entries == Entries(records)
<1>1. entries = Lists(records, Len(records)) /\ Len(records) \in Nat
  BY EntriesAreListed, LenProperties
<1>2. kept \in Seq(LogEntries) /\ entries \in Seq(LogEntries) /\ Begins(kept, entries)
  <2>1. Len(records) <= Len(records)
    BY <1>1
  <2> QED BY <1>1, <2>1, ListsTyped, ListsBegin
<1>3. PromptEntry(entries, Len(kept), prompt)
  OBVIOUS
<1> HIDE DEF kept, entries
<1>4. Len(kept) \in Nat
  BY <1>2, LenProperties
<1>5. Len(kept) + 1 \in Log!Cuts(entries, prompt)
  BY <1>2, <1>3, <1>4, CutsHere
<1>6. SubSeq(entries, 1, Len(kept)) = kept
  BY <1>2, BeginningIs
<1>7. Log!Remaining(entries, Len(kept) + 1) = RemainingOf(kept, Rest(entries, Len(kept)))
  <2>1. (Len(kept) + 1) - 1 = Len(kept)
    BY <1>4
  <2> DEFINE m == Len(kept) + 1
  <2>2. Log!Remaining(entries, m)
          = RemainingOf(SubSeq(entries, 1, m - 1), SubSeq(entries, m, Len(entries)))
    BY RemainingIs
  <2> QED BY <1>6, <2>1, <2>2 DEF Rest
<1>8. CutEntries(records, n, prompt)
  BY <1>2, <1>5, <1>7 DEF CutEntries, kept, entries
<1> QED BY <1>8

\* What the cutter leaves is what may remain of the log.
LogRewound(records, prompt, rest) ==
  \E m \in Log!Cuts(Entries(records), prompt) :
    Entries(rest) \in Log!Remaining(Entries(records), m)

\* A log that is cut where the session owns it.
LEMMA RewindsOwnLog ==
  ASSUME NEW records \in Seq(Records), Legible(records), NEW prompt,
         NEW cut, CutFound(records, prompt, cut), CutListed(records, prompt, cut), ~cut.forked
  PROVE  LogRewound(records, prompt, Remains(records, cut))
<1> DEFINE f == LastFork(records)
           n == cut.keep
           a == Reading(records, f, n)
           kept == Lists(records, n)
           entries == Entries(records)
           gone == Rest(entries, Len(kept))
           rest == SubSeq(records, 1, n) \o cut.saves
<1>0. Parts(records, f, Len(records))
  BY LegibleParts
<1>1. f \in Nat /\ f <= Len(records) /\ Len(records) \in Nat
  BY <1>0 DEF Parts
<1>2. CutAt(records, f, n, Len(records), prompt, cut)
  BY DEF CutFound
<1>3. CutLists(records, n, Len(records), prompt, cut)
  BY DEF CutListed
<1>4. Remains(records, cut) = rest
  BY DEF Remains
<1>5. n \in Nat /\ n <= Len(records) /\ n >= f /\ cut.owned = DOMAIN a.head.ops
  <2>1. n \in Nat /\ n < Len(records) /\ (n < f /\ f <= Len(records) => cut.forked)
        /\ cut.owned = DOMAIN a.head.ops
    BY <1>2 DEF CutAt
  <2> HIDE DEF n, f, a
  <2> QED BY <1>1, <2>1
<1>6. entries = Lists(records, Len(records))
  BY EntriesAreListed
<1>7. /\ PromptEntry(entries, Len(kept), prompt)
      /\ Log!Only(gone, Outcomes(cut.owned)) = cut.saves
      /\ Entries(rest) = kept \o cut.saves
  BY <1>3, <1>5, <1>6 DEF CutLists
<1>8. CutEntries(records, n, prompt)
  BY <1>5, <1>7, CutsEntries
<1>9. ListsAt(records, n) /\ ListsAt(records, Len(records))
  BY <1>1, <1>5, ListsAtEach
<1> HIDE DEF f, n
<1>10. /\ f <= Len(kept) /\ (f # 0 => ForkEntry(kept[f]))
       /\ \A i \in f + 1 .. Len(kept) : ~ForkEntry(kept[i])
       /\ BegunAfter(kept, f) = cut.owned
  BY <1>5, <1>9 DEF ListsAt, f
<1>11. \A i \in f + 1 .. Len(entries) : ~ForkEntry(entries[i])
  BY <1>1, <1>6, <1>9 DEF ListsAt, f
<1> HIDE DEF kept, entries, gone, rest, a
<1>12. /\ kept \in Seq(LogEntries) /\ entries \in Seq(LogEntries) /\ Begins(kept, entries)
       /\ Len(kept) + 1 \in Log!Cuts(entries, prompt)
       /\ Log!Remaining(entries, Len(kept) + 1) = RemainingOf(kept, gone)
  BY <1>8 DEF CutEntries, kept, entries, gone
<1>13. Len(kept) \in Nat /\ Len(entries) \in Nat /\ Len(kept) <= Len(entries)
  BY <1>12, LenProperties DEF Begins
<1>14. Log!Begun(kept) = cut.owned
  <2>1. f \in 0 .. Len(kept)
    BY <1>1, <1>10, <1>13
  <2> QED BY <1>10, <1>13, <2>1, BegunAt
<1>15. ~HasFork(gone)
  <2>1. Len(kept) \in 0 .. Len(entries)
    BY <1>13
  <2>2. Len(gone) = Len(entries) - Len(kept)
        /\ \A i \in 1 .. Len(entries) - Len(kept) : gone[i] = entries[Len(kept) + i]
    BY <1>12, <2>1, RestIs DEF gone
  <2>3. \A i \in 1 .. Len(entries) - Len(kept) : Len(kept) + i \in f + 1 .. Len(entries)
    BY <1>1, <1>10, <1>13
  <2> QED BY <1>11, <2>2, <2>3 DEF HasFork
<1>16. RemainingOf(kept, gone) = {kept \o cut.saves}
  BY <1>7, <1>14, <1>15, Zenon DEF RemainingOf
<1>17. Entries(rest) \in Log!Remaining(entries, Len(kept) + 1)
  BY <1>7, <1>12, <1>16
<1> QED BY <1>4, <1>12, <1>17 DEF LogRewound, entries

\* What a rewind into what was inherited leaves is another session's, and marked as such.
Unmarked(records, n, cut, rest) ==
  LET mark == ForkItem(cut.latest)
  IN /\ cut.latest \in Turns \cup {None}
     /\ Len(rest) = n + 1 /\ rest[n + 1].item = mark
     /\ n # 0 /\ ~IsFork(records[n])

RestOfAnother(records, n, cut, rest) ==
  /\ rest \in Seq(Records) /\ Inherits(rest, Len(rest))
  /\ Len(rest) # 0 => IsFork(rest[Len(rest)])
  /\ \A i \in 1 .. n : rest[i] = records[i]
  /\ \/ Unmarked(records, n, cut, rest)
     \/ Len(rest) = n /\ (n # 0 => IsFork(records[n]))

\* So it is when the last fork is behind the cut.
LEMMA RemainsOfAnother ==
  ASSUME NEW records \in Seq(Records), Legible(records), NEW prompt,
         NEW cut, CutFound(records, prompt, cut), Marked(records, cut.keep, cut), cut.forked
  PROVE  RestOfAnother(records, cut.keep, cut, Remains(records, cut))
<1> DEFINE f == LastFork(records)
           n == cut.keep
           a == Reading(records, f, n)
           kept == SubSeq(records, 1, n)
           mark == ItemRecord(cut.items + 1, ForkItem(cut.latest))
<1>0. Parts(records, f, Len(records))
  BY LegibleParts
<1>1. f \in Nat
  BY <1>0 DEF Parts
<1>2. CutAt(records, f, n, Len(records), prompt, cut)
  BY DEF CutFound
<1>m. n = 0 \/ IsFork(records[n]) => cut.sinceFork = 0
  BY DEF Marked
<1> HIDE DEF f, n
<1>3. /\ cut \in CutStates /\ n \in Nat /\ n < f
      /\ cut.items = a.head.seq
      /\ n <= f /\ cut.sinceFork = 0 => n = 0 \/ IsFork(records[n])
      /\ cut.saves = <<>>
  BY <1>2 DEF CutAt
<1>4. n <= f /\ n \in 0 .. f
  BY <1>1, <1>3
<1>5. /\ kept \in Seq(Records) /\ Len(kept) = n /\ Inherits(kept, n)
      /\ \A i \in 1 .. n : kept[i] = records[i]
  BY <1>3, <1>4, KeptOfAnother DEF f
<1>6. a.head.seq = n
  <2>1. InheritedTo(records, f, n)
    BY <1>4, InheritedPart DEF f
  <2> QED BY <2>1 DEF InheritedTo
<1> HIDE DEF kept, a
<1>9. CASE cut.sinceFork > 0
  <2> DEFINE rest == Append(kept, mark)
  <2>1. Remains(records, cut) = kept \o <<mark>>
    BY <1>9, Zenon DEF Remains, kept, n
  <2>2. mark \in Records /\ IsFork(mark) /\ mark.seq = n + 1 /\ mark.item = ForkItem(cut.latest)
        /\ mark.item.kind = "fork" /\ IsItem(mark) /\ cut.latest \in Turns \cup {None}
    <3>1. cut.latest \in Turns \cup {None} /\ cut.items + 1 = n + 1
      BY <1>3, <1>6, CutParts
    <3> DEFINE latest == cut.latest
               seq == cut.items + 1
               item == ForkItem(latest)
    <3> HIDE DEF latest, seq
    <3>2. item \in RecordedItems /\ item.kind = "fork"
      BY <3>1 DEF RecordedItems, ForkItem, latest
    <3> HIDE DEF item
    <3>3. seq \in Nat /\ seq = n + 1
      BY <1>3, <3>1 DEF seq
    <3>4. mark = [type |-> "item", seq |-> seq, item |-> item]
      BY DEF ItemRecord, item, seq, latest
    <3>5. mark \in Records
      BY <3>2, <3>3, <3>4 DEF Records
    <3>6. item = ForkItem(cut.latest)
      BY DEF item, latest
    <3> QED BY <3>1, <3>2, <3>3, <3>4, <3>5, <3>6 DEF IsFork, IsItem
  <2> HIDE DEF mark
  <2>3. Append(kept, mark) = kept \o <<mark>>
    BY <1>5, <2>2, AppendIsConcat
  <2>4. /\ rest \in Seq(Records) /\ Len(rest) = n + 1 /\ rest[n + 1] = mark
        /\ \A m \in 1 .. n : rest[m] = kept[m]
    BY <1>5, <2>2, AppendProperties
  <2> HIDE DEF rest
  <2>5. \A m \in 1 .. n + 1 : m = n + 1 \/ m \in 1 .. n
    BY <1>3
  <2>6. Inherits(rest, n + 1)
    <3> SUFFICES ASSUME NEW m \in 1 .. n + 1
                 PROVE  /\ IsItem(rest[m]) /\ rest[m].seq = m
                        /\ (rest[m].item.kind = "status" => rest[m].item.value = None)
      BY DEF Inherits
    <3>1. CASE m = n + 1
      BY <2>2, <2>4, <3>1
    <3>2. CASE m \in 1 .. n
      BY <1>5, <2>4, <3>2 DEF Inherits
    <3> QED BY <2>5, <3>1, <3>2
  <2>7. n # 0 /\ ~IsFork(records[n])
    <3>1. ~(cut.sinceFork = 0)
      BY <1>9
    <3> QED BY <1>m, <3>1
  <2>8. Unmarked(records, n, cut, rest)
    BY <2>2, <2>4, <2>7 DEF Unmarked
  <2>9. RestOfAnother(records, n, cut, rest)
    BY <1>5, <2>2, <2>4, <2>6, <2>8 DEF RestOfAnother
  <2> QED BY <2>1, <2>3, <2>9 DEF rest, n
<1>10. CASE ~(cut.sinceFork > 0)
  <2>1. cut.sinceFork = 0
    <3>1. cut.sinceFork \in Nat
      BY <1>3, CutParts
    <3> QED BY <1>10, <3>1
  <2>2. Remains(records, cut) = kept
    <3>1. Remains(records, cut) = kept \o cut.saves
      BY <1>10, Zenon DEF Remains, kept, n
    <3>2. kept \o cut.saves = kept
      BY <1>3, <1>5, NothingMore
    <3> QED BY <3>1, <3>2
  <2>3. n # 0 => IsFork(records[n])
    BY <1>3, <1>4, <2>1
  <2>4. n # 0 => IsFork(kept[n])
    <3> SUFFICES ASSUME n # 0 PROVE IsFork(kept[n])
      OBVIOUS
    <3>1. n \in 1 .. n
      BY <1>3
    <3> QED BY <1>5, <2>3, <3>1
  <2>5. RestOfAnother(records, n, cut, kept)
    BY <1>5, <2>3, <2>4 DEF RestOfAnother
  <2> QED BY <2>2, <2>5 DEF n
<1> QED BY <1>9, <1>10

\* A log that is cut in what the session inherited.
LEMMA RewindsInheritedLog ==
  ASSUME NEW records \in Seq(Records), Legible(records), NEW prompt,
         NEW cut, CutFound(records, prompt, cut), CutListed(records, prompt, cut), cut.forked
  PROVE  LogRewound(records, prompt, Remains(records, cut))
<1> DEFINE f == LastFork(records)
           n == cut.keep
           kept == Lists(records, n)
           entries == Entries(records)
           gone == Rest(entries, Len(kept))
           rest == Remains(records, cut)
           left == Entries(rest)
<1>0. Parts(records, f, Len(records))
  BY LegibleParts
<1>1. f \in Nat /\ f <= Len(records) /\ Len(records) \in Nat
  BY <1>0 DEF Parts
<1>2. CutAt(records, f, n, Len(records), prompt, cut)
  BY DEF CutFound
<1>3. CutLists(records, n, Len(records), prompt, cut)
  BY DEF CutListed
<1>5. n \in Nat /\ n < f /\ n <= f /\ n <= Len(records)
  <2>1. n \in Nat /\ n < f
    BY <1>2 DEF CutAt
  <2> HIDE DEF n, f
  <2> QED BY <1>1, <2>1
<1>6. entries = Lists(records, Len(records))
  BY EntriesAreListed
<1>7. PromptEntry(entries, Len(kept), prompt) /\ Marked(records, n, cut)
  BY <1>3, <1>6 DEF CutLists
<1>8. CutEntries(records, n, prompt)
  BY <1>5, <1>7, CutsEntries
<1>9. ListsAt(records, n) /\ ListsAt(records, Len(records))
  BY <1>1, <1>5, ListsAtEach
<1>10. RestOfAnother(records, n, cut, rest)
  BY <1>7, RemainsOfAnother
<1>i. Inherits(records, f)
  BY InheritedPart
<1> HIDE DEF f, n
<1>11. Len(kept) = n /\ \A i \in 1 .. n : kept[i] = Entry(records[i].item)
  BY <1>5, <1>9 DEF ListsAt, f
<1>12. f <= Len(entries) /\ ForkEntry(entries[f])
  <2>1. f # 0
    BY <1>1, <1>5
  <2> QED BY <1>1, <1>6, <1>9, <2>1 DEF ListsAt, f
<1> HIDE DEF kept, entries, gone, rest, left
<1>13. /\ kept \in Seq(LogEntries) /\ entries \in Seq(LogEntries) /\ Begins(kept, entries)
       /\ Len(kept) + 1 \in Log!Cuts(entries, prompt)
       /\ Log!Remaining(entries, Len(kept) + 1) = RemainingOf(kept, gone)
  BY <1>8 DEF CutEntries, kept, entries, gone
<1>14. Len(entries) \in Nat /\ n <= Len(entries)
  BY <1>11, <1>13, LenProperties DEF Begins
<1>15. /\ Len(gone) = Len(entries) - n
       /\ \A i \in 1 .. Len(entries) - n : gone[i] = entries[n + i]
  <2>1. n \in 0 .. Len(entries)
    BY <1>5, <1>14
  <2> QED BY <1>11, <1>13, <2>1, RestIs DEF gone
<1>16. HasFork(gone)
  <2>1. f - n \in 1 .. Len(entries) - n /\ n + (f - n) = f
    BY <1>1, <1>5, <1>12, <1>14
  <2>2. ForkEntry(gone[f - n])
    BY <1>12, <1>15, <2>1
  <2> QED BY <1>15, <2>1, <2>2 DEF HasFork
<1>17. /\ rest \in Seq(Records) /\ Inherits(rest, Len(rest))
       /\ Len(rest) # 0 => IsFork(rest[Len(rest)])
       /\ \A i \in 1 .. n : rest[i] = records[i]
  BY <1>10 DEF RestOfAnother
<1>18. /\ left \in Seq(LogEntries) /\ Len(left) = Len(rest)
       /\ \A i \in 1 .. Len(rest) : left[i] = Entry(rest[i].item)
  BY <1>17, InheritedEntries DEF left
<1>19. n # 0 => /\ kept # <<>> /\ (ForkEntry(Last(kept)) <=> IsFork(records[n]))
  <2> SUFFICES ASSUME n # 0 PROVE kept # <<>> /\ (ForkEntry(Last(kept)) <=> IsFork(records[n]))
    OBVIOUS
  <2>1. n \in 1 .. n /\ n \in 1 .. f
    BY <1>1, <1>5
  <2>2. IsItem(records[n])
    BY <1>i, <2>1 DEF Inherits
  <2>3. Last(kept) = Entry(records[n].item)
    BY <1>11, <2>1 DEF Last
  <2>4. ForkEntry(Entry(records[n].item)) <=> records[n].item.kind = "fork"
    BY EntryParts DEF ForkEntry
  <2>5. kept # <<>>
    BY <1>11
  <2> QED BY <2>2, <2>3, <2>4, <2>5 DEF IsFork
<1>20. CASE Unmarked(records, n, cut, rest)
  <2> DEFINE e == Entry(ForkItem(cut.latest))
             c == Append(kept, e)
  <2>1. /\ cut.latest \in Turns \cup {None} /\ Len(rest) = n + 1
        /\ rest[n + 1].item = ForkItem(cut.latest) /\ n # 0 /\ ~IsFork(records[n])
    BY <1>20 DEF Unmarked
  <2>2. RemainingOf(kept, gone) = MarkedAsAnother(kept)
    BY <1>16, <1>19, <2>1, Zenon DEF RemainingOf
  <2>3. c \in MarkedAsAnother(kept)
    BY <2>1 DEF MarkedAsAnother
  <2>4. left[n + 1] = e /\ e \in LogEntries
    <3>1. n + 1 \in 1 .. Len(rest)
      BY <1>5, <2>1
    <3>2. left[n + 1] = e
      BY <1>18, <2>1, <3>1
    <3> QED BY <1>18, <3>1, <3>2, ElementOfSeq
  <2> HIDE DEF e
  <2>5. /\ c \in Seq(LogEntries) /\ Len(c) = n + 1 /\ c[n + 1] = e
        /\ \A m \in 1 .. n : c[m] = kept[m]
    BY <1>11, <1>13, <2>4, AppendProperties
  <2> HIDE DEF c
  <2>6. ASSUME NEW m \in 1 .. n + 1 PROVE left[m] = c[m]
    <3>1. m \in 1 .. Len(rest) /\ (m = n + 1 \/ m \in 1 .. n)
      BY <1>5, <2>1
    <3>2. CASE m = n + 1
      BY <2>4, <2>5, <3>2
    <3>3. CASE m \in 1 .. n
      BY <1>11, <1>17, <1>18, <2>5, <3>1, <3>3
    <3> QED BY <3>1, <3>2, <3>3
  <2>7. left = c
    BY <1>18, <2>1, <2>5, <2>6, SeqEqual
  <2>8. left \in Log!Remaining(entries, Len(kept) + 1)
    BY <1>13, <2>2, <2>3, <2>7
  <2> QED BY <1>13, <2>8 DEF LogRewound, entries, left, rest
<1>21. CASE Len(rest) = n /\ (n # 0 => IsFork(records[n]))
  <2>1. left = kept
    <3>1. ASSUME NEW m \in 1 .. n PROVE left[m] = kept[m]
      BY <1>11, <1>17, <1>18, <1>21
    <3> QED BY <1>11, <1>13, <1>18, <1>21, <3>1, SeqEqual
  <2>2. Log!Begun(kept) = {}
    <3>1. ASSUME NEW i \in 1 .. Len(kept), NEW o PROVE ~Starts(kept[i], o)
      <4>1. i \in 1 .. n /\ i \in 1 .. f
        BY <1>1, <1>5, <1>11
      <4>2. kept[i] = Entry(records[i].item)
            /\ (records[i].item.kind = "status" => records[i].item.value = None)
        BY <1>11, <1>i, <4>1 DEF Inherits
      <4>3. Entry(records[i].item).item = records[i].item
        BY EntryParts
      <4> QED BY <4>2, <4>3 DEF Starts
    <3>2. Len(kept) \in Nat
      BY <1>5, <1>11
    <3> QED BY <3>1, <3>2, BegunNone
  <2>3. Outcomes({}) = {}
    BY DEF Outcomes
  <2>4. Log!Only(gone, {}) = <<>>
    <3>1. n \in 0 .. Len(entries)
      BY <1>5, <1>14
    <3>2. gone \in Seq(LogEntries)
      BY <1>11, <1>13, <3>1, RestIs DEF gone
    <3> QED BY <3>2, OnlyNothing
  <2>5. kept = <<>> \/ ForkEntry(Last(kept))
    <3>1. n = 0 => kept = <<>>
      BY <1>11, <1>13, EmptySeq
    <3> QED BY <1>19, <1>21, <3>1
  <2>6. RemainingOf(kept, gone) = {kept \o <<>>}
    BY <2>2, <2>3, <2>4, <2>5, Zenon DEF RemainingOf
  <2>7. kept \o <<>> = kept
    BY <1>13, NothingMore
  <2>8. left \in Log!Remaining(entries, Len(kept) + 1)
    BY <1>13, <2>1, <2>6, <2>7
  <2> QED BY <1>13, <2>8 DEF LogRewound, entries, left, rest
<1> QED BY <1>10, <1>20, <1>21 DEF RestOfAnother

\* A rewind of the file is one of the log.
LEMMA RewindsLog ==
  ASSUME NEW records \in Seq(Records), Legible(records), NEW prompt \in Prompts,
         CutLog(records, prompt).found
  PROVE  LogRewound(records, prompt, Remains(records, CutLog(records, prompt)))
<1> DEFINE cut == CutLog(records, prompt)
<1>1. CutFound(records, prompt, cut) /\ CutListed(records, prompt, cut)
  BY Cutting, CuttingLists
<1> HIDE DEF cut
<1>2. LogRewound(records, prompt, Remains(records, cut))
  BY <1>1, RewindsOwnLog, RewindsInheritedLog
<1> QED BY <1>2 DEF cut

\* Every beginning of the items of a file was once all of them.
LEMMA ItemsWere ==
  ASSUME NEW records \in Seq(Records), Legible(records),
         NEW b \in Nat, b <= Len(DecodeLog(records).items)
  PROVE  \E k \in 0 .. Len(records) :
           /\ Len(Reading(records, LastFork(records), k).items) = b
           /\ Begins(Reading(records, LastFork(records), k).items, DecodeLog(records).items)
<1> DEFINE f == LastFork(records)
           items(k) == Reading(records, f, k).items
           Once(c, j) == \E k \in 0 .. j : Len(items(k)) = c /\ Begins(items(k), items(j))
           S == {j \in Nat : j <= Len(records) =>
                   \A c \in Nat : c <= Len(items(j)) => Once(c, j)}
<1>0. Parts(records, f, Len(records))
  BY LegibleParts
<1>1. Len(records) \in Nat /\ DecodeLog(records) = Reading(records, f, Len(records))
  BY <1>0 DEF Parts
<1>2. ASSUME NEW k \in Nat, k <= Len(records)
      PROVE  items(k) \in Seq(WholeItems) /\ Len(items(k)) \in Nat /\ Begins(items(k), items(k))
  <2>1. k \in 0 .. Len(records)
    BY <1>1, <1>2
  <2>2. Readable(Reading(records, f, k))
    BY <2>1, ReadingIsReadable DEF Read
  <2>3. items(k) \in Seq(WholeItems)
    BY <2>2, ReadableParts
  <2> HIDE DEF items
  <2> QED BY <2>3, LenProperties, BeginsItself
<1>3. ASSUME NEW k \in Nat, k + 1 <= Len(records)
      PROVE  items(k + 1) = items(k) \/ \E item \in WholeItems : items(k + 1) = Append(items(k), item)
  <2>1. Grows(records, f, k)
    BY <1>3, Growing
  <2> QED BY <2>1 DEF Grows
<1> HIDE DEF items, f
<1>4. 0 \in S
  <2> SUFFICES ASSUME 0 <= Len(records), NEW c \in Nat, c <= Len(items(0)) PROVE Once(c, 0)
    OBVIOUS
  <2>1. Reading(records, f, 0) = Read0
    <3>1. f \in Nat
      BY <1>0 DEF Parts, f
    <3> QED BY <3>1, ReadingSteps
  <2>2. Len(items(0)) = 0
    BY <2>1 DEF items, Read0
  <2>3. c = Len(items(0))
    BY <2>2
  <2>4. Begins(items(0), items(0)) /\ 0 \in 0 .. 0
    BY <1>1, <1>2
  <2> QED BY <2>3, <2>4
<1>5. ASSUME NEW j \in Nat, j \in S PROVE j + 1 \in S
  <2> SUFFICES ASSUME j + 1 <= Len(records), NEW c \in Nat, c <= Len(items(j + 1))
               PROVE  Once(c, j + 1)
    OBVIOUS
  <2>1. j <= Len(records)
    BY <1>1
  <2>2. /\ items(j) \in Seq(WholeItems) /\ Len(items(j)) \in Nat
        /\ items(j + 1) \in Seq(WholeItems) /\ Len(items(j + 1)) \in Nat
        /\ Begins(items(j + 1), items(j + 1))
    BY <1>2, <2>1
  <2>3. items(j + 1) = items(j) \/ \E item \in WholeItems : items(j + 1) = Append(items(j), item)
    BY <1>3
  <2>4. CASE c <= Len(items(j))
    <3>1. PICK k \in 0 .. j : Len(items(k)) = c /\ Begins(items(k), items(j))
      BY <1>5, <2>1, <2>4
    <3>2. k \in Nat /\ k <= Len(records) /\ k \in 0 .. j + 1
      BY <1>1, <2>1
    <3>3. items(k) \in Seq(WholeItems)
      BY <1>2, <3>2
    <3>4. Begins(items(k), items(j + 1))
      BY <2>2, <2>3, <3>1, <3>3, BeginsMore
    <3> QED BY <3>1, <3>2, <3>4
  <2>5. CASE ~(c <= Len(items(j)))
    <3>1. Len(items(j + 1)) <= Len(items(j)) + 1
      BY <2>2, <2>3, AppendProperties
    <3>2. c = Len(items(j + 1))
      BY <2>2, <2>5, <3>1
    <3>3. j + 1 \in 0 .. j + 1
      OBVIOUS
    <3> QED BY <2>2, <3>2, <3>3
  <2> QED BY <2>4, <2>5
<1> HIDE DEF S
<1>6. Len(records) \in S
  BY <1>1, <1>4, <1>5, NatSetInduction
<1>7. Once(b, Len(records))
  <2>1. b <= Len(items(Len(records))) /\ Len(records) <= Len(records)
    BY <1>1 DEF items
  <2> QED BY <1>6, <2>1 DEF S
<1> QED BY <1>1, <1>7 DEF items, f

\* The beginning of a file's items may be bequeathed.
Bequest(items, b) == [i \in 1 .. b |-> Entry(WithoutOperations(items[i]))]

\* They are those of the entries up to the last of them.
LEMMA MayBequeath ==
  ASSUME NEW records \in Seq(Records), Legible(records),
         NEW b \in 1 .. Len(DecodeLog(records).items)
  PROVE  Bequest(DecodeLog(records).items, b) \in Log!Bequeathed(Entries(records))
<1> DEFINE f == LastFork(records)
           all == DecodeLog(records).items
           entries == Entries(records)
<1>1. all \in Seq(WholeItems) /\ Len(all) \in Nat /\ Len(records) \in Nat
  BY WholeIsRead, LenProperties
<1>2. b \in Nat /\ b <= Len(all) /\ b # 0
  BY <1>1
<1>3. PICK k \in 0 .. Len(records) :
        Len(Reading(records, f, k).items) = b /\ Begins(Reading(records, f, k).items, all)
  BY <1>2, ItemsWere
<1> DEFINE some == Reading(records, f, k).items
           kept == Lists(records, k)
           n == Len(kept)
           written == Written(some)
<1>4. k \in Nat /\ k <= Len(records)
  BY <1>1
<1>5. Log!Only(kept, Log!ItemEntries) = written
  BY <1>4, ListsAtEach DEF ListsAt
<1>6. kept \in Seq(LogEntries) /\ entries \in Seq(LogEntries) /\ Begins(kept, entries)
  <2>1. Len(records) <= Len(records) /\ entries = Lists(records, Len(records))
    BY <1>1, EntriesAreListed
  <2> QED BY <1>1, <1>4, <2>1, ListsTyped, ListsBegin
<1>7. Len(some) = b /\ \A i \in 1 .. b : all[i] = some[i]
  BY <1>3 DEF Begins
<1> HIDE DEF some, kept, entries, all
<1>8. SubSeq(entries, 1, n) = kept
  BY <1>6, BeginningIs
<1>9. Len(written) = b /\ \A i \in 1 .. b : written[i] = Entry(all[i])
  <2>1. written = [i \in 1 .. b |-> Entry(some[i])]
    BY <1>7 DEF Written
  <2> HIDE DEF written
  <2>2. Len(written) = b
    BY <1>2, <2>1
  <2> QED BY <1>7, <2>1, <2>2
<1> HIDE DEF written
<1>10. n \in 1 .. Len(entries)
  <2>1. n \in Nat /\ Len(entries) \in Nat /\ n <= Len(entries)
    BY <1>6, LenProperties DEF Begins
  <2>2. n # 0
    <3> SUFFICES ASSUME n = 0 PROVE FALSE
      OBVIOUS
    <3>1. kept = <<>>
      BY <1>6, EmptySeq
    <3>2. \A i \in 1 .. Len(kept) : kept[i] \notin Log!ItemEntries
      OBVIOUS
    <3>3. written = <<>>
      BY <1>5, <1>6, <3>2, OnlyNothing
    <3> QED BY <1>2, <1>9, <3>3
  <2> HIDE DEF n
  <2> QED BY <2>1, <2>2
<1> HIDE DEF n
<1> DEFINE bequest == [i \in 1 .. Len(written) |-> Log!ItemEntry(Log!WithoutOperations(written[i].item))]
<1>11. bequest \in Log!Bequeathed(entries)
  <2>1. bequest = LET items == Log!Only(SubSeq(entries, 1, n), Log!ItemEntries)
                  IN [i \in 1 .. Len(items) |-> Log!ItemEntry(Log!WithoutOperations(items[i].item))]
    BY <1>5, <1>8, Zenon
  <2> HIDE DEF bequest
  <2> QED BY <1>10, <2>1, Zenon DEF Log!Bequeathed
<1>12. ASSUME NEW i \in 1 .. b
       PROVE  Log!ItemEntry(Log!WithoutOperations(written[i].item)) = Entry(WithoutOperations(all[i]))
  <2>1. written[i].item = all[i]
    BY <1>9, EntryParts
  <2>2. Log!WithoutOperations(all[i]) = WithoutOperations(all[i])
    BY Zenon DEF Log!WithoutOperations, WithoutOperations
  <2> QED BY <2>1, <2>2, EntryParts
<1>13. bequest = Bequest(all, b)
  <2>1. bequest = [i \in 1 .. b |-> Log!ItemEntry(Log!WithoutOperations(written[i].item))]
    BY <1>9
  <2> HIDE DEF bequest
  <2> QED BY <1>12, <2>1, Zenon DEF Bequest
<1> QED BY <1>11, <1>13 DEF all, entries

\* The entries of a branch.
LogBranched(records, rest) ==
  \E history \in Log!Bequeathed(Entries(records)), t \in Turns :
    Entries(rest) = Append(history, Log!ItemEntry(Log!ForkItem(t)))

\* A branch of the file is one of the log.
LEMMA BranchesLog ==
  ASSUME NEW records \in Seq(Records), Legible(records), NEW turn,
         Boundary(DecodeLog(records).items, turn) # 0
  PROVE  LogBranched(records, ForkLog(DecodeLog(records).items, turn))
<1> DEFINE items == DecodeLog(records).items
           b == Boundary(items, turn)
           rest == ForkLog(items, turn)
           left == Entries(rest)
           e == Entry(ForkItem(turn))
           history == Bequest(items, b)
           c == Append(history, e)
<1>1. items \in Seq(WholeItems)
  BY WholeIsRead
<1>2. ForkedAt(items, turn, b, rest)
  BY <1>1, Forking
<1>3. b \in 1 .. Len(items) /\ turn \in Turns
  BY <1>1, BoundaryIs DEF BoundaryAt
<1>4. history \in Log!Bequeathed(Entries(records))
  BY <1>3, MayBequeath
<1> HIDE DEF items, b, rest
<1>5. /\ rest \in Seq(Records) /\ Len(rest) = b + 1
      /\ Inherits(rest, Len(rest)) /\ IsFork(rest[Len(rest)])
      /\ \A i \in 1 .. b : rest[i].item = WithoutOperations(items[i])
      /\ rest[b + 1].item = ForkItem(turn)
  BY <1>2 DEF ForkedAt
<1>6. /\ left \in Seq(LogEntries) /\ Len(left) = Len(rest)
      /\ \A i \in 1 .. Len(rest) : left[i] = Entry(rest[i].item)
  BY <1>5, InheritedEntries
<1>7. b \in Nat /\ b >= 1
  BY <1>1, <1>3, LenProperties
<1> HIDE DEF left
<1>8. left[b + 1] = e /\ e \in LogEntries
  <2>1. b + 1 \in 1 .. Len(left) /\ b + 1 \in 1 .. Len(rest)
    BY <1>5, <1>6, <1>7
  <2>2. left[b + 1] = e
    BY <1>5, <1>6, <2>1
  <2>3. left[b + 1] \in LogEntries
    BY <1>6, <2>1, ElementOfSeq
  <2> QED BY <2>2, <2>3
<1>9. \A i \in 1 .. b : left[i] = history[i] /\ history[i] \in LogEntries
  <2> TAKE i \in 1 .. b
  <2>1. i \in 1 .. Len(left) /\ i \in 1 .. Len(rest)
    BY <1>5, <1>6, <1>7
  <2>2. left[i] = Entry(WithoutOperations(items[i]))
    BY <1>5, <1>6, <2>1
  <2>3. history[i] = Entry(WithoutOperations(items[i]))
    BY Zenon DEF Bequest
  <2>4. left[i] \in LogEntries
    BY <1>6, <2>1, ElementOfSeq
  <2> QED BY <2>2, <2>3, <2>4
<1>10. history \in Seq(LogEntries) /\ Len(history) = b
  <2>1. history = [i \in 1 .. b |-> history[i]]
    BY DEF Bequest
  <2> HIDE DEF history
  <2>2. history \in [1 .. b -> LogEntries]
    BY <1>9, <2>1
  <2>3. history \in Seq(LogEntries)
    BY <1>7, <2>2, SeqDef
  <2>4. DOMAIN history = 1 .. b /\ DOMAIN history = 1 .. Len(history) /\ Len(history) \in Nat
    BY <2>2, <2>3, LenProperties
  <2> QED BY <1>7, <2>3, <2>4
<1> HIDE DEF history, e
<1>11. /\ c \in Seq(LogEntries) /\ Len(c) = b + 1 /\ c[b + 1] = e
       /\ \A i \in 1 .. b : c[i] = history[i]
  BY <1>8, <1>10, AppendProperties
<1> HIDE DEF c
<1>12. ASSUME NEW i \in 1 .. b + 1 PROVE left[i] = c[i]
  <2>1. i = b + 1 \/ i \in 1 .. b
    BY <1>7
  <2> QED BY <1>8, <1>9, <1>11, <2>1
<1>13. left = c
  BY <1>5, <1>6, <1>11, <1>12, SeqEqual
<1>14. e = Log!ItemEntry(Log!ForkItem(turn))
  BY Zenon DEF e, Entry, ForkItem, Log!ItemEntry, Log!ForkItem
<1>15. left = Append(history, Log!ItemEntry(Log!ForkItem(turn)))
  BY <1>13, <1>14 DEF c
<1> HIDE DEF left
<1>16. Entries(rest) = Append(history, Log!ItemEntry(Log!ForkItem(turn)))
  BY <1>15 DEF left
<1>17. LogBranched(records, rest)
  BY <1>3, <1>4, <1>16, Zenon DEF LogBranched, history, items, b
<1> QED BY <1>17 DEF rest, items

-----------------------------------------------------------------------------
(* Appends, as the log has them *)

CallOf(s) ==
  IF s = None \/ s.record.type = "checkpoint" THEN None
  ELSE [entry |-> EntryOf(s.record, s.head)[1], taken |-> s.phase = "sync"]

\* The call is that of the step.
LEMMA CallIsOf == Call = CallOf(step) /\ Call' = CallOf(step')
BY DEF Call, CallOf

\* What an append adds to the log.
Requested(e) == e \in Log!ItemEntries \cup Log!SaveEntries /\ ~Log!EntryIsFork(e)

AddsEntry(base, record) ==
  \E e \in LogEntries :
    EntryOf(record, DecodeLog(base).head) = <<e>> /\ Requested(e)

\* An append that is pending adds the entry of its record.
LEMMA PendingEntry ==
  ASSUME NEW base, NEW record, NEW head, NEW ids, Pending(base, record, head, ids)
  PROVE  /\ record.type # "checkpoint" => AddsEntry(base, record)
         /\ record.type = "checkpoint" => EntryOf(record, DecodeLog(base).head) = <<>>
         /\ Entries(base) \in Seq(LogEntries)
         /\ Entries(Append(base, record)) = Entries(base) \o EntryOf(record, DecodeLog(base).head)
<1> DEFINE more == Append(base, record)
           f == LastFork(more)
           n == Len(base)
           whole == DecodeLog(base).head
<1>1. /\ base \in Seq(Records) /\ Legible(base) /\ record \in Records /\ ~IsFork(record)
      /\ more \in Seq(Records) /\ Legible(more)
  BY DEF Pending
<1>2. /\ Len(more) = n + 1 /\ more[n + 1] = record
      /\ SubSeq(more, 1, (n + 1) - 1) = base /\ f = LastFork(base)
  BY <1>1, DecodeAppend
<1>3. n \in Nat /\ f \in Nat /\ f <= n
  BY <1>1, <1>2, LegibleParts DEF Parts
<1>4. Entries(base) \in Seq(LogEntries)
  <2>1. n <= n
    BY <1>3
  <2> QED BY <1>1, <1>3, <2>1, ListsTyped, EntriesAreListed
<1>5. Entries(more) = Entries(base) \o EntryOf(record, whole)
  BY <1>1, EntriesOfMore
<1>6. DecodeLog(base) = Reading(more, f, n)
  <2>1. SubSeq(more, 1, n) = base
    <3>1. (n + 1) - 1 = n
      BY <1>3
    <3> QED BY <1>2, <3>1
  <2>2. n <= Len(more)
    BY <1>2, <1>3
  <2> QED BY <1>1, <1>3, <2>1, <2>2, PrefixIsReading
<1> HIDE DEF more, f, n, whole
<1>7. ASSUME IsItem(record) PROVE AddsEntry(base, record)
  <2>1. PICK item : ListsItem(more, n, item)
    BY <1>1, <1>2, <1>3, <1>7, ListsTheItem
  <2>2. item \in WholeItems /\ EntryOf(record, whole) = <<Entry(item)>> /\ item.kind = record.item.kind
    BY <1>2, <1>6, <2>1 DEF ListsItem, f, whole
  <2> DEFINE e == Entry(item)
  <2>3. e \in Log!ItemEntries
    BY <2>2, ItemEntriesAre
  <2>4. e \in LogEntries
    BY <2>2 DEF LogEntries, Entry
  <2>5. ~Log!EntryIsFork(e)
    BY <1>1, <1>7, <2>2, EntryParts DEF Log!EntryIsFork, IsFork
  <2> QED BY <2>2, <2>3, <2>4, <2>5 DEF AddsEntry, Requested, whole
<1>8. ASSUME record.type = "operation" PROVE AddsEntry(base, record)
  <2>1. EntryOf(record, whole) = <<record>>
    BY <1>8, EntryIs
  <2>2. record.op \in Ops /\ record.value \in FullValues
    BY <1>1, <1>8, RecordKinds
  <2>3. record = [type |-> "operation", op |-> record.op, value |-> record.value]
    BY <1>1, <1>8 DEF Records
  <2>4. record \in Log!SaveEntries
    <3>1. record.value \in Log!Values
      BY <2>2, Marks DEF Log!Values, Values, Log!Unfinished, Unfinished, Log!Bare, Bare
    <3>2. record = Log!SaveEntry(record.op, record.value)
      BY <2>3, Zenon DEF Log!SaveEntry
    <3> QED BY <2>2, <3>1, <3>2 DEF Log!SaveEntries
  <2>5. record \in LogEntries
    BY <2>2, <2>3 DEF LogEntries
  <2>6. ~Log!EntryIsFork(record)
    BY <1>8 DEF Log!EntryIsFork
  <2> QED BY <2>1, <2>4, <2>5, <2>6 DEF AddsEntry, Requested, whole
<1>9. record.type \in {"item", "operation", "checkpoint"}
  BY <1>1, RecordKinds
<1>10. record.type # "checkpoint" => AddsEntry(base, record)
  BY <1>7, <1>8, <1>9 DEF IsItem
<1>11. record.type = "checkpoint" => EntryOf(record, whole) = <<>>
  BY EntryIs
<1> QED BY <1>4, <1>5, <1>10, <1>11 DEF more, whole

\* The entry of an append is the same by the runner's head and by the file.
SameEntry(record, head, records) ==
  EntryOf(record, head) = EntryOf(record, DecodeLog(records).head)

EntryRight(s, records) ==
  s # None =>
    /\ s.phase # "sync" => SameEntry(s.record, s.head, records)
    /\ s.phase = "sync" => SameEntry(s.record, s.head, Front(records))

LogInv == EntryRight(step, file.records)

\* The call while its append is in progress.
LEMMA CallRight ==
  ASSUME NEW s, s # None, s.phase \in {"truncate", "write", "sync"}, s.record.type # "checkpoint",
         NEW e, Requested(e), EntryOf(s.record, s.head) = <<e>>
  PROVE  /\ CallOf(s) = [entry |-> e, taken |-> s.phase = "sync"]
         /\ CallOf(s) # None /\ CallOf(s).entry = e
         /\ CallOf(s).taken = (s.phase = "sync")
<1> DEFINE t == s.phase = "sync"
           c == [entry |-> e, taken |-> t]
<1>1. EntryOf(s.record, s.head)[1] = e
  OBVIOUS
<1>2. CallOf(s) = c
  BY <1>1, Zenon DEF CallOf
<1>3. t \in BOOLEAN
  OBVIOUS
<1> HIDE DEF t
<1>4. c \in [entry : Log!ItemEntries \cup Log!SaveEntries, taken : BOOLEAN]
  BY <1>3 DEF Requested
<1>5. c.entry = e /\ c.taken = t
  OBVIOUS
<1> QED BY <1>2, <1>4, <1>5, CallAssumption DEF t

\* What a step of the file is to the log.
LogStep == [Log!Next]_(Log!logVars)

\* When neither the entries nor the call change, the log does not.
LEMMA LogStutters ==
  ASSUME Entries(file'.records) = Entries(file.records), CallOf(step') = CallOf(step)
  PROVE  LogStep
BY CallIsOf DEF LogStep, Log!logVars

\* By the invariant the file is legible.
LEMMA FileIsLegible ==
  ASSUME FileInv
  PROVE  file.records \in Seq(Records) /\ Legible(file.records)
BY DEF FileInv, FileRight, Files

\* A step that leaves the records and the append as they are.
LEMMA LogQuiet ==
  ASSUME LogInv, file'.records = file.records, step' = step
  PROVE  LogStep /\ LogInv'
BY LogStutters DEF LogInv

\* What is in progress.
LEMMA StepParts ==
  ASSUME FileInv, step # None
  PROVE  /\ step.phase \in {"truncate", "write", "sync"}
         /\ step.phase # "sync" => Pending(file.records, step.record, step.head, used)
         /\ step.phase = "sync" =>
              /\ file.records = Append(Front(file.records), step.record)
              /\ Pending(Front(file.records), step.record, step.head, used)
BY DEF FileInv, StepRight, Steps

\* An append whose record is a checkpoint is none of the log's.
LEMMA NoCall ==
  ASSUME NEW s, s = None \/ s.record.type = "checkpoint"
  PROVE  CallOf(s) = None
BY DEF CallOf

\* The entry of an append in progress.
LEMMA CallInProgress ==
  ASSUME FileInv, LogInv, step # None, step.phase # "sync", step.record.type # "checkpoint"
  PROVE  \E e \in LogEntries :
           /\ Requested(e) /\ EntryOf(step.record, step.head) = <<e>>
           /\ EntryOf(step.record, DecodeLog(file.records).head) = <<e>>
<1>1. AddsEntry(file.records, step.record)
  BY StepParts, PendingEntry
<1> QED BY <1>1 DEF AddsEntry, LogInv, EntryRight, SameEntry

\* A torn record is cut off: the log has none of it.
LEMMA LogTruncate ==
  ASSUME FileInv, LogInv, Truncate
  PROVE  LogStep /\ LogInv'
<1>1. file'.records = file.records
  BY TruncatesNothing
<1>2. step # None /\ step.phase = "truncate" /\ step' = [step EXCEPT !.phase = "write"]
  BY DEF Truncate
<1>3. step \in Steps
  BY <1>2 DEF FileInv, StepRight
<1>4. step'.record = step.record /\ step'.head = step.head /\ step'.phase = "write" /\ step' \in Steps
  BY <1>2, <1>3 DEF Steps
<1>5. step' # None
  BY <1>4, NoneAssumption
<1>6. CallOf(step') = CallOf(step)
  BY <1>2, <1>4, <1>5 DEF CallOf
<1>7. LogStep
  BY <1>1, <1>6, LogStutters
<1>8. EntryRight(step', file'.records)
  BY <1>1, <1>2, <1>4 DEF LogInv, EntryRight
<1> QED BY <1>7, <1>8 DEF LogInv

\* A call with another answer.
LEMMA TakenOrNot ==
  ASSUME NEW e, NEW t, NEW u
  PROVE  [[entry |-> e, taken |-> t] EXCEPT !.taken = u] = [entry |-> e, taken |-> u]
OBVIOUS

\* A record that is written is taken by the log.
LEMMA LogWriteRecord ==
  ASSUME FileInv, LogInv, WriteRecord
  PROVE  LogStep /\ LogInv'
<1> DEFINE record == step.record
           was == Entries(file.records)
           whole == DecodeLog(file.records).head
<1>1. file'.records = Append(file.records, record)
  BY WritesTheRecord
<1>2. step # None /\ step.phase = "write" /\ step' = [step EXCEPT !.phase = "sync"]
  BY DEF WriteRecord
<1>3. step \in Steps
  BY <1>2 DEF FileInv, StepRight
<1>4. step'.record = record /\ step'.head = step.head /\ step'.phase = "sync" /\ step' \in Steps
  BY <1>2, <1>3 DEF Steps
<1>5. step' # None
  BY <1>4, NoneAssumption
<1>6. LogInv'
  <2>1. Front(file'.records) = file.records
    BY <1>1, <1>3, FileIsLegible, FrontOfAppend DEF Steps
  <2>2. SameEntry(record, step.head, file.records)
    BY <1>2 DEF LogInv, EntryRight
  <2>3. EntryRight(step', file'.records)
    BY <1>4, <2>1, <2>2 DEF EntryRight
  <2> QED BY <2>3 DEF LogInv
<1>7. Pending(file.records, record, step.head, used)
  BY <1>2, StepParts
<1>8. /\ was \in Seq(LogEntries)
      /\ Entries(file'.records) = was \o EntryOf(record, whole)
      /\ record.type = "checkpoint" => EntryOf(record, whole) = <<>>
  BY <1>1, <1>7, PendingEntry
<1>9. CASE record.type = "checkpoint"
  <2>1. Entries(file'.records) = was
    BY <1>8, <1>9, NothingMore
  <2>2. CallOf(step) = None /\ CallOf(step') = None
    BY <1>4, <1>9, NoCall
  <2> QED BY <1>6, <2>1, <2>2, LogStutters
<1>10. CASE record.type # "checkpoint"
  <2>1. PICK e \in LogEntries :
          /\ Requested(e) /\ EntryOf(record, step.head) = <<e>> /\ EntryOf(record, whole) = <<e>>
    BY <1>2, <1>10, CallInProgress
  <2>2. /\ CallOf(step) = [entry |-> e, taken |-> FALSE] /\ CallOf(step) # None
        /\ CallOf(step).entry = e /\ CallOf(step).taken = FALSE
    <3>1. /\ CallOf(step) = [entry |-> e, taken |-> step.phase = "sync"] /\ CallOf(step) # None
          /\ CallOf(step).entry = e /\ CallOf(step).taken = (step.phase = "sync")
      BY <1>2, <1>10, <2>1, CallRight
    <3>2. (step.phase = "sync") = FALSE
      BY <1>2
    <3> QED BY <3>1, <3>2
  <2>3. CallOf(step') = [entry |-> e, taken |-> TRUE]
    <3>1. CallOf(step') = [entry |-> e, taken |-> step'.phase = "sync"]
      BY <1>4, <1>5, <1>10, <2>1, CallRight
    <3>2. (step'.phase = "sync") = TRUE
      BY <1>4
    <3> QED BY <3>1, <3>2
  <2>4. Entries(file'.records) = Append(was, e)
    BY <1>8, <2>1, ConcatOne
  <2>5. CallOf(step') = [CallOf(step) EXCEPT !.taken = TRUE]
    <3>1. [[entry |-> e, taken |-> FALSE] EXCEPT !.taken = TRUE] = [entry |-> e, taken |-> TRUE]
      BY TakenOrNot
    <3> QED BY <2>2, <2>3, <3>1
  <2>6. Log!Take
    BY <2>2, <2>4, <2>5, CallIsOf DEF Log!Take
  <2> QED BY <1>6, <2>6 DEF LogStep, Log!Next
<1> QED BY <1>9, <1>10

\* An append that ends: its record stays, or it is lost.
LEMMA LogEnds ==
  ASSUME FileInv, LogInv, step' = None,
         \/ file'.records = file.records
         \/ step # None /\ step.phase = "sync" /\ file'.records = Front(file.records)
  PROVE  LogStep /\ LogInv'
<1>1. LogInv'
  BY DEF LogInv, EntryRight
<1>2. CallOf(step') = None
  BY NoCall
<1>3. CASE file'.records = file.records
  <2>1. CASE CallOf(step) = None
    BY <1>1, <1>2, <1>3, <2>1, LogStutters
  <2>2. CASE CallOf(step) # None
    <3>1. Log!Answer
      BY <1>2, <1>3, <2>2, CallIsOf DEF Log!Answer
    <3> QED BY <1>1, <3>1 DEF LogStep, Log!Next
  <2> QED BY <2>1, <2>2
<1>4. CASE step # None /\ step.phase = "sync" /\ file'.records = Front(file.records)
  <2> DEFINE record == step.record
             base == Front(file.records)
             was == Entries(base)
             whole == DecodeLog(base).head
  <2>1. file.records = Append(base, record) /\ Pending(base, record, step.head, used)
    BY <1>4, StepParts
  <2>2. /\ was \in Seq(LogEntries)
        /\ Entries(file.records) = was \o EntryOf(record, whole)
        /\ record.type = "checkpoint" => EntryOf(record, whole) = <<>>
        /\ record.type # "checkpoint" => AddsEntry(base, record)
    BY <2>1, PendingEntry
  <2>3. CASE record.type = "checkpoint"
    <3>1. Entries(file'.records) = Entries(file.records)
      BY <1>4, <2>2, <2>3, NothingMore
    <3>2. CallOf(step) = None
      BY <2>3, NoCall
    <3> QED BY <1>1, <1>2, <3>1, <3>2, LogStutters
  <2>4. CASE record.type # "checkpoint"
    <3>1. PICK e \in LogEntries : EntryOf(record, whole) = <<e>>
      BY <2>2, <2>4 DEF AddsEntry
    <3>2. Entries(file.records) = Append(was, e)
      BY <2>2, <3>1, ConcatOne
    <3>3. Front(Entries(file.records)) = was
      BY <2>2, <3>2, FrontOfAppend
    <3>4. CallOf(step) # None /\ CallOf(step).taken
      <4>1. PICK d : Requested(d) /\ EntryOf(record, step.head) = <<d>>
        <5>1. PICK d \in LogEntries : EntryOf(record, whole) = <<d>> /\ Requested(d)
          BY <2>2, <2>4 DEF AddsEntry
        <5>2. EntryOf(record, step.head) = EntryOf(record, whole)
          BY <1>4 DEF LogInv, EntryRight, SameEntry
        <5> QED BY <5>1, <5>2
      <4> QED BY <1>4, <2>4, <4>1, CallRight
    <3>5. Log!Front(Entries(file.records)) = Front(Entries(file.records))
      BY DEF Log!Front, Front
    <3>6. Log!Lose
      BY <1>2, <1>4, <3>3, <3>4, <3>5, CallIsOf DEF Log!Lose
    <3> QED BY <1>1, <3>6 DEF LogStep, Log!Next
  <2> QED BY <2>3, <2>4
<1> QED BY <1>3, <1>4

\* An append begins: it is asked of the log.
LEMMA LogBegins ==
  ASSUME FileInv, FileInv', NEW record, NEW head, BeginAppend(record, head),
         SameEntry(record, head, file.records)
  PROVE  LogStep /\ LogInv'
<1>1. /\ step = None /\ file' = file
      /\ step' = [record |-> record, head |-> head, size |-> WriteState.size, phase |-> "truncate"]
  BY DEF BeginAppend
<1>2. step'.record = record /\ step'.head = head /\ step'.phase = "truncate"
  BY <1>1
<1>3. LogInv'
  <2>1. EntryRight(step', file'.records)
    BY <1>1, <1>2 DEF EntryRight
  <2> QED BY <2>1 DEF LogInv
<1>4. CallOf(step) = None
  BY <1>1, NoCall
<1>5. CASE step' = None \/ record.type = "checkpoint"
  <2>1. CallOf(step') = None
    BY <1>2, <1>5, NoCall
  <2> QED BY <1>1, <1>3, <1>4, <2>1, LogStutters
<1>6. CASE step' # None /\ record.type # "checkpoint"
  <2>1. Pending(file.records, record, head, used')
    <3>1. StepRight(step', file', lock', used')
      BY DEF FileInv
    <3> QED BY <1>1, <1>2, <1>6, <3>1 DEF StepRight
  <2>2. PICK e \in LogEntries : EntryOf(record, DecodeLog(file.records).head) = <<e>> /\ Requested(e)
    BY <1>6, <2>1, PendingEntry DEF AddsEntry
  <2>3. EntryOf(record, head) = <<e>>
    BY <2>2 DEF SameEntry
  <2>4. CallOf(step') = [entry |-> e, taken |-> FALSE]
    <3>1. CallOf(step') = [entry |-> e, taken |-> step'.phase = "sync"]
      BY <1>2, <1>6, <2>2, <2>3, CallRight
    <3>2. (step'.phase = "sync") = FALSE
      BY <1>2
    <3> QED BY <3>1, <3>2
  <2>5. Log!Request(e)
    BY <1>1, <1>4, <2>4, CallIsOf DEF Log!Request
  <2>6. Log!Next
    BY <2>2, <2>5 DEF Log!Next, Requested
  <2> QED BY <1>3, <2>6 DEF LogStep
<1> QED BY <1>5, <1>6

\* An item that has its operation, or none, is the same by every head.
LEMMA SameItem ==
  ASSUME NEW seq, NEW item, item.kind = "status" => item.value # Saved, NEW head, NEW records
  PROVE  SameEntry(ItemRecord(seq, item), head, records)
<1> DEFINE record == ItemRecord(seq, item)
<1>1. IsItem(record) /\ record.item = item
  BY DEF ItemRecord, IsItem
<1>2. \A h : Resolved(h, item) = item
  BY DEF Resolved
<1> HIDE DEF record
<1> QED BY <1>1, <1>2, EntryIs DEF SameEntry, record

\* An item that is appended whole.
LEMMA LogBeginsItem ==
  ASSUME FileInv, FileInv', NEW item, item.kind = "status" => item.value # Saved, BeginItem(item)
  PROVE  LogStep /\ LogInv'
<1>1. PICK record, head : /\ BeginAppend(record, head)
                          /\ \E seq : record = ItemRecord(seq, item)
  BY DEF BeginItem
<1>2. SameEntry(record, head, file.records)
  BY <1>1, SameItem
<1> QED BY <1>1, <1>2, LogBegins

\* A status that holds its operation by ID: the head keeps the operation as the file has it.
LEMMA LogAppendToolCallStatus ==
  ASSUME FileInv, FileInv', NEW turn \in Turns, NEW op \in Ops, AppendToolCallStatus(turn, op)
  PROVE  LogStep /\ LogInv'
<1> DEFINE h == WriteState.head
           w == DecodeLog(file.records).head
           value == IF h.ops[op] = FullValue(op) THEN Saved ELSE FullValue(op)
           item == StatusItem(turn, op, value)
           whole == [item EXCEPT !.value = h.ops[op]]
           next == AddItem(h, whole)
           record == ItemRecord(h.seq + 1, item)
<1>1. /\ op \in DOMAIN h.ops /\ <<turn, op>> \in h.calls /\ Finished(h.ops[op])
      /\ op \in h.pending /\ BeginItem(item)
  BY DEF AppendToolCallStatus
<1>2. step = None
  BY <1>1 DEF BeginItem, BeginAppend
<1>3. FullValue(op) = Value(h.ops[op].status)
  BY DEF FullValue
<1>4. Mirroring(h, w, file.records, Len(file.records))
  BY <1>2, WriteStateIsRight
<1> HIDE DEF h, w, item
<1>5. /\ h.ops[op] = w.ops[op] /\ op \in DOMAIN w.ops /\ h.ops[op] \in FullValues
      /\ h.ops[op] = FullValue(op)
  BY <1>1, <1>3, <1>4, NotSettled
<1>6. value = Saved
  BY <1>5
<1> HIDE DEF value
<1>7. item = [kind |-> "status", turn |-> turn, op |-> op, value |-> Saved]
  BY <1>6 DEF item, StatusItem
<1>8. BeginAppend(record, next)
  BY <1>1, <1>7 DEF BeginItem, h
<1>9. next.ops = h.ops
  <2>1. whole = [kind |-> "status", turn |-> turn, op |-> op, value |-> h.ops[op]]
    BY <1>7
  <2> HIDE DEF whole
  <2>2. whole \in WholeItems /\ whole.kind = "status" /\ whole.value # None
        /\ whole.turn = turn /\ whole.op = op
    BY <1>5, <2>1, Marks DEF WholeItems
  <2>3. h \in Heads
    BY <1>4 DEF Mirroring
  <2> QED BY <1>1, <2>2, <2>3, AddedStatus
<1> HIDE DEF next
<1>10. Resolved(next, item) = Resolved(w, item)
  <2>1. op \in DOMAIN next.ops /\ next.ops[op] = w.ops[op]
    BY <1>1, <1>5, <1>9
  <2>2. item.kind = "status" /\ item.value = Saved /\ item.op = op
    BY <1>7
  <2> HIDE DEF item
  <2>3. Resolved(next, item) = [item EXCEPT !.value = next.ops[op]]
    BY <2>1, <2>2 DEF Resolved
  <2>4. Resolved(w, item) = [item EXCEPT !.value = w.ops[op]]
    BY <1>5, <2>2 DEF Resolved
  <2> QED BY <2>1, <2>3, <2>4
<1>11. SameEntry(record, next, file.records)
  <2>1. IsItem(record) /\ record.item = item
    BY DEF ItemRecord, IsItem
  <2> HIDE DEF record
  <2> QED BY <1>10, <2>1, EntryIs DEF SameEntry, w
<1> QED BY <1>8, <1>11, LogBegins

\* A saved operation and a checkpoint are what they are, by every head.
LEMMA LogBeginsOther ==
  ASSUME FileInv, FileInv', NEW record, NEW head, BeginAppend(record, head),
         record.type \in {"operation", "checkpoint"}
  PROVE  LogStep /\ LogInv'
<1>1. SameEntry(record, head, file.records)
  BY EntryIs DEF SameEntry
<1> QED BY <1>1, LogBegins

\* Every step of the store is one of the log, or leaves it alone;
LEMMA LogStore ==
  ASSUME FileInv, FileInv', LogInv, StoreStep
  PROVE  LogStep /\ LogInv'
<1>1. CASE \E id \in Prompts \cup Settings : AppendInput(id)
  BY <1>1, LogBeginsItem DEF AppendInput, InputItem
<1>2. CASE \E turn \in Turns : AppendTurn(turn) \/ AppendModelResponse(turn)
  <2>1. ASSUME NEW turn \in Turns, AppendTurn(turn) PROVE LogStep /\ LogInv'
    <3>1. BeginItem(TurnItem(turn, WriteState.head.latest))
      BY <2>1 DEF AppendTurn
    <3>2. TurnItem(turn, WriteState.head.latest).kind = "turn"
      BY DEF TurnItem
    <3> QED BY <3>1, <3>2, LogBeginsItem
  <2>2. ASSUME NEW turn \in Turns, AppendModelResponse(turn) PROVE LogStep /\ LogInv'
    <3>1. BeginItem(ResponseItem(turn)) /\ ResponseItem(turn).kind = "response"
      BY <2>2 DEF AppendModelResponse, ResponseItem
    <3> QED BY <3>1, LogBeginsItem
  <2> QED BY <1>2, <2>1, <2>2
<1>3. CASE \E turn \in Turns, op \in Ops : BeginOperation(turn, op) \/ AppendToolCallStatus(turn, op)
  <2>1. ASSUME NEW turn \in Turns, NEW op \in Ops, BeginOperation(turn, op) PROVE LogStep /\ LogInv'
    <3>1. BeginItem(StatusItem(turn, op, Value("ready")))
      BY <2>1 DEF BeginOperation
    <3>2. Value("ready") # Saved
      BY FullValueOf, Marks DEF Unfinished
    <3>3. StatusItem(turn, op, Value("ready")).value # Saved
      BY <3>2 DEF StatusItem
    <3> QED BY <3>1, <3>3, LogBeginsItem
  <2> QED BY <1>3, <2>1, LogAppendToolCallStatus
<1>4. CASE \E op \in Ops, status \in {"awaiting", "completed"} : SaveOperationStatus(op, status)
  <2>1. PICK op \in Ops, status \in {"awaiting", "completed"} : SaveOperationStatus(op, status)
    BY <1>4
  <2>2. BeginAppend(OperationRecord(op, Value(status)), SaveOperation(WriteState.head, op, Value(status)))
    BY <2>1 DEF SaveOperationStatus
  <2>3. OperationRecord(op, Value(status)).type = "operation"
    BY DEF OperationRecord
  <2> QED BY <2>2, <2>3, LogBeginsOther
<1>5. CASE SaveCheckpoint
  <2>1. PICK record, head : BeginAppend(record, head) /\ record.type = "checkpoint"
    BY <1>5 DEF SaveCheckpoint, CheckpointRecord
  <2> QED BY <2>1, LogBeginsOther
<1>6. CASE Truncate
  BY <1>6, LogTruncate
<1>7. CASE WriteRecord
  BY <1>7, LogWriteRecord
<1>8. CASE Sync
  <2>1. step' = None /\ file' = file
    BY <1>8 DEF Sync
  <2> QED BY <2>1, LogEnds
<1>9. CASE AppendFails
  <2>1. step' = None /\ file'.records = file.records
    BY <1>9, FailsWithout DEF AppendFails
  <2> QED BY <2>1, LogEnds
<1> QED BY <1>1, <1>2, <1>3, <1>4, <1>5, <1>6, <1>7, <1>8, <1>9 DEF StoreStep

\* so is a rewind,
LEMMA LogRewind ==
  ASSUME FileInv, NEW prompt \in Prompts, Rewind(prompt)
  PROVE  LogStep /\ LogInv'
<1> DEFINE cut == CutLog(file.records, prompt)
           rest == Remains(file.records, cut)
           was == Entries(file.records)
<1>1. cut.found /\ file'.records = rest /\ step' = step
  <2>1. CutOf(prompt) = cut
    BY CutIsOfTheFile
  <2> HIDE DEF cut
  <2>2. PICK id \in Inodes : file' = Replaced(rest, id)
    BY <2>1 DEF Rewind, Free
  <2> HIDE DEF rest
  <2>3. file'.records = rest
    BY <2>2 DEF Replaced
  <2> QED BY <2>1, <2>3 DEF Rewind, runner
<1>2. step = None
  BY RewindsTo
<1>3. LogInv'
  BY <1>1, <1>2 DEF LogInv, EntryRight
<1>4. CallOf(step) = None /\ CallOf(step') = None
  BY <1>1, <1>2, NoCall
<1>5. LogRewound(file.records, prompt, rest)
  BY <1>1, FileIsLegible, RewindsLog
<1> HIDE DEF rest
<1>6. PICK m \in Log!Cuts(was, prompt) : Entries(rest) \in Log!Remaining(was, m)
  BY <1>5 DEF LogRewound
<1>7. Entries(rest) \in Log!Rewound(was)
  <2> HIDE DEF was, cut
  <2>1. Entries(rest) \in UNION {Log!Remaining(was, c) : c \in Log!Cuts(was, prompt)}
    BY <1>6
  <2>2. Log!Rewound(was) = UNION {UNION {Log!Remaining(was, c) : c \in Log!Cuts(was, p)} : p \in Prompts}
    BY DEF Log!Rewound
  <2> QED BY <2>1, <2>2
<1>8. Log!Rewind
  BY <1>1, <1>4, <1>7, CallIsOf DEF Log!Rewind
<1> QED BY <1>3, <1>8 DEF LogStep, Log!Next

\* a branch,
LEMMA LogBranch ==
  ASSUME FileInv, LogInv, BranchFork
  PROVE  LogStep /\ LogInv'
<1> DEFINE items == DecodeLog(file.records).items
           rest == ForkLog(items, branch.turn)
           was == Entries(file.records)
<1>1. CASE Boundary(items, branch.turn) # 0
  <2>1. step' = None /\ file' = Replaced(rest, file.id)
    BY <1>1 DEF BranchFork
  <2>2. LogBranched(file.records, rest)
    BY <1>1, FileIsLegible, BranchesLog
  <2> HIDE DEF rest
  <2>3. file'.records = rest
    BY <2>1 DEF Replaced
  <2>4. PICK history \in Log!Bequeathed(was), t \in Turns :
          Entries(rest) = Append(history, Log!ItemEntry(Log!ForkItem(t)))
    BY <2>2 DEF LogBranched
  <2>5. CallOf(step') = None
    BY <2>1, NoCall
  <2>6. Log!Branch
    BY <2>3, <2>4, <2>5, CallIsOf DEF Log!Branch
  <2>7. LogInv'
    BY <2>1 DEF LogInv, EntryRight
  <2> QED BY <2>6, <2>7 DEF LogStep, Log!Next
<1>2. CASE ~(Boundary(items, branch.turn) # 0)
  <2>1. file' = file /\ step' = step
    BY <1>2 DEF BranchFork, runner
  <2> QED BY <2>1, LogQuiet
<1> QED BY <1>1, <1>2

\* and every other step.
LEMMA LogNext ==
  ASSUME FileInv, FileInv', LogInv, [Next]_vars
  PROVE  LogStep /\ LogInv'
<1>1. CASE Start
  BY <1>1, LogQuiet DEF Start, runner
<1>2. CASE Stop
  <2>1. step' = None
    BY <1>2 DEF Stop
  <2> QED BY <1>2, <2>1, StopsWith, LogEnds
<1>3. CASE \E forResume \in BOOLEAN : ReadSession(forResume)
  BY <1>3, LogQuiet DEF ReadSession
<1>4. CASE StoreStep
  BY <1>4, LogStore
<1>5. CASE \E prompt \in Prompts : Preview(prompt) \/ Rewind(prompt) \/ BranchScan(prompt)
  <2>1. ASSUME NEW prompt \in Prompts, Preview(prompt) PROVE LogStep /\ LogInv'
    BY <2>1, LogQuiet DEF Preview, runner
  <2>2. ASSUME NEW prompt \in Prompts, BranchScan(prompt) PROVE LogStep /\ LogInv'
    BY <2>2, LogQuiet DEF BranchScan, runner
  <2> QED BY <1>5, <2>1, <2>2, LogRewind
<1>6. CASE BranchFork
  BY <1>6, LogBranch
<1>7. CASE LoadBegin \/ LoadEnd
  BY <1>7, LogQuiet DEF LoadBegin, LoadEnd, runner
<1>8. CASE UNCHANGED vars
  BY <1>8, LogQuiet DEF vars, runner
<1> QED BY <1>1, <1>2, <1>3, <1>4, <1>5, <1>6, <1>7, <1>8 DEF Next

\* At first the log is of what the file holds.
LEMMA LogInit == Init => Log!Init /\ LogInv
<1> SUFFICES ASSUME Init PROVE Log!Init /\ LogInv
  OBVIOUS
<1>1. PICK id \in Inodes, records \in Histories :
        file = [records |-> records, torn |-> FALSE, id |-> id, mtime |-> 0]
  BY DEF Init
<1>2. file.records = records /\ step = None
  BY <1>1 DEF Init
<1>3. Call = None
  BY <1>2 DEF Call
<1>4. LogInv
  BY <1>2 DEF LogInv, EntryRight
<1> QED BY <1>2, <1>3, <1>4 DEF Log!Init

\* ImplementsLog: to who uses a session its file is a log of entries.  An append happens at once
\* or, when its answer is an error or the process is gone, happened or did not; what was answered
\* stays until a rewind, which cuts before a prompt; and a branch has a beginning of it, whatever
\* tore, failed or was lost below (SessionStore, appendFile, RewindSession, BranchSession).
THEOREM KeepsTheLog == Spec => ImplementsLog
<1>1. Init => Log!Init /\ LogInv
  BY LogInit
<1>2. FileInv /\ FileInv' /\ LogInv /\ [Next]_vars => LogInv' /\ [Log!Next]_(Log!logVars)
  BY LogNext DEF LogStep
<1> QED BY <1>1, <1>2, FileInvariant, PTL DEF Spec, ImplementsLog, Log!Spec
=============================================================================
