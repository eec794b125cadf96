-------------------------- MODULE ConversationProofs --------------------------
(***************************************************************************)
(* What the log of a session tells: every response answers the turn        *)
(* recorded last, every stop is told to the model before the next ordinary *)
(* turn, every status is that of a call that was made, and a fork leaves   *)
(* the operations of its parent alone.  The last parts are about what the  *)
(* loop owes the log, a turn once an answer failed, and about when it may  *)
(* record a turn before the one before it was answered.                    *)
(*                                                                         *)
(* A session that is forked may assume of its log what these say;          *)
(* SessionsLeaveForks shows that a session leaves its forks such a log.    *)
(***************************************************************************)
EXTENDS ArrivalProofs

-----------------------------------------------------------------------------
(* The invariant *)

\* The turn recorded last, which nothing answered yet.
Awaited(items, turn, k) ==
  /\ IsTurn(items[k]) /\ items[k].turn = turn
  /\ \A j \in DOMAIN items : j > k => ~IsTurn(items[j]) /\ items[j].kind # "response"

\* A request is answered for that turn only.
AnswerAwaited == pc \in Loop /\ r.live => \E k \in DOMAIN log : Awaited(log, h.turn, k)

\* A stop that no ordinary turn followed yet.
StopPending(items, i) ==
  /\ items[i] = InputItem("stop_hard")
  /\ \A j \in DOMAIN items : j > i => ~IsOrdinary(items[j])

Resumes(items, i) == \E k \in DOMAIN items : k > i /\ items[k] = InputItem("resume")

\* The loop knows of such a stop until it tells it, and it tells it first.
StopIsKnown ==
  pc \in Loop => \A i \in DOMAIN log : StopPending(log, i) =>
    \/ h.stopped
    \/ Resumes(log, i)
    \/ pc = "begin" /\ todo # <<>> /\ Head(todo) = "resume"

Told == {"resume", "note", "reminder"}

\* What a turn begins with was told, or is being recorded.
TurnIsTold == pc = "begin" => ~h.stopped /\ todo \in Seq(Told)

\* The operations a fork's log names are none of its own.
ParentIsLeft ==
  \A o \in InheritedOps :
    /\ saved[o] = "none"
    /\ o \in Calls => Derived.calls[o] = "done"
    /\ \A i \in Len(Inherited) + 1 .. Len(log) : log[i].kind = "status" => log[i].op # o

CInv ==
  /\ LInv
  /\ CallsWereMade(log) /\ ParentIsLeft
  /\ ResponsesAnswer(log) /\ AnswerAwaited
  /\ StopsTold(log) /\ StopIsKnown /\ TurnIsTold

-----------------------------------------------------------------------------
(* The calls a log names *)

\* A call that was made stays made, whatever is replayed after it.
LEMMA MadeStaysMade ==
  ASSUME NEW d \in DerivedState, NEW item \in Items, NEW c \in Calls, d.calls[c] # "none"
  PROVE  AddItem(d, item).calls[c] # "none"
<1>1. CASE item.kind \in {"input", "turn", "response"}
  BY <1>1, MessageCalls
<1>2. CASE item.kind = "status"
  <2>1. item.op \in Ops /\ item.status \in Statuses \cup {"none"}
    BY <1>2, ItemFields
  <2>2. AddItem(d, item) = AddStatus(d, item.op, item.status)
    BY <1>2, Zenon DEF AddItem
  <2>3. AddStatus(d, item.op, item.status) = AddItem(d, StatusItem(item.op, item.status))
    BY Zenon DEF AddItem, StatusItem
  <2> DEFINE o == item.op
             status == item.status
  <2>4. o \in Ops /\ status \in Statuses \cup {"none"}
    BY <2>1
  <2> HIDE DEF o, status
  <2>5. /\ AddItem(d, StatusItem(o, status)).calls =
             (IF o \notin OpenCalls(d) THEN d.calls
              ELSE [d.calls EXCEPT ![o] = IF status \in Unfinished THEN "waiting" ELSE "done"])
        /\ d.calls \in [Calls -> CallStates]
    BY <2>4, StatusCalls, Zenon
  <2>6. AddItem(d, item).calls = AddItem(d, StatusItem(o, status)).calls
    BY <2>2, <2>3 DEF o, status
  <2> QED BY <2>5, <2>6 DEF OpenCalls
<1>3. CASE item.kind = "fork"
  <2>1. AddItem(d, item) = AddFork(d)
    BY <1>3, Zenon DEF AddItem
  <2>2. AddFork(d).calls = [x \in Calls |-> IF d.calls[x] = "none" THEN "none" ELSE "done"]
    BY ZenonT(60) DEF AddFork, DerivedState
  <2> QED BY <2>1, <2>2
<1> QED BY <1>1, <1>2, <1>3, ItemFields

LEMMA MadeStaysMadeInReplay ==
  ASSUME NEW items \in Seq(Items), NEW i \in 0 .. Len(items), NEW n \in 0 .. Len(items), i <= n,
         NEW c \in Calls, Replay(items)[i].calls[c] # "none"
  PROVE  Replay(items)[n].calls[c] # "none"
<1> DEFINE S == {m \in Nat : i + m <= Len(items) => Replay(items)[i + m].calls[c] # "none"}
<1>0. Len(items) \in Nat
  BY LenProperties
<1>1. 0 \in S
  OBVIOUS
<1>2. ASSUME NEW m \in Nat, m \in S PROVE m + 1 \in S
  <2> SUFFICES ASSUME i + (m + 1) <= Len(items)
               PROVE  Replay(items)[i + (m + 1)].calls[c] # "none"
    OBVIOUS
  <2> DEFINE k == i + (m + 1)
  <2>1. k \in 1 .. Len(items) /\ k - 1 = i + m /\ k - 1 \in 0 .. Len(items)
    BY <1>0
  <2>2. Replay(items)[k - 1].calls[c] # "none"
    BY <1>2, <2>1
  <2> HIDE DEF k
  <2>3. items[k] \in Items /\ Replay(items)[k - 1] \in DerivedState
    BY <2>1, ElementOfSeq, ReplayType
  <2>4. Replay(items)[k] = AddItem(Replay(items)[k - 1], items[k])
    BY <2>1, ReplaySteps
  <2>5. Replay(items)[k].calls[c] # "none"
    BY <2>2, <2>3, <2>4, MadeStaysMade
  <2> QED BY <2>5 DEF k
<1> HIDE DEF S
<1>3. n - i \in S
  BY <1>0, <1>1, <1>2, NatSetInduction
<1> QED BY <1>0, <1>3 DEF S

\* A log goes on with calls that were made when it goes on with a status of one.
LEMMA CallsOfAppend ==
  ASSUME NEW items \in Seq(Items), NEW item \in Items, CallsWereMade(items),
         item.kind = "status" /\ item.op \in Calls =>
           AddItem(Replay(items)[Len(items)], item).calls[item.op] # "none"
  PROVE  CallsWereMade(Append(items, item))
<1> DEFINE more == Append(items, item)
<1>1. /\ Len(items) \in Nat /\ Len(more) = Len(items) + 1 /\ DOMAIN more = 1 .. Len(items) + 1
      /\ DOMAIN items = 1 .. Len(items)
      /\ \A i \in 1 .. Len(items) : more[i] = items[i]
      /\ more[Len(items) + 1] = item
  BY AppendProperties, LenProperties
<1>2. /\ Replay(more)[Len(more)] = AddItem(Replay(items)[Len(items)], item)
      /\ \A n \in 0 .. Len(items) : Replay(more)[n] = Replay(items)[n]
  BY ReplayAppend
<1> HIDE DEF more
<1>3. CallsWereMade(more)
  <2> SUFFICES ASSUME NEW i \in DOMAIN more, more[i].kind = "status", more[i].op \in Calls
               PROVE  Replay(more)[i].calls[more[i].op] # "none"
    BY DEF CallsWereMade
  <2>1. CASE i \in 1 .. Len(items)
    BY <1>1, <1>2, <2>1 DEF CallsWereMade
  <2>2. CASE i = Len(items) + 1
    BY <1>1, <1>2, <2>2
  <2> QED BY <1>1, <2>1, <2>2
<1> QED BY <1>3 DEF more

\* What begins a log says of its calls, the whole log says.
LEMMA CallsOfPrefix ==
  ASSUME NEW items \in Seq(Items), NEW more \in Seq(Items), Len(items) <= Len(more),
         \A i \in 1 .. Len(items) : more[i] = items[i], CallsWereMade(more)
  PROVE  CallsWereMade(items)
<1>1. Len(items) \in Nat /\ Len(more) \in Nat /\ DOMAIN items = 1 .. Len(items)
      /\ DOMAIN more = 1 .. Len(more)
  BY LenProperties
<1>2. \A n \in 0 .. Len(items) : Replay(more)[n] = Replay(items)[n]
  BY ReplayOfPrefix
<1> QED BY <1>1, <1>2 DEF CallsWereMade

-----------------------------------------------------------------------------
(* The turns a log names *)

\* A response may follow that answers the turn recorded last.
LEMMA ResponsesOfAppend ==
  ASSUME NEW items \in Seq(Items), NEW item \in Items, ResponsesAnswer(items),
         item.kind = "response" =>
           \E k \in DOMAIN items :
             /\ IsTurn(items[k]) /\ items[k].turn = item.turn
             /\ \A j \in DOMAIN items : j > k => ~IsTurn(items[j]) /\ items[j].kind # "response"
  PROVE  ResponsesAnswer(Append(items, item))
<1> DEFINE more == Append(items, item)
<1>1. /\ Len(items) \in Nat /\ DOMAIN more = 1 .. Len(items) + 1
      /\ DOMAIN items = 1 .. Len(items)
      /\ \A i \in 1 .. Len(items) : more[i] = items[i]
      /\ more[Len(items) + 1] = item
  BY AppendProperties, LenProperties
<1> HIDE DEF more
<1>2. ASSUME NEW i \in DOMAIN more, more[i].kind = "response"
      PROVE  \E k \in 1 .. i - 1 :
               /\ IsTurn(more[k]) /\ more[k].turn = more[i].turn
               /\ \A j \in k + 1 .. i - 1 : ~IsTurn(more[j]) /\ more[j].kind # "response"
  <2>1. CASE i \in 1 .. Len(items)
    BY <1>1, <1>2, <2>1 DEF ResponsesAnswer
  <2>2. CASE i = Len(items) + 1
    BY <1>1, <1>2, <2>2
  <2> QED BY <1>1, <2>1, <2>2
<1> QED BY <1>2 DEF ResponsesAnswer, more

LEMMA ResponsesOfPrefix ==
  ASSUME NEW items \in Seq(Items), NEW more \in Seq(Items), Len(items) <= Len(more),
         \A i \in 1 .. Len(items) : more[i] = items[i], ResponsesAnswer(more)
  PROVE  ResponsesAnswer(items)
<1>1. Len(items) \in Nat /\ Len(more) \in Nat /\ DOMAIN items = 1 .. Len(items)
      /\ DOMAIN more = 1 .. Len(more)
  BY LenProperties
<1> QED BY <1>1 DEF ResponsesAnswer

-----------------------------------------------------------------------------
(* The stops a log names *)

\* Only an ordinary turn takes a stop away, and only a stop brings one.
LEMMA ItemStop ==
  ASSUME NEW d \in DerivedState, NEW item \in Items
  PROVE  LET e == AddItem(d, item) IN
           /\ item = InputItem("stop_hard") => e.stopped /\ e.history.stopped
           /\ ~IsOrdinary(item) /\ d.stopped => e.stopped
           /\ ~IsOrdinary(item) /\ d.history.stopped => e.history.stopped
           /\ e.stopped => d.stopped \/ item = InputItem("stop_hard")
<1>0. d.stopped \in BOOLEAN /\ d.history.stopped \in BOOLEAN
  BY Zenon DEF DerivedState
<1>1. CASE item.kind = "input"
  <2> DEFINE e == AddInput(d, item.id)
             Stopped(stopped) == stopped \/ item.id = "stop_hard"
  <2>1. e.stopped = Stopped(d.stopped) /\ e.history.stopped = Stopped(d.history.stopped)
    BY ZenonT(60) DEF AddInput, DerivedState
  <2>2. AddItem(d, item) = e
    BY <1>1, Zenon DEF AddItem
  <2> HIDE DEF e
  <2>3. item.id = "stop_hard" <=> item = InputItem("stop_hard")
    BY <1>1 DEF InputItem, Items, ForkItem
  <2>4. ~IsOrdinary(item)
    BY <1>1 DEF IsOrdinary, IsTurn
  <2> QED BY <2>1, <2>2, <2>3, <2>4, Zenon
<1>2. CASE item.kind = "turn"
  <2> DEFINE e == AddTurn(d, item.turn, item.compaction)
             Waits(waits) == StopWaits(waits, item.compaction)
  <2>1. e.stopped = Waits(d.stopped) /\ e.history.stopped = Waits(d.history.stopped)
    BY ZenonT(60) DEF AddTurn, DerivedState
  <2>2. AddItem(d, item) = e
    BY <1>2, Zenon DEF AddItem
  <2> HIDE DEF e
  <2>3. IsOrdinary(item) <=> ~item.compaction
    BY <1>2 DEF IsOrdinary, IsTurn
  <2>4. item # InputItem("stop_hard")
    BY <1>2 DEF InputItem
  <2> QED BY <2>1, <2>2, <2>3, <2>4, Zenon DEF StopWaits
<1>3. CASE item.kind = "response"
  <2>1. AddSummary(d, item.turn, item.ending = "summary").stopped = d.stopped
        /\ AddSummary(d, item.turn, item.ending = "summary").history.stopped = d.history.stopped
    <3> DEFINE compacted == item.ending = "summary"
               e == AddSummary(d, item.turn, compacted)
    <3>1. e.stopped = d.stopped /\ e.history = d.history
      BY ZenonT(60) DEF AddSummary, DerivedState
    <3> HIDE DEF e
    <3> QED BY <3>1 DEF e
  <2>2. AddAnswer(d, item.turn, item.calls).stopped = d.stopped
        /\ AddAnswer(d, item.turn, item.calls).history.stopped = d.history.stopped
    BY ZenonT(60) DEF AddAnswer, DerivedState
  <2>3. AddItem(d, item).stopped = d.stopped /\ AddItem(d, item).history.stopped = d.history.stopped
    BY <1>3, <2>1, <2>2, Zenon DEF AddItem
  <2>4. item # InputItem("stop_hard")
    BY <1>3 DEF InputItem
  <2> QED BY <2>3, <2>4
<1>4. CASE item.kind \in {"status", "fork"}
  <2>1. AddStatus(d, item.op, item.status).stopped = d.stopped
        /\ AddStatus(d, item.op, item.status).history = d.history
    BY ZenonT(60) DEF AddStatus, DerivedState
  <2>2. AddFork(d).stopped = d.stopped /\ AddFork(d).history = d.history
    BY ZenonT(60) DEF AddFork, DerivedState
  <2>3. AddItem(d, item) \in {AddStatus(d, item.op, item.status), AddFork(d)}
    BY <1>4, Zenon DEF AddItem
  <2>4. AddItem(d, item).stopped = d.stopped /\ AddItem(d, item).history = d.history
    BY <2>1, <2>2, <2>3, Zenon
  <2>5. item # InputItem("stop_hard")
    BY <1>4 DEF InputItem
  <2> QED BY <2>4, <2>5
<1> QED BY <1>1, <1>2, <1>3, <1>4, ItemFields

\* A stop that no ordinary turn followed is known from replay.
LEMMA StopIsReplayed ==
  ASSUME NEW items \in Seq(Items), NEW i \in DOMAIN items, StopPending(items, i)
  PROVE  Replay(items)[Len(items)].history.stopped
<1> DEFINE S == {m \in Nat : i + m <= Len(items) => Replay(items)[i + m].history.stopped}
<1>0. Len(items) \in Nat /\ DOMAIN items = 1 .. Len(items)
  BY LenProperties
<1>1. \A k \in 1 .. Len(items) :
        /\ items[k] \in Items /\ Replay(items)[k - 1] \in DerivedState
        /\ Replay(items)[k] = AddItem(Replay(items)[k - 1], items[k])
  <2> TAKE k \in 1 .. Len(items)
  <2>1. k - 1 \in 0 .. Len(items)
    BY <1>0
  <2> QED BY <2>1, ElementOfSeq, ReplayType, ReplaySteps
<1>2. 0 \in S
  BY <1>0, <1>1, ItemStop DEF StopPending
<1>3. ASSUME NEW m \in Nat, m \in S PROVE m + 1 \in S
  <2> SUFFICES ASSUME i + (m + 1) <= Len(items)
               PROVE  Replay(items)[i + (m + 1)].history.stopped
    OBVIOUS
  <2> DEFINE k == i + (m + 1)
  <2>1. k \in 1 .. Len(items) /\ k - 1 = i + m /\ k > i /\ k \in DOMAIN items
    BY <1>0
  <2>2. Replay(items)[k - 1].history.stopped
    BY <1>0, <1>3, <2>1
  <2> HIDE DEF k
  <2>3. ~IsOrdinary(items[k])
    BY <2>1 DEF StopPending
  <2>4. Replay(items)[k].history.stopped
    BY <1>1, <2>1, <2>2, <2>3, ItemStop
  <2> QED BY <2>4 DEF k
<1> HIDE DEF S
<1>4. Len(items) - i \in S
  BY <1>0, <1>2, <1>3, NatSetInduction
<1> QED BY <1>0, <1>4 DEF S

\* An ordinary turn may follow when every stop that waits was told.
LEMMA StopsOfAppend ==
  ASSUME NEW items \in Seq(Items), NEW item \in Items, StopsTold(items),
         IsOrdinary(item) => \A i \in DOMAIN items : StopPending(items, i) => Resumes(items, i)
  PROVE  StopsTold(Append(items, item))
<1> DEFINE more == Append(items, item)
<1>1. /\ Len(items) \in Nat /\ DOMAIN more = 1 .. Len(items) + 1
      /\ DOMAIN items = 1 .. Len(items)
      /\ \A i \in 1 .. Len(items) : more[i] = items[i]
      /\ more[Len(items) + 1] = item
  BY AppendProperties, LenProperties
<1> HIDE DEF more
<1>2. ASSUME NEW i \in DOMAIN more, NEW j \in DOMAIN more, i < j,
             more[i] = InputItem("stop_hard"), IsOrdinary(more[j]),
             \A k \in i + 1 .. j - 1 : ~IsOrdinary(more[k])
      PROVE  \E k \in i + 1 .. j - 1 : more[k] = InputItem("resume")
  <2>1. CASE j \in 1 .. Len(items)
    <3>1. i \in DOMAIN items /\ j \in DOMAIN items /\ \A k \in i .. j : more[k] = items[k]
      BY <1>1, <1>2, <2>1
    <3>2. /\ items[i] = InputItem("stop_hard") /\ IsOrdinary(items[j])
          /\ \A k \in i + 1 .. j - 1 : ~IsOrdinary(items[k])
      BY <1>1, <1>2, <2>1, <3>1
    <3>3. \E k \in i + 1 .. j - 1 : items[k] = InputItem("resume")
      BY <1>2, <3>1, <3>2 DEF StopsTold
    <3> QED BY <1>1, <3>1, <3>3
  <2>2. CASE j = Len(items) + 1
    <3>1. i \in DOMAIN items /\ StopPending(items, i) /\ IsOrdinary(item)
      BY <1>1, <1>2, <2>2 DEF StopPending
    <3>2. Resumes(items, i)
      BY <3>1
    <3> QED BY <1>1, <2>2, <3>1, <3>2 DEF Resumes
  <2> QED BY <1>1, <2>1, <2>2
<1>3. StopsTold(more)
  BY <1>2 DEF StopsTold
<1> QED BY <1>3 DEF more

LEMMA StopsOfPrefix ==
  ASSUME NEW items \in Seq(Items), NEW more \in Seq(Items), Len(items) <= Len(more),
         \A i \in 1 .. Len(items) : more[i] = items[i], StopsTold(more)
  PROVE  StopsTold(items)
<1>1. Len(items) \in Nat /\ Len(more) \in Nat /\ DOMAIN items = 1 .. Len(items)
      /\ DOMAIN more = 1 .. Len(more)
  BY LenProperties
<1> SUFFICES ASSUME NEW i \in DOMAIN items, NEW j \in DOMAIN items, i < j,
                    items[i] = InputItem("stop_hard"), IsOrdinary(items[j]),
                    \A k \in i + 1 .. j - 1 : ~IsOrdinary(items[k])
             PROVE  \E k \in i + 1 .. j - 1 : items[k] = InputItem("resume")
  BY DEF StopsTold
<1>2. i \in DOMAIN more /\ j \in DOMAIN more /\ \A k \in i .. j : more[k] = items[k]
  BY <1>1
<1>3. /\ more[i] = InputItem("stop_hard") /\ IsOrdinary(more[j])
      /\ \A k \in i + 1 .. j - 1 : ~IsOrdinary(more[k])
  BY <1>1, <1>2
<1>4. \E k \in i + 1 .. j - 1 : more[k] = InputItem("resume")
  BY <1>2, <1>3 DEF StopsTold
<1> QED BY <1>1, <1>2, <1>4

-----------------------------------------------------------------------------
(* What a fork inherits *)

\* A fork's log, of the items up to one of its parent's, is one a session
\* leaves.
LEMMA LeftToFork ==
  ASSUME NEW items \in Seq(Items), LeftBySession(items), NEW n \in 0 .. Len(items)
  PROVE  LeftBySession(Append(SubSeq(items, 1, n), ForkItem))
<1> DEFINE kept == SubSeq(items, 1, n)
<1>1. Len(items) \in Nat /\ 1 .. n \subseteq DOMAIN items
  BY LenProperties
<1>2. /\ kept \in Seq(Items) /\ Len(kept) = n
      /\ \A i \in 1 .. Len(kept) : kept[i] = items[i]
  BY <1>1, SubSeqProperties
<1> HIDE DEF kept
<1>3. CallsWereMade(kept) /\ ResponsesAnswer(kept) /\ StopsTold(kept)
  BY <1>2, CallsOfPrefix, ResponsesOfPrefix, StopsOfPrefix DEF LeftBySession
<1>4. ForkItem \in Items /\ ForkItem.kind = "fork" /\ ~IsOrdinary(ForkItem)
      /\ ~IsExternal(ForkItem) /\ ForkItem # InputItem("verification")
  BY DEF Items, ForkItem, InputItem, IsOrdinary, IsTurn, IsExternal
<1>5. EachOnce(kept) /\ ChecksBounded(kept)
  <2>1. EachOnce(kept)
    BY OnceOfPrefix DEF LeftBySession, kept
  <2>2. ChecksBounded(kept)
    BY <1>1, <1>2, BoundOfPrefix DEF LeftBySession
  <2> QED BY <2>1, <2>2
<1>6. EachOnce(Append(kept, ForkItem))
  BY <1>2, <1>4, <1>5, OnceOfAppend
<1>7. ChecksBounded(Append(kept, ForkItem))
  <2> DEFINE m == Replay(kept)[Len(kept)].history.verifications
  <2>1. m <= MaxVerifications
    BY <1>1, <1>2, <1>5, BoundIsOfReplay
  <2>2. CountedBy(ForkItem, m) = m
    BY <1>4 DEF CountedBy
  <2> QED BY <1>2, <1>4, <1>5, <2>1, <2>2, BoundOfAppend
<1>8. LeftBySession(Append(kept, ForkItem))
  BY <1>2, <1>3, <1>4, <1>6, <1>7, CallsOfAppend, ResponsesOfAppend, StopsOfAppend
     DEF LeftBySession
<1> QED BY <1>8 DEF kept

-----------------------------------------------------------------------------
(* The calls and the operations of the parent *)

LEMMA InheritedAreOps == InheritedOps \subseteq Ops
<1> SUFFICES ASSUME NEW k \in DOMAIN Inherited, Inherited[k].kind = "status"
             PROVE  Inherited[k].op \in Ops
  BY DEF InheritedOps
<1>1. Inherited[k] \in Items
  BY CoordinatorAssumption, ElementOfSeq
<1> QED BY <1>1, ItemFields

LEMMA ParentOfAppend ==
  ASSUME TypeOK, InheritsPrefix, ParentIsLeft, NEW item \in Items, log' = Append(log, item),
         \A o \in InheritedOps :
           /\ saved'[o] = "none"
           /\ o \in Calls => Derived'.calls[o] = Derived.calls[o]
           /\ item.kind = "status" => item.op # o
  PROVE  ParentIsLeft'
<1>1. /\ Len(log) \in Nat /\ Len(log') = Len(log) + 1
      /\ \A i \in 1 .. Len(log) : log'[i] = log[i]
      /\ log'[Len(log) + 1] = item
      /\ Len(Inherited) \in Nat
  BY AppendProperties, LenProperties, CoordinatorAssumption DEF TypeOK
<1> SUFFICES ASSUME NEW o \in InheritedOps
             PROVE  /\ saved'[o] = "none"
                    /\ o \in Calls => Derived'.calls[o] = "done"
                    /\ \A i \in Len(Inherited) + 1 .. Len(log') :
                         log'[i].kind = "status" => log'[i].op # o
  BY DEF ParentIsLeft, InheritedOps
<1>2. saved'[o] = "none" /\ (o \in Calls => Derived'.calls[o] = "done")
  BY DEF ParentIsLeft
<1>3. ASSUME NEW i \in Len(Inherited) + 1 .. Len(log'), log'[i].kind = "status"
      PROVE  log'[i].op # o
  <2>1. CASE i \in 1 .. Len(log)
    BY <1>1, <1>3, <2>1 DEF ParentIsLeft
  <2>2. CASE i = Len(log) + 1
    BY <1>1, <1>3, <2>2
  <2> QED BY <1>1, <2>1, <2>2
<1> QED BY <1>2, <1>3

LEMMA ParentStays ==
  ASSUME ParentIsLeft, UNCHANGED log, \A o \in InheritedOps : saved'[o] = "none"
  PROVE  ParentIsLeft'
<1>1. Derived' = Derived
  BY DEF Derived
<1> QED BY <1>1 DEF ParentIsLeft, InheritedOps

\* A status of an operation that is not the parent's, in a log that goes on
\* with calls that were made.
LEMMA StatusKeepsCalls ==
  ASSUME LInv, CallsWereMade(log), ParentIsLeft, TypeOK',
         NEW o \in Ops, NEW status \in Statuses \cup {"none"},
         o \in Calls => Derived.calls[o] \in Open,
         o \notin InheritedOps,
         log' = Append(log, StatusItem(o, status)),
         \A x \in Ops : x # o => saved'[x] = saved[x]
  PROVE  CallsWereMade(log)' /\ ParentIsLeft'
<1> DEFINE item == StatusItem(o, status)
<1>1. item \in Items /\ TypeOK /\ InheritsPrefix /\ log \in Seq(Items)
  BY ItemTypes DEF LInv, WInv, TypeOK
<1>2. item.kind = "status" /\ item.op = o
  BY DEF StatusItem
<1>3. /\ AddItem(Derived, item).calls =
            (IF o \notin OpenCalls(Derived) THEN Derived.calls
             ELSE [Derived.calls EXCEPT ![o] = IF status \in Unfinished THEN "waiting" ELSE "done"])
      /\ Derived.calls \in [Calls -> CallStates]
  <2>1. Derived \in DerivedState
    BY <1>1, LogReplay
  <2> QED BY <2>1, StatusCalls, Zenon
<1> HIDE DEF item
<1>4. log' = Append(log, item)
  BY DEF item
<1>5. Derived' = AddItem(Derived, item)
  BY <1>1, <1>4, DerivedAppend
<1>6. \A x \in Calls : x # o => Derived'.calls[x] = Derived.calls[x]
  BY <1>3, <1>5
<1>7. o \in Calls => AddItem(Derived, item).calls[o] # "none"
  BY <1>3 DEF OpenCalls
<1>8. CallsWereMade(log')
  BY <1>1, <1>2, <1>4, <1>7, CallsOfAppend DEF Derived
<1>9. ParentIsLeft'
  <2>1. \A x \in InheritedOps : saved'[x] = "none" /\ x # o
    BY InheritedAreOps DEF ParentIsLeft
  <2> QED BY <1>1, <1>2, <1>4, <1>6, <2>1, ParentOfAppend
<1> QED BY <1>8, <1>9

LEMMA StepKeepsCallsMade ==
  ASSUME LInv, CallsWereMade(log), ParentIsLeft, TypeOK', StepKinds
  PROVE  CallsWereMade(log)' /\ ParentIsLeft'
<1>0. TypeOK /\ InheritsPrefix /\ log \in Seq(Items) /\ InheritedOps \subseteq Ops
  BY InheritedAreOps DEF LInv, WInv, TypeOK
<1>1. CASE \E item \in Items : MessageStep(item)
  <2> PICK item \in Items : MessageStep(item)
    BY <1>1
  <2>1. /\ item.kind \in {"input", "turn", "response"} /\ log' = Append(log, item)
        /\ pc \in Loop /\ saved' = saved
        /\ item.kind = "response" => \A c \in item.calls : h.calls[c] = "none"
    BY DEF MessageStep
  <2>2. Derived' = AddItem(Derived, item) /\ Derived \in DerivedState /\ Derived.calls = h.calls
    BY <1>0, <2>1, DerivedAppend, LoopCalls DEF LInv
  <2>3. CallsWereMade(log')
    BY <1>0, <2>1, CallsOfAppend
  <2>4. \A c \in Calls : Derived.calls[c] = "done" => Derived'.calls[c] = "done"
    BY <2>1, <2>2, MessageCalls
  <2>5. \A o \in InheritedOps : saved'[o] = "none" /\ item.kind # "status"
    BY <2>1 DEF ParentIsLeft
  <2>6. \A o \in InheritedOps : o \in Calls => Derived'.calls[o] = Derived.calls[o]
    BY <2>4 DEF ParentIsLeft
  <2> QED BY <1>0, <2>1, <2>3, <2>5, <2>6, ParentOfAppend
<1>2. CASE ScheduleToolCall
  <2> PICK c \in Calls, status \in {"ready", "none"} :
        /\ h.calls[c] = "asked" /\ Record(StatusItem(c, status)) /\ Store(c, status)
    BY <1>2, Zenon DEF ScheduleToolCall
  <2>1. pc \in Loop
    BY <1>2 DEF ScheduleToolCall, At, Loop, Labels, Down
  <2>2. Derived.calls[c] = "asked"
    BY <2>1, LoopCalls DEF LInv
  <2>3. c \in Ops /\ status \in Statuses \cup {"none"} /\ c \notin InheritedOps
    BY <2>2 DEF Ops, Statuses, Unfinished, ParentIsLeft
  <2>4. \A x \in Ops : x # c => saved'[x] = saved[x]
    BY <1>0, StoredTypes DEF Store
  <2> QED BY <2>2, <2>3, <2>4, StatusKeepsCalls DEF Record, Open
<1>3. CASE ReconcileToolCall
  <2> PICK c \in FinishedCalls : Record(StatusItem(c, h.ops[c]))
    BY <1>3, Zenon DEF ReconcileToolCall
  <2>1. pc \in Loop /\ saved' = saved
    BY <1>3 DEF ReconcileToolCall, At, Loop, Labels, Down
  <2>2. c \in Calls /\ Derived.calls[c] \in Open /\ h.ops[c] \in Terminal
    BY <2>1, LoopCalls DEF LInv, FinishedCalls
  <2>3. c \in Ops /\ h.ops[c] \in Statuses \cup {"none"} /\ c \notin InheritedOps
    BY <2>2 DEF Ops, Statuses, ParentIsLeft, Open
  <2> QED BY <2>1, <2>2, <2>3, StatusKeepsCalls DEF Record
<1>4. CASE Verify
  <2> PICK k \in UnusedChecks : log' = Append(log, StatusItem(k, "ready")) /\ Store(k, "ready")
    BY <1>4, Zenon DEF Verify
  <2>1. k \in Ops /\ k \notin Calls
    BY UnusedAreNew
  <2>2. k \notin InheritedOps
    <3> SUFFICES ASSUME NEW i \in DOMAIN Inherited, Inherited[i].kind = "status"
                 PROVE  Inherited[i].op # k
      BY DEF InheritedOps
    <3>1. i \in DOMAIN log /\ log[i] = Inherited[i]
      BY <1>0, CoordinatorAssumption, LenProperties DEF InheritsPrefix
    <3> QED BY <3>1 DEF UnusedChecks
  <2>3. \A x \in Ops : x # k => saved'[x] = saved[x]
    BY <1>0, StoredTypes DEF Store
  <2>4. "ready" \in Statuses \cup {"none"}
    BY DEF Statuses, Unfinished
  <2> QED BY <2>1, <2>2, <2>3, <2>4, StatusKeepsCalls
<1>5. CASE TakeUpdate
  <2> DEFINE u == Head(updates)
  <2>1. /\ updates # <<>> /\ u \in [op : Ops, status : Statuses]
        /\ saved' = [saved EXCEPT ![u.op] = u.status] /\ UNCHANGED log
    BY <1>0, <1>5, UpdateSteps
  <2>2. 1 \in DOMAIN updates /\ u = updates[1]
    BY <1>0, <2>1, LenProperties, EmptySeq DEF TypeOK
  <2>3. saved[u.op] \in Unfinished
    BY <2>2 DEF LInv, UpdatesEndOnce
  <2> HIDE DEF u
  <2>4. u.op \notin InheritedOps
    BY <2>3 DEF ParentIsLeft, Unfinished
  <2>5. \A o \in InheritedOps : saved'[o] = "none"
    BY <1>0, <2>1, <2>4, StoredTypes DEF ParentIsLeft
  <2> QED BY <2>1, <2>5, ParentStays
<1>6. CASE \/ QuietStep \/ DispatchStep \/ OperationAwaits \/ \E o \in Ops : OperationEnds(o)
           \/ SaveCheckpoint \/ Start \/ ReplayItem \/ Restore \/ EndStep \/ Still
  <2>1. UNCHANGED <<log, saved>>
    BY <1>6 DEF QuietStep, DispatchStep, OperationAwaits, OperationEnds, SaveCheckpoint, Start,
                ReplayItem, Restore, EndStep, Still, Exit, durable
  <2>2. \A o \in InheritedOps : saved'[o] = "none"
    BY <2>1 DEF ParentIsLeft
  <2> QED BY <2>1, <2>2, ParentStays
<1> QED BY <1>1, <1>2, <1>3, <1>4, <1>5, <1>6, Zenon DEF StepKinds

\* A session begins with a log that a session left.
LEMMA InitKeepsParent ==
  ASSUME Init
  PROVE  CallsWereMade(log) /\ ParentIsLeft
<1>1. log = Inherited /\ log \in Seq(Items) /\ Len(log) \in Nat /\ DOMAIN log = 1 .. Len(log)
  BY CoordinatorAssumption, LenProperties DEF Init
<1>2. CallsWereMade(log)
  BY <1>1, InheritedAssumption DEF LeftBySession
<1>3. ParentIsLeft
  <2> SUFFICES ASSUME NEW o \in InheritedOps
               PROVE  /\ saved[o] = "none"
                      /\ o \in Calls => Derived.calls[o] = "done"
    BY <1>1 DEF ParentIsLeft
  <2>1. saved[o] = "none"
    BY InheritedAreOps DEF Init
  <2>2. ASSUME o \in Calls PROVE Derived.calls[o] = "done"
    <3> PICK i \in DOMAIN log : log[i].kind = "status" /\ log[i].op = o
      BY <1>1 DEF InheritedOps
    <3>1. Replay(log)[i].calls[o] # "none"
      BY <1>2, <2>2 DEF CallsWereMade
    <3>2. i \in 0 .. Len(log) /\ Len(log) \in 0 .. Len(log) /\ i <= Len(log)
      BY <1>1
    <3>3. Derived.calls[o] # "none"
      BY <1>1, <2>2, <3>1, <3>2, MadeStaysMadeInReplay DEF Derived
    <3> QED BY <2>2, <3>3, InitialCalls
  <2> QED BY <2>1, <2>2
<1> QED BY <1>2, <1>3

-----------------------------------------------------------------------------
(* The kinds of steps of a conversation *)

\* A turn is recorded; an ordinary one once all was told that it begins with.
AskStep(compaction) ==
  /\ pc \in Loop /\ pc' \in Loop \ {"begin"}
  /\ IF compaction THEN pc # "begin" ELSE pc = "begin" /\ todo = <<>>
  /\ log' = Append(log, TurnItem(h.turn + 1, compaction))
  /\ h' = AddItem(h, TurnItem(h.turn + 1, compaction))

\* The response to the turn that is awaited is recorded.
AnswerStep(item) ==
  /\ pc \in Loop \ {"begin"} /\ pc' \in Loop \ {"begin"}
  /\ r.live /\ ~r'.live
  /\ item.kind = "response" /\ item.turn = h.turn
  /\ log' = Append(log, item) /\ h' = AddItem(h, item)

\* The conversation does not change; a status may be recorded.
SilentStep ==
  /\ pc \in Loop /\ pc' \in Loop
  /\ \/ UNCHANGED log
     \/ \E o \in Ops, status \in Statuses \cup {"none"} : log' = Append(log, StatusItem(o, status))
  /\ h'.turn = h.turn /\ h'.stopped = h.stopped /\ (r'.live => r.live)
  /\ (pc # "begin" /\ pc' # "begin") \/ UNCHANGED <<pc, todo>>

\* No loop runs after the step.
AwayStep == pc' \notin Loop /\ UNCHANGED log

ConversationKinds ==
  \/ \E compaction \in BOOLEAN : AskStep(compaction)
  \/ \E item \in Items : AnswerStep(item)
  \/ RecordInput \/ TellFirst \/ Restore
  \/ SilentStep \/ AwayStep

LEMMA AskSteps ==
  ASSUME TypeOK, AnswerOverflows \/ BeginCompaction \/ BeginTurn
  PROVE  \E compaction \in BOOLEAN : AskStep(compaction)
<1>1. CASE AnswerOverflows \/ BeginCompaction
  <2>1. AskStep(TRUE)
    BY <1>1 DEF AnswerOverflows, BeginCompaction, Record, AskStep, At, Loop, Labels, Down
  <2> QED BY <2>1
<1>2. CASE BeginTurn
  <2>1. AskStep(FALSE)
    BY <1>2 DEF BeginTurn, Record, AskStep, At, Loop, Labels, Down
  <2> QED BY <2>1
<1> QED BY <1>1, <1>2

LEMMA AnswerSteps ==
  ASSUME TypeOK, AnswerArrives \/ SummaryArrives
  PROVE  \E item \in Items : AnswerStep(item)
<1>0. r \in RunState
  BY DEF TypeOK
<1>1. CASE AnswerArrives
  <2> PICK n \in flying, calls \in SUBSET {c \in Calls : h.calls[c] = "none"},
           ending \in {"whole", "empty", "cut", "refused", "failed"} :
             /\ ~Stale(n) /\ Record(ResponseItem(n, calls, ending))
             /\ r' = [r EXCEPT !.live = FALSE, !.quotaWaits = 0, !.ending = ending,
                               !.statuses = {}, !.due = FALSE]
    BY <1>1, Zenon DEF AnswerArrives
  <2>1. n \in Nat /\ calls \in SUBSET Calls /\ ending \in Endings
    BY DEF TypeOK, Endings
  <2>2. ~r'.live
    BY <1>0, ZenonT(60) DEF RunState
  <2>3. AnswerStep(ResponseItem(n, calls, ending))
    BY <1>1, <2>2 DEF AnswerArrives, Stale, Record, AnswerStep, ResponseItem, At, Loop, Labels, Down
  <2> QED BY <2>1, <2>3, ItemTypes
<1>2. CASE SummaryArrives
  <2> PICK n \in flying, ending \in {"summary", "nosummary"} :
             ~Stale(n) /\ Record(ResponseItem(n, {}, ending))
    BY <1>2, Zenon DEF SummaryArrives
  <2>1. n \in Nat /\ {} \in SUBSET Calls /\ ending \in Endings
    BY DEF TypeOK, Endings
  <2>2. r' = [r EXCEPT !.live = FALSE, !.quotaWaits = 0]
    BY <1>2, Zenon DEF SummaryArrives
  <2>3. ~r'.live
    BY <1>0, <2>2, ZenonT(60) DEF RunState
  <2>4. pc = "select" /\ pc' \in {"checkpoint", "inputs"}
    BY <1>2 DEF SummaryArrives, At
  <2>5. AnswerStep(ResponseItem(n, {}, ending))
    BY <2>3, <2>4 DEF Stale, Record, AnswerStep, ResponseItem, Loop, Labels, Down
  <2> QED BY <2>1, <2>5, ItemTypes
<1> QED BY <1>1, <1>2

LEMMA StatusTurn ==
  ASSUME NEW d \in DerivedState, NEW o, NEW status
  PROVE  LET e == AddItem(d, StatusItem(o, status)) IN
           e.turn = d.turn /\ e.stopped = d.stopped
<1> DEFINE item == StatusItem(o, status)
<1>1. item.kind = "status" /\ item.op = o /\ item.status = status
  BY DEF StatusItem
<1> HIDE DEF item
<1>2. AddItem(d, item) = AddStatus(d, o, status)
  BY <1>1, Zenon DEF AddItem
<1>3. AddStatus(d, o, status).turn = d.turn /\ AddStatus(d, o, status).stopped = d.stopped
  BY ZenonT(60) DEF AddStatus, DerivedState
<1> QED BY <1>2, <1>3, Zenon DEF item

LEMMA StatusSteps ==
  ASSUME TypeOK, ScheduleToolCall \/ ReconcileToolCall \/ Verify
  PROVE  SilentStep
<1>0. h \in DerivedState
  BY DEF TypeOK
<1>1. r'.live => r.live
  BY OtherRunGoesOn DEF RunGoesOn
<1>2. pc \in Loop \ {"begin"} /\ pc' \in Loop \ {"begin"}
  BY DEF ScheduleToolCall, ReconcileToolCall, Verify, At, Loop, Labels, Down
<1>3. ASSUME NEW o \in Ops, NEW status \in Statuses \cup {"none"},
             log' = Append(log, StatusItem(o, status)),
             h'.turn = AddItem(h, StatusItem(o, status)).turn,
             h'.stopped = AddItem(h, StatusItem(o, status)).stopped
      PROVE  SilentStep
  <2>1. h'.turn = h.turn /\ h'.stopped = h.stopped
    BY <1>0, <1>3, StatusTurn
  <2> QED BY <1>1, <1>2, <1>3, <2>1 DEF SilentStep
<1>4. CASE ScheduleToolCall
  <2> PICK c \in Calls, status \in {"ready", "none"} : Record(StatusItem(c, status))
    BY <1>4, Zenon DEF ScheduleToolCall
  <2>1. c \in Ops /\ status \in Statuses \cup {"none"}
    BY DEF Ops, Statuses, Unfinished
  <2> QED BY <1>3, <2>1 DEF Record
<1>5. CASE ReconcileToolCall
  <2> PICK c \in FinishedCalls : Record(StatusItem(c, h.ops[c]))
    BY <1>5, Zenon DEF ReconcileToolCall
  <2>1. c \in Ops /\ h.ops[c] \in Statuses \cup {"none"}
    BY DEF FinishedCalls, Ops, Statuses
  <2> QED BY <1>3, <2>1 DEF Record
<1>6. CASE Verify
  <2> PICK k \in UnusedChecks :
        /\ log' = Append(log, StatusItem(k, "ready"))
        /\ h' = [AddItem(h, StatusItem(k, "ready")) EXCEPT !.work = FALSE]
    BY <1>6, Zenon DEF Verify
  <2>1. k \in Ops /\ "ready" \in Statuses \cup {"none"} /\ StatusItem(k, "ready") \in Items
    BY ItemTypes DEF UnusedChecks, Ops, Statuses, Unfinished
  <2> DEFINE e == AddItem(h, StatusItem(k, "ready"))
  <2>2. e \in DerivedState
    BY <1>0, <2>1, AddItemType
  <2>3. h' = [e EXCEPT !.work = FALSE]
    OBVIOUS
  <2> HIDE DEF e
  <2>4. h'.turn = e.turn /\ h'.stopped = e.stopped
    BY <2>2, <2>3, ZenonT(60) DEF DerivedState
  <2> QED BY <1>3, <2>1, <2>4 DEF e
<1> QED BY <1>4, <1>5, <1>6

LEMMA SilentSteps ==
  ASSUME TypeOK,
         \/ ScheduledAll \/ ReconciledAll \/ InputsSlurped \/ UpdatesSlurped \/ TakeInput
         \/ Timers \/ DropResult \/ QuotaRefuses \/ SummaryOverflows
         \/ CountTurn \/ AnswerStands \/ AnswerCut \/ AnswerRefused \/ AnswerWhole
         \/ ProcessDue \/ Decide \/ DropCompaction
  PROVE  SilentStep
<1>1. pc \in Loop /\ pc' \in Loop /\ UNCHANGED log
  BY QuietSteps DEF QuietStep, durable
<1>2. r'.live => r.live
  BY LoopRunGoesOn DEF RunGoesOn
<1>3. pc # "begin" /\ pc' # "begin" /\ UNCHANGED h
  BY DEF At, ScheduledAll, ReconciledAll, InputsSlurped, UpdatesSlurped, TakeInput,
         Timers, DeadlinePasses, ReportDue, QuotaLifts, GraceEnds, ToolWaitEnds, PostHeartbeat,
         DropResult, QuotaRefuses, SummaryOverflows, CountTurn, AnswerStands, AnswerCut,
         AnswerRefused, AnswerWhole, Recovers, ProcessDue, Decide, DropCompaction
<1> QED BY <1>1, <1>2, <1>3 DEF SilentStep

LEMMA ManagingSteps ==
  ASSUME TypeOK,
         StartLoop \/ DispatchCalls \/ CancelOperations \/ SaveCheckpoint \/ TakeUpdate
  PROVE  SilentStep
<1>0. r \in RunState /\ h \in DerivedState
  BY DEF TypeOK
<1>1. pc \in Loop \ {"begin"} /\ pc' \in Loop \ {"begin"} /\ UNCHANGED log
  BY DEF StartLoop, DispatchCalls, CancelOperations, SaveCheckpoint, TakeUpdate, durable,
         At, Loop, Labels, Down
<1>2. r'.live => r.live
  <2>1. CASE StartLoop
    <3> DEFINE call == r.due \/ Pending(h) > 0
    <3>1. r' = [r EXCEPT !.started = TRUE, !.due = FALSE, !.statuses = {}, !.ordinary = call]
      BY <2>1, Zenon DEF StartLoop
    <3> HIDE DEF call
    <3> QED BY <1>0, <3>1, ZenonT(60) DEF RunState
  <2>2. CASE CancelOperations
    <3>1. r' = [r EXCEPT !.live = FALSE, !.cancelled = TRUE, !.due = FALSE]
      BY <2>2, Zenon DEF CancelOperations
    <3> QED BY <1>0, <3>1, ZenonT(60) DEF RunState
  <2> QED BY <2>1, <2>2, OtherRunGoesOn DEF RunGoesOn
<1>3. h'.turn = h.turn /\ h'.stopped = h.stopped
  <2>1. CASE TakeUpdate
    <3> DEFINE u == Head(updates)
               verified == Verifies /\ u.op = r.verifying /\ u.status \in Terminal
               v == IF verified THEN h.verifications + 1 ELSE h.verifications
    <3>1. h' = [h EXCEPT !.ops[u.op] = u.status, !.verifications = v]
      BY <2>1, Zenon DEF TakeUpdate
    <3> HIDE DEF u, v
    <3> QED BY <1>0, <3>1, ZenonT(60) DEF DerivedState
  <2>2. CASE StartLoop \/ DispatchCalls \/ CancelOperations \/ SaveCheckpoint
    BY <2>2 DEF StartLoop, DispatchCalls, CancelOperations, SaveCheckpoint
  <2> QED BY <2>1, <2>2
<1> QED BY <1>1, <1>2, <1>3 DEF SilentStep

LEMMA LeavingSteps ==
  ASSUME TypeOK,
         \/ Crash \/ RequestFails \/ AnswerFailed \/ AwaitCancellation \/ StopWhenIdle
         \/ Start \/ ReplayItem
         \/ Submit \/ OperationAwaits \/ (\E o \in Ops : OperationEnds(o)) \/ UNCHANGED vars
  PROVE  SilentStep \/ AwayStep
<1>0. r \in RunState
  BY DEF TypeOK
<1>1. ASSUME NEW how \in Down, Exit(how) PROVE AwayStep
  BY <1>1 DEF Exit, AwayStep, Loop, durable
<1>2. CASE Crash \/ RequestFails
  BY <1>1, <1>2 DEF Crash, RequestFails, Down
<1>3. CASE AnswerFailed
  <2>1. CASE Exit("failed")
    BY <1>1, <2>1 DEF Down
  <2>2. CASE ~Exit("failed")
    <3>1. /\ r' = [r EXCEPT !.step = StepCalls, !.failures = @ + 1, !.callModel = TRUE]
          /\ pc = "answer" /\ pc' = "dispatch" /\ UNCHANGED <<log, h>>
      BY <1>3, <2>2 DEF AnswerFailed, Recovers, At, durable
    <3>2. r'.live => r.live
      BY <1>0, <3>1, ZenonT(60) DEF RunState
    <3> QED BY <3>1, <3>2 DEF SilentStep, Loop, Labels, Down
  <2> QED BY <2>1, <2>2
<1>4. CASE AwaitCancellation \/ StopWhenIdle
  <2>1. CASE Exit("stopped") \/ Exit("idle")
    BY <1>1, <2>1 DEF Down
  <2>2. CASE ~Exit("stopped") /\ ~Exit("idle")
    <3>1. pc \in {"decide", "idlecheck"} /\ pc' = "select" /\ UNCHANGED <<log, h, r>>
      BY <1>4, <2>2 DEF AwaitCancellation, StopWhenIdle, At, durable
    <3> QED BY <3>1 DEF SilentStep, Loop, Labels, Down
  <2> QED BY <2>1, <2>2
<1>5. CASE Start \/ ReplayItem
  BY <1>5 DEF Start, ReplayItem, AwayStep, Loop, Labels, Down, durable
<1>6. CASE Submit \/ OperationAwaits \/ (\E o \in Ops : OperationEnds(o)) \/ UNCHANGED vars
  <2>1. UNCHANGED <<log, pc, h, r, todo>>
    BY <1>6 DEF Submit, OperationAwaits, OperationEnds, vars, durable
  <2> QED BY <2>1 DEF SilentStep, AwayStep
<1> QED BY <1>2, <1>3, <1>4, <1>5, <1>6

LEMMA StepsConverse ==
  ASSUME TypeOK, [Next]_vars
  PROVE  ConversationKinds
<1> USE DEF ConversationKinds
<1>1. CASE Working
  BY <1>1, AskSteps, StatusSteps, SilentSteps, ManagingSteps, LeavingSteps, ZenonT(60) DEF Working
<1>2. CASE ModelResults
  BY <1>2, AskSteps, AnswerSteps, SilentSteps, LeavingSteps, ZenonT(60) DEF ModelResults
<1>3. CASE Start \/ Crash \/ Submit \/ OperationAwaits \/ (\E o \in Ops : OperationEnds(o))
           \/ UNCHANGED vars
  BY <1>3, LeavingSteps
<1>4. CASE TakeInput \/ TakeUpdate \/ Timers
  BY <1>4, SilentSteps, ManagingSteps
<1> QED BY <1>1, <1>2, <1>3, <1>4 DEF Next

-----------------------------------------------------------------------------
(* Turns and their responses *)

\* What is awaited stays awaited while no turn and no response is recorded.
LEMMA AwaitedStays ==
  ASSUME TypeOK, AnswerAwaited, pc \in Loop, h'.turn = h.turn, r'.live => r.live,
         \/ UNCHANGED log
         \/ \E item \in Items : item.kind \in {"input", "status"} /\ log' = Append(log, item)
  PROVE  AnswerAwaited'
<1> SUFFICES ASSUME r.live PROVE \E k \in DOMAIN log' : Awaited(log', h'.turn, k)
  BY DEF AnswerAwaited
<1>1. PICK k \in DOMAIN log : Awaited(log, h.turn, k)
  BY DEF AnswerAwaited
<1>2. CASE UNCHANGED log
  BY <1>1, <1>2 DEF Awaited
<1>3. CASE \E item \in Items : item.kind \in {"input", "status"} /\ log' = Append(log, item)
  <2>0. PICK item \in Items : item.kind \in {"input", "status"} /\ log' = Append(log, item)
    BY <1>3
  <2>1. /\ Len(log) \in Nat /\ DOMAIN log = 1 .. Len(log) /\ DOMAIN log' = 1 .. Len(log) + 1
        /\ \A i \in 1 .. Len(log) : log'[i] = log[i]
        /\ log'[Len(log) + 1] = item
    BY <2>0, AppendProperties, LenProperties DEF TypeOK
  <2>2. ~IsTurn(item) /\ item.kind # "response"
    BY <2>0 DEF IsTurn
  <2>3. k \in DOMAIN log' /\ log'[k] = log[k]
    BY <2>1
  <2>4. \A j \in DOMAIN log' : log'[j] = item \/ (j \in DOMAIN log /\ log'[j] = log[j])
    BY <2>1
  <2>5. \A j \in DOMAIN log' : j > k => ~IsTurn(log'[j]) /\ log'[j].kind # "response"
    BY <1>1, <2>2, <2>4, Zenon DEF Awaited
  <2> QED BY <1>1, <2>3, <2>5, Zenon DEF Awaited
<1> QED BY <1>2, <1>3

LEMMA TurnItems ==
  ASSUME NEW d \in DerivedState, NEW compaction \in BOOLEAN
  PROVE  LET item == TurnItem(d.turn + 1, compaction) IN
           /\ item \in Items /\ item.kind = "turn" /\ item.turn = d.turn + 1
           /\ IsTurn(item) /\ (IsOrdinary(item) <=> ~compaction)
           /\ AddItem(d, item).turn = d.turn + 1
<1> DEFINE n == d.turn + 1
           item == TurnItem(n, compaction)
<1>1. n \in Nat
  <2>1. d.turn \in Nat
    BY Zenon DEF DerivedState
  <2> QED BY <2>1
<1> HIDE DEF n
<1>2. item \in Items /\ item.kind = "turn" /\ item.turn = n /\ item.compaction = compaction
  BY <1>1, ItemTypes DEF TurnItem
<1> HIDE DEF item
<1>3. AddItem(d, item) = AddTurn(d, n, compaction)
  BY <1>2, Zenon DEF AddItem
<1>4. AddTurn(d, n, compaction).turn = n
  BY ZenonT(60) DEF AddTurn, DerivedState
<1> QED BY <1>2, <1>3, <1>4 DEF IsTurn, IsOrdinary, n, item

LEMMA InputTurn ==
  ASSUME NEW d \in DerivedState, NEW id
  PROVE  AddItem(d, InputItem(id)).turn = d.turn
<1>1. AddItem(d, InputItem(id)) = AddInput(d, id)
  BY Zenon DEF AddItem, InputItem
<1>2. AddInput(d, id).turn = d.turn
  BY ZenonT(60) DEF AddInput, DerivedState
<1> QED BY <1>1, <1>2

LEMMA StepKeepsTurns ==
  ASSUME RInv, ResponsesAnswer(log), AnswerAwaited, TypeOK', ConversationKinds
  PROVE  ResponsesAnswer(log)' /\ AnswerAwaited'
<1>0. /\ TypeOK /\ Fresh /\ log \in Seq(Items) /\ h \in DerivedState
      /\ Len(log) \in Nat /\ DOMAIN log = 1 .. Len(log)
  BY LenProperties DEF RInv, TypeOK
<1>1. ASSUME UNCHANGED log PROVE ResponsesAnswer(log)'
  BY <1>1
<1>2. ASSUME NEW item \in Items, item.kind # "response", log' = Append(log, item)
      PROVE  ResponsesAnswer(log)'
  BY <1>0, <1>2, ResponsesOfAppend
<1>3. CASE \E compaction \in BOOLEAN : AskStep(compaction)
  <2> PICK compaction \in BOOLEAN : AskStep(compaction)
    BY <1>3
  <2> DEFINE item == TurnItem(h.turn + 1, compaction)
  <2>1. /\ item \in Items /\ item.kind = "turn" /\ item.turn = h.turn + 1 /\ IsTurn(item)
        /\ AddItem(h, item).turn = h.turn + 1
    BY <1>0, TurnItems
  <2>2. log' = Append(log, item) /\ h' = AddItem(h, item)
    BY DEF AskStep
  <2> HIDE DEF item
  <2>3. DOMAIN log' = 1 .. Len(log) + 1 /\ log'[Len(log) + 1] = item
    BY <1>0, <2>2, <2>1, AppendProperties, LenProperties
  <2> DEFINE k == Len(log) + 1
  <2>4. k \in DOMAIN log' /\ log'[k] = item /\ \A j \in DOMAIN log' : ~(j > k)
    BY <1>0, <2>3
  <2> HIDE DEF k
  <2>5. Awaited(log', h'.turn, k)
    BY <2>1, <2>2, <2>4 DEF Awaited
  <2>6. ResponsesAnswer(log)'
    BY <1>2, <2>1, <2>2
  <2> QED BY <2>4, <2>5, <2>6 DEF AnswerAwaited
<1>4. CASE \E item \in Items : AnswerStep(item)
  <2> PICK item \in Items : AnswerStep(item)
    BY <1>4
  <2>1. /\ log' = Append(log, item) /\ item.turn = h.turn /\ pc \in Loop /\ r.live /\ ~r'.live
    BY DEF AnswerStep
  <2>2. PICK k \in DOMAIN log : Awaited(log, h.turn, k)
    BY <2>1 DEF AnswerAwaited
  <2>3. ResponsesAnswer(Append(log, item))
    BY <1>0, <2>1, <2>2, ResponsesOfAppend DEF Awaited
  <2> QED BY <2>1, <2>3 DEF AnswerAwaited
<1>5. CASE RecordInput
  <2>1. r'.live => r.live
    BY <1>0, <1>5, OtherRunGoesOn DEF RunGoesOn
  <2>2. /\ pc \in Loop /\ InputItem(Head(todo)) \in Items /\ InputItem(Head(todo)).kind = "input"
        /\ log' = Append(log, InputItem(Head(todo)))
        /\ h'.turn = h.turn
    BY <1>0, <1>5, InputSteps, InputTurn
  <2> QED BY <1>0, <1>2, <2>1, <2>2, AwaitedStays
<1>6. CASE TellFirst
  <2>1. pc \in Loop /\ Agrees(h', h) /\ UNCHANGED log
    BY <1>0, <1>6, QuietSteps DEF QuietStep, durable
  <2>2. r'.live => r.live
    BY <1>0, <1>6, LoopRunGoesOn DEF RunGoesOn
  <2> QED BY <1>0, <1>1, <2>1, <2>2, AwaitedStays DEF Agrees
<1>7. CASE Restore
  <2>1. r = NewRun /\ UNCHANGED log
    BY <1>0, <1>7 DEF Restore, Fresh, durable
  <2>2. ~r'.live
    BY <1>0, <1>7, <2>1, OtherRunGoesOn DEF RunGoesOn, NewRun
  <2> QED BY <1>1, <2>1, <2>2 DEF AnswerAwaited
<1>8. CASE SilentStep
  <2>1. CASE UNCHANGED log
    BY <1>0, <1>1, <1>8, <2>1, AwaitedStays DEF SilentStep
  <2>2. CASE \E o \in Ops, status \in Statuses \cup {"none"} : log' = Append(log, StatusItem(o, status))
    <3> PICK o \in Ops, status \in Statuses \cup {"none"} : log' = Append(log, StatusItem(o, status))
      BY <2>2
    <3>1. StatusItem(o, status) \in Items /\ StatusItem(o, status).kind = "status"
      BY ItemTypes DEF StatusItem
    <3> QED BY <1>0, <1>2, <1>8, <3>1, AwaitedStays DEF SilentStep
  <2> QED BY <1>8, <2>1, <2>2 DEF SilentStep
<1>9. CASE AwayStep
  BY <1>1, <1>9 DEF AwayStep, AnswerAwaited
<1> QED BY <1>3, <1>4, <1>5, <1>6, <1>7, <1>8, <1>9, Zenon DEF ConversationKinds

-----------------------------------------------------------------------------
(* Stops and turns *)

LEMMA StopsAfterAppend ==
  ASSUME NEW items \in Seq(Items), NEW item \in Items, NEW i \in DOMAIN Append(items, item)
  PROVE  /\ StopPending(Append(items, item), i) =>
              \/ item = InputItem("stop_hard")
              \/ i \in DOMAIN items /\ StopPending(items, i) /\ ~IsOrdinary(item)
         /\ i \in DOMAIN items /\ (Resumes(items, i) \/ item = InputItem("resume")) =>
              Resumes(Append(items, item), i)
<1> DEFINE more == Append(items, item)
<1>1. /\ Len(items) \in Nat /\ DOMAIN more = 1 .. Len(items) + 1
      /\ DOMAIN items = 1 .. Len(items)
      /\ \A j \in 1 .. Len(items) : more[j] = items[j]
      /\ more[Len(items) + 1] = item
  BY AppendProperties, LenProperties
<1>2. i \in DOMAIN more
  OBVIOUS
<1> HIDE DEF more
<1>3. ASSUME StopPending(more, i), item # InputItem("stop_hard")
      PROVE  i \in DOMAIN items /\ StopPending(items, i) /\ ~IsOrdinary(item)
  <2>1. i # Len(items) + 1
    BY <1>1, <1>3 DEF StopPending
  <2>2. i \in DOMAIN items /\ Len(items) + 1 > i /\ Len(items) + 1 \in DOMAIN more
    BY <1>1, <1>2, <2>1
  <2>3. ~IsOrdinary(item)
    BY <1>1, <1>3, <2>2 DEF StopPending
  <2> QED BY <1>1, <1>3, <2>2, <2>3 DEF StopPending
<1>4. ASSUME i \in DOMAIN items, Resumes(items, i) \/ item = InputItem("resume")
      PROVE  Resumes(more, i)
  <2>1. CASE Resumes(items, i)
    BY <1>1, <2>1 DEF Resumes
  <2>2. CASE item = InputItem("resume")
    <3>1. Len(items) + 1 > i /\ Len(items) + 1 \in DOMAIN more
      BY <1>1, <1>4
    <3> QED BY <1>1, <2>2, <3>1 DEF Resumes
  <2> QED BY <1>4, <2>1, <2>2
<1> QED BY <1>3, <1>4 DEF more

\* A step that records an item, no ordinary turn, and does not begin a turn.
LEMMA StopStaysKnown ==
  ASSUME TypeOK, StopIsKnown, pc \in Loop,
         NEW item \in Items, ~IsOrdinary(item), log' = Append(log, item),
         h.stopped \/ item = InputItem("stop_hard") => h'.stopped,
         \/ pc # "begin"
         \/ item = InputItem("resume") \/ todo = <<>> \/ Head(todo) # "resume"
         \/ UNCHANGED <<pc, todo>>
  PROVE  StopIsKnown'
<1> SUFFICES ASSUME NEW i \in DOMAIN log', StopPending(log', i), ~h'.stopped
             PROVE  \/ Resumes(log', i)
                    \/ pc' = "begin" /\ todo' # <<>> /\ Head(todo') = "resume"
  BY Zenon DEF StopIsKnown
<1>1. log \in Seq(Items)
  BY DEF TypeOK
<1>2. i \in DOMAIN log /\ StopPending(log, i)
  BY <1>1, StopsAfterAppend
<1>3. Resumes(log, i) \/ (pc = "begin" /\ todo # <<>> /\ Head(todo) = "resume")
  BY <1>2 DEF StopIsKnown
<1>4. Resumes(log, i) \/ item = InputItem("resume") => Resumes(log', i)
  BY <1>1, <1>2, StopsAfterAppend
<1> QED BY <1>3, <1>4

\* What a turn begins with: the stop of an earlier run, when there was one.
LEMMA TellSteps ==
  ASSUME TypeOK, TellFirst
  PROVE  /\ pc = "turn" /\ pc' = "begin" /\ UNCHANGED log
         /\ ~h'.stopped /\ todo' \in Seq(Told)
         /\ h.stopped => todo' # <<>> /\ Head(todo') = "resume"
<1> DEFINE stop == IF h.stopped THEN <<"resume">> ELSE <<>>
           notes == IF NotesChange /\ ~r.notesChecked THEN <<"note">> ELSE <<>>
<1>1. PICK reminder \in {<<>>, <<"reminder">>} : todo' = stop \o notes \o reminder
  <2> DEFINE near == IF Reminds /\ ~h.reminded /\ AutoCompactionAllowed
                     THEN {<<>>, <<"reminder">>} ELSE {<<>>}
  <2>1. \E reminder \in near : todo' = stop \o notes \o reminder
    BY Zenon DEF TellFirst
  <2>2. near \subseteq {<<>>, <<"reminder">>}
    OBVIOUS
  <2> HIDE DEF near, stop, notes
  <2> QED BY <2>1, <2>2
<1>2. stop \in Seq(Told) /\ notes \in Seq(Told) /\ reminder \in Seq(Told)
  <2>1. "resume" \in Told /\ "note" \in Told /\ "reminder" \in Told
    BY DEF Told
  <2>2. <<>> \in Seq(Told)
    OBVIOUS
  <2>3. <<"resume">> \in Seq(Told) /\ <<"note">> \in Seq(Told) /\ <<"reminder">> \in Seq(Told)
    BY <2>1
  <2> QED BY <2>2, <2>3, Zenon
<1>3. h.stopped => Len(stop) = 1 /\ stop[1] = "resume"
  OBVIOUS
<1> HIDE DEF stop, notes
<1>4. stop \o notes \in Seq(Told) /\ todo' \in Seq(Told)
  BY <1>1, <1>2, ConcatProperties
<1>5. ASSUME h.stopped PROVE todo' # <<>> /\ Head(todo') = "resume"
  <2>1. Len(stop \o notes) >= 1 /\ (stop \o notes)[1] = "resume" /\ Len(stop \o notes) \in Nat
    BY <1>2, <1>3, <1>5, ConcatProperties, LenProperties
  <2>2. Len(todo') >= 1 /\ todo'[1] = "resume"
    BY <1>1, <1>2, <1>4, <2>1, ConcatProperties, LenProperties
  <2>3. todo' # <<>>
    BY <2>2
  <2> QED BY <1>4, <2>2, <2>3, HeadTailProperties
<1>6. ~h'.stopped
  <2>1. h' = [h EXCEPT !.stopped = FALSE] /\ h \in DerivedState
    BY DEF TellFirst, TypeOK
  <2> QED BY <2>1, ZenonT(60) DEF DerivedState
<1>7. pc = "turn" /\ pc' = "begin" /\ UNCHANGED log
  BY DEF TellFirst, At, durable
<1> QED BY <1>4, <1>5, <1>6, <1>7

LEMMA StepKeepsStops ==
  ASSUME RInv, StopsTold(log), StopIsKnown, TurnIsTold, TypeOK', ConversationKinds
  PROVE  StopsTold(log)' /\ StopIsKnown' /\ TurnIsTold'
<1>0. /\ TypeOK /\ Fresh /\ log \in Seq(Items) /\ h \in DerivedState
  BY DEF RInv, TypeOK
<1>1. ASSUME UNCHANGED log PROVE StopsTold(log)'
  BY <1>1
<1>2. ASSUME NEW item \in Items, ~IsOrdinary(item), log' = Append(log, item)
      PROVE  StopsTold(log)'
  BY <1>0, <1>2, StopsOfAppend
<1>3. CASE \E compaction \in BOOLEAN : AskStep(compaction)
  <2> PICK compaction \in BOOLEAN : AskStep(compaction)
    BY <1>3
  <2> DEFINE item == TurnItem(h.turn + 1, compaction)
  <2>1. item \in Items /\ item.kind = "turn" /\ (IsOrdinary(item) <=> ~compaction)
    BY <1>0, TurnItems
  <2>2. /\ log' = Append(log, item) /\ h' = AddItem(h, item) /\ pc \in Loop /\ pc' # "begin"
        /\ IF compaction THEN pc # "begin" ELSE pc = "begin" /\ todo = <<>>
    BY DEF AskStep
  <2> HIDE DEF item
  <2>3. item # InputItem("stop_hard") /\ item # InputItem("resume")
    BY <2>1 DEF InputItem
  <2>4. TurnIsTold'
    BY <2>2 DEF TurnIsTold
  <2>5. CASE compaction
    <3>1. h.stopped => h'.stopped
      BY <1>0, <2>1, <2>2, <2>5, ItemStop
    <3>2. StopIsKnown'
      BY <1>0, <2>1, <2>2, <2>3, <2>5, <3>1, StopStaysKnown
    <3> QED BY <1>2, <2>1, <2>2, <2>4, <2>5, <3>2
  <2>6. CASE ~compaction
    <3>1. ~h.stopped /\ todo = <<>>
      BY <2>2, <2>6 DEF TurnIsTold
    <3>2. \A i \in DOMAIN log : StopPending(log, i) => Resumes(log, i)
      BY <2>2, <3>1 DEF StopIsKnown
    <3>3. StopsTold(Append(log, item))
      BY <1>0, <2>1, <3>2, StopsOfAppend
    <3>4. \A i \in DOMAIN log' : ~StopPending(log', i)
      BY <1>0, <2>1, <2>2, <2>3, <2>6, StopsAfterAppend
    <3> QED BY <2>2, <2>4, <3>3, <3>4 DEF StopIsKnown
  <2> QED BY <2>5, <2>6
<1>4. CASE \E item \in Items : AnswerStep(item)
  <2> PICK item \in Items : AnswerStep(item)
    BY <1>4
  <2>1. /\ log' = Append(log, item) /\ h' = AddItem(h, item)
        /\ pc \in Loop /\ pc # "begin" /\ pc' # "begin"
        /\ ~IsOrdinary(item) /\ item # InputItem("stop_hard")
    BY DEF AnswerStep, IsOrdinary, IsTurn, InputItem
  <2>2. h.stopped => h'.stopped
    BY <1>0, <2>1, ItemStop
  <2>3. StopIsKnown'
    BY <1>0, <2>1, <2>2, StopStaysKnown
  <2> QED BY <1>2, <2>1, <2>3 DEF TurnIsTold
<1>5. CASE RecordInput
  <2> DEFINE id == Head(todo)
             item == InputItem(id)
  <2>1. /\ item \in Items /\ ~IsOrdinary(item)
        /\ item = InputItem("stop_hard") <=> id = "stop_hard"
        /\ id = "resume" => item = InputItem("resume")
    BY <1>0, <1>5, InputSteps DEF IsOrdinary, IsTurn, InputItem
  <2>2. /\ pc \in Loop /\ pc' = pc /\ todo # <<>> /\ todo' = Tail(todo)
        /\ log' = Append(log, item) /\ h' = AddItem(h, item)
    BY <1>0, <1>5, InputSteps
  <2> HIDE DEF item
  <2>3. /\ h.stopped \/ item = InputItem("stop_hard") => h'.stopped
        /\ h'.stopped => h.stopped \/ item = InputItem("stop_hard")
    BY <1>0, <2>1, <2>2, ItemStop
  <2>4. StopIsKnown'
    BY <1>0, <2>1, <2>2, <2>3, StopStaysKnown
  <2>5. ASSUME pc = "begin" PROVE ~h'.stopped /\ todo' \in Seq(Told)
    <3>1. ~h.stopped /\ todo \in Seq(Told)
      BY <2>5 DEF TurnIsTold
    <3>2. id \in Told /\ Tail(todo) \in Seq(Told)
      BY <2>2, <3>1, HeadTailProperties
    <3>3. id # "stop_hard"
      BY <3>2 DEF Told
    <3> QED BY <2>1, <2>2, <2>3, <3>1, <3>2, <3>3
  <2> QED BY <1>2, <2>1, <2>2, <2>4, <2>5 DEF TurnIsTold
<1>6. CASE TellFirst
  <2>1. /\ pc = "turn" /\ pc' = "begin" /\ UNCHANGED log
        /\ ~h'.stopped /\ todo' \in Seq(Told)
        /\ h.stopped => todo' # <<>> /\ Head(todo') = "resume"
    BY <1>0, <1>6, TellSteps
  <2>2. pc \in Loop
    BY <2>1 DEF Loop, Labels, Down
  <2> QED BY <1>1, <2>1, <2>2 DEF StopIsKnown, TurnIsTold
<1>7. CASE Restore
  <2>1. /\ pc = "replay" /\ pos = Len(log) /\ pc' = "schedule" /\ UNCHANGED log
        /\ h' = RestoreOperations(h)
    BY <1>7 DEF Restore, durable
  <2>2. h'.stopped = Derived.history.stopped
    <3>1. h'.stopped = h.stopped
      BY <1>0, <2>1, RestoreOperationsAgrees
    <3>2. h.stopped = h.history.stopped /\ h.history.stopped = Derived.history.stopped
      BY <2>1, Zenon DEF RInv, ReplayIsAt, Agrees, FromHistory, Derived
    <3> QED BY <3>1, <3>2
  <2>3. \A i \in DOMAIN log' : StopPending(log', i) => h'.stopped
    BY <1>0, <2>1, <2>2, StopIsReplayed DEF Derived
  <2> QED BY <1>1, <2>1, <2>3 DEF StopIsKnown, TurnIsTold
<1>8. CASE SilentStep
  <2>1. /\ pc \in Loop /\ h'.stopped = h.stopped
        /\ (pc # "begin" /\ pc' # "begin") \/ UNCHANGED <<pc, todo>>
    BY <1>8 DEF SilentStep
  <2>2. TurnIsTold'
    BY <2>1 DEF TurnIsTold
  <2>3. CASE UNCHANGED log
    <3>1. StopIsKnown'
      BY <2>1, <2>3 DEF StopIsKnown
    <3> QED BY <1>1, <2>2, <2>3, <3>1
  <2>4. CASE \E o \in Ops, status \in Statuses \cup {"none"} : log' = Append(log, StatusItem(o, status))
    <3> PICK o \in Ops, status \in Statuses \cup {"none"} : log' = Append(log, StatusItem(o, status))
      BY <2>4
    <3> DEFINE item == StatusItem(o, status)
    <3>1. item \in Items /\ ~IsOrdinary(item) /\ item # InputItem("stop_hard")
      BY ItemTypes DEF StatusItem, InputItem, IsOrdinary, IsTurn
    <3>2. log' = Append(log, item)
      OBVIOUS
    <3> HIDE DEF item
    <3>3. StopIsKnown'
      BY <1>0, <2>1, <3>1, <3>2, StopStaysKnown
    <3> QED BY <1>2, <2>2, <3>1, <3>2, <3>3
  <2> QED BY <1>8, <2>3, <2>4 DEF SilentStep
<1>9. CASE AwayStep
  <2>1. pc' # "begin"
    BY <1>9 DEF AwayStep, Loop, Labels, Down
  <2> QED BY <1>1, <1>9, <2>1 DEF AwayStep, StopIsKnown, TurnIsTold
<1> QED BY <1>3, <1>4, <1>5, <1>6, <1>7, <1>8, <1>9, Zenon DEF ConversationKinds

-----------------------------------------------------------------------------

LEMMA InitConversation == Init => CInv
<1> SUFFICES ASSUME Init PROVE CInv
  OBVIOUS
<1>1. LInv /\ CallsWereMade(log) /\ ParentIsLeft
  BY InitLife, InitKeepsParent
<1>2. ResponsesAnswer(log) /\ StopsTold(log)
  BY InheritedAssumption DEF Init, LeftBySession
<1>3. AnswerAwaited /\ StopIsKnown /\ TurnIsTold
  BY DEF Init, AnswerAwaited, StopIsKnown, TurnIsTold, Loop, Down
<1> QED BY <1>1, <1>2, <1>3 DEF CInv

LEMMA StepKeepsConversation == CInv /\ [Next]_vars => CInv'
<1> SUFFICES ASSUME CInv, [Next]_vars PROVE CInv'
  OBVIOUS
<1>1. LInv /\ RInv /\ TypeOK
  BY DEF CInv, LInv, RInv
<1>2. LInv' /\ TypeOK'
  BY <1>1, StepKeepsLife DEF LInv, RInv
<1>3. StepKinds /\ ConversationKinds
  BY <1>1, StepsAreOfAKind, StepsConverse
<1>4. CallsWereMade(log)' /\ ParentIsLeft'
  BY <1>1, <1>2, <1>3, StepKeepsCallsMade DEF CInv
<1>5. ResponsesAnswer(log)' /\ AnswerAwaited'
  BY <1>1, <1>2, <1>3, StepKeepsTurns DEF CInv
<1>6. StopsTold(log)' /\ StopIsKnown' /\ TurnIsTold'
  BY <1>1, <1>2, <1>3, StepKeepsStops DEF CInv
<1> QED BY <1>2, <1>4, <1>5, <1>6 DEF CInv

LEMMA ConversationInvariant == Spec => []CInv
<1>1. Init => CInv
  BY InitConversation
<1>2. CInv /\ [Next]_vars => CInv'
  BY StepKeepsConversation
<1> QED BY <1>1, <1>2, PTL DEF Spec

-----------------------------------------------------------------------------
(* What follows *)

\* Every recorded response answers the turn recorded last and is its only one:
\* a result of a request that was canceled or replaced, which still comes in,
\* is never recorded (Run drops results of other turns).
THEOREM ResponsesAnswerTheirTurn == Spec => []ResponsesAnswerLatestTurn
<1>1. CInv => ResponsesAnswerLatestTurn
  BY DEF CInv, ResponsesAnswerLatestTurn
<1> QED BY <1>1, ConversationInvariant, PTL

\* The stop that ended a run is told to the model before the next ordinary turn,
\* whatever runs, crashes, compactions and checkpoints come between (resumeNote,
\* checkpointStop).
THEOREM StopsAreTold == Spec => []StopIsTold
<1>1. CInv => StopIsTold
  BY DEF CInv, StopIsTold
<1> QED BY <1>1, ConversationInvariant, PTL

\* A fork neither works on the operations that its inherited items name nor
\* records a status of them.
THEOREM ForksStartClean == Spec => []ForkStartsClean
<1>1. CInv => ForkStartsClean
  <2> SUFFICES ASSUME CInv, NEW o \in InheritedOps
               PROVE  /\ mgr[o] = "absent"
                      /\ \A i \in Len(Inherited) + 1 .. Len(log) :
                           log[i].kind = "status" => log[i].op # o
    BY DEF ForkStartsClean
  <2>1. saved[o] = "none" /\ o \in Ops
    BY InheritedAreOps DEF CInv, ParentIsLeft
  <2>2. mgr[o] = "absent"
    BY <2>1 DEF CInv, LInv, WInv, ManagedAreRecorded, Recorded
  <2> QED BY <2>2 DEF CInv, ParentIsLeft
<1> QED BY <1>1, ConversationInvariant, PTL

\* Whenever a session is forked, and at whatever item, the fork begins with a
\* log of the kind the model assumes its sessions begin with: the assumption
\* InheritedAssumption is one that every session, fork or not, keeps for the
\* forks made of it.
ForksInherit == \A n \in 0 .. Len(log) : LeftBySession(Append(SubSeq(log, 1, n), ForkItem))

THEOREM SessionsLeaveForks == Spec => []ForksInherit
<1>1. CInv /\ AInv /\ VInv => ForksInherit
  <2> SUFFICES ASSUME CInv, AInv, VInv, NEW n \in 0 .. Len(log)
               PROVE  LeftBySession(Append(SubSeq(log, 1, n), ForkItem))
    BY DEF ForksInherit
  <2>1. TypeOK /\ log \in Seq(Items)
    BY DEF CInv, LInv, RInv, TypeOK
  <2>2. EachOnce(log)
    BY <2>1, OnceOfLog, Zenon DEF AInv, RecordedOnce, EachOnce, Line
  <2>3. ChecksBounded(log)
    BY DEF VInv, VerificationsInv
  <2>4. LeftBySession(log)
    BY <2>2, <2>3 DEF CInv, LeftBySession
  <2> QED BY <2>1, <2>4, LeftToFork
<1> QED BY <1>1, ConversationInvariant, ArrivalInvariant, VerificationInvariant, PTL

-----------------------------------------------------------------------------
(* A failed answer is asked for again *)

\* The last response of the session's own failed.
FailedLast(items) ==
  \E i \in DOMAIN items :
    /\ Own(i) /\ items[i].kind = "response" /\ items[i].ending = "failed"
    /\ \A j \in DOMAIN items : j > i => items[j].kind # "response"

NoneOwn(items) == \A i \in DOMAIN items : Own(i) => items[i].kind # "response"

\* A run has no response to ask again for before its loop starts.
FirstRun ==
  /\ runs = 0 => pc = "new" /\ log = Inherited
  /\ pc \in {"replay", "start"} => ~r.started
  /\ runs = 1 /\ Up /\ ~r.started => NoneOwn(log)

\* A turn that is asked for is due, and goes out unless it has to wait.
TurnsComeDue ==
  /\ pc = "decide" /\ r.stop # "hard" /\ (r.callModel \/ todo # <<>>) => r.due
  /\ pc = "turn" /\ ~r.ordinary => ~r.callModel /\ ~r.live
  /\ pc = "idlecheck" /\ r.callModel => r.quota \/ Compacting
  /\ pc \in {"start", "turn", "idlecheck"} => todo = <<>>

\* A turn is to be asked for, or is in flight.
Owed == r.callModel \/ (r.live /\ ~Compacting)

\* Where the loop owes a turn since the answer failed, if no stop ends it.
Owing == {"select", "inputs", "updates", "reconcile", "due", "decide", "idlecheck", "dispatch",
          "checkpoint"}

Asking ==
  \/ r.stop = "hard"
  \/ pc \in {"schedule", "count", "answer"} /\ r.ending = "failed"
  \/ pc = "turn" /\ r.ordinary
  \/ pc = "begin"
  \/ pc \in Owing /\ Owed

AsksAgain ==
  runs = 1 /\ ~NoRecovery /\ FailedLast(log) => IF Up THEN Asking ELSE pc # "idle"

AskInv == FirstRun /\ TurnsComeDue /\ AsksAgain

\* What is recorded is no response.
NoResponse == UNCHANGED log \/ \E item \in Items : item.kind # "response" /\ log' = Append(log, item)

LEMMA ResponsesOfOwn ==
  ASSUME NEW items \in Seq(Items), NEW item \in Items
  PROVE  LET more == Append(items, item) IN
           /\ item.kind # "response" => /\ FailedLast(more) => FailedLast(items)
                                        /\ NoneOwn(items) => NoneOwn(more)
           /\ item.kind = "response" => (FailedLast(more) => item.ending = "failed")
<1> DEFINE more == Append(items, item)
           n == Len(items)
<1>1. /\ n \in Nat /\ DOMAIN items = 1 .. n /\ DOMAIN more = 1 .. n + 1
      /\ \A i \in 1 .. n : more[i] = items[i]
      /\ more[n + 1] = item
  BY AppendProperties, LenProperties
<1> HIDE DEF more, n
<1>2. ASSUME item.kind # "response", FailedLast(more) PROVE FailedLast(items)
  <2>1. PICK i \in DOMAIN more : /\ Own(i) /\ more[i].kind = "response" /\ more[i].ending = "failed"
                                 /\ \A j \in DOMAIN more : j > i => more[j].kind # "response"
    BY <1>2 DEF FailedLast
  <2>2. i \in DOMAIN items /\ items[i] = more[i]
    BY <1>1, <1>2, <2>1
  <2>3. \A j \in DOMAIN items : j \in DOMAIN more /\ more[j] = items[j]
    BY <1>1
  <2> QED BY <2>1, <2>2, <2>3, Zenon DEF FailedLast
<1>3. ASSUME item.kind # "response", NoneOwn(items) PROVE NoneOwn(more)
  <2>1. \A j \in DOMAIN more : more[j] = item \/ (j \in DOMAIN items /\ more[j] = items[j])
    BY <1>1
  <2> QED BY <1>3, <2>1, Zenon DEF NoneOwn
<1>4. ASSUME item.kind = "response", FailedLast(more) PROVE item.ending = "failed"
  <2>1. PICK i \in DOMAIN more : /\ Own(i) /\ more[i].kind = "response" /\ more[i].ending = "failed"
                                 /\ \A j \in DOMAIN more : j > i => more[j].kind # "response"
    BY <1>4 DEF FailedLast
  <2>2. n + 1 \in DOMAIN more /\ ~(n + 1 > i)
    BY <1>1, <1>4, <2>1
  <2>3. i = n + 1
    BY <1>1, <2>1, <2>2
  <2> QED BY <1>1, <2>1, <2>3
<1> QED BY <1>2, <1>3, <1>4 DEF more

LEMMA NoResponseKeeps ==
  ASSUME TypeOK, NoResponse
  PROVE  (FailedLast(log') => FailedLast(log)) /\ (NoneOwn(log) => NoneOwn(log'))
<1>1. log \in Seq(Items)
  BY DEF TypeOK
<1> QED BY <1>1, ResponsesOfOwn DEF NoResponse

LEMMA NoneOwnNoneFailed == ASSUME NEW items, NoneOwn(items) PROVE ~FailedLast(items)
BY DEF NoneOwn, FailedLast

-----------------------------------------------------------------------------
(* What a step keeps of what the run owes *)

\* The run owes what it owed, and a turn more if a prompt or steering is recorded.
RunOwes ==
  /\ r'.ending = r.ending /\ r'.live = r.live
  /\ r.callModel => r'.callModel
  /\ r'.callModel => r.callModel \/ (RecordInput /\ Head(todo) \in External)

SameTurns == h'.turn = h.turn /\ h'.compactionTurns = h.compactionTurns

LEMMA LoopOwes ==
  ASSUME TypeOK,
         \/ ScheduledAll \/ ReconciledAll \/ InputsSlurped \/ UpdatesSlurped \/ TakeInput
         \/ Timers \/ DropResult \/ SummaryOverflows \/ ProcessDue \/ Decide
  PROVE  RunOwes
<1>0. r \in RunState
  BY DEF TypeOK
<1>1. ASSUME UNCHANGED r PROVE RunOwes
  BY <1>1 DEF RunOwes
<1>2. CASE ScheduledAll \/ ReconciledAll \/ InputsSlurped \/ UpdatesSlurped \/ DropResult
  BY <1>1, <1>2 DEF ScheduledAll, ReconciledAll, InputsSlurped, UpdatesSlurped, DropResult
<1>3. CASE TakeInput
  <2>1. \/ UNCHANGED r
        \/ r' = [r EXCEPT !.deferred = Append(@, Head(queued))]
        \/ r' = [r EXCEPT !.deferred = <<>>, !.timer = FALSE, !.waited = FALSE]
    BY <1>3, Zenon DEF TakeInput
  <2> QED BY <1>0, <1>1, <2>1, ZenonT(60) DEF RunOwes, RunState
<1>4. CASE Timers
  <2>1. CASE DeadlinePasses
    BY <1>0, <2>1, ZenonT(60) DEF DeadlinePasses, RunOwes, RunState
  <2>2. CASE ReportDue
    BY <1>0, <2>2, ZenonT(60) DEF ReportDue, RunOwes, RunState
  <2>3. CASE QuotaLifts
    BY <1>0, <2>3, ZenonT(60) DEF QuotaLifts, RunOwes, RunState
  <2>4. CASE GraceEnds
    BY <1>0, <2>4, ZenonT(60) DEF GraceEnds, RunOwes, RunState
  <2>5. CASE ToolWaitEnds
    BY <1>0, <2>5, ZenonT(60) DEF ToolWaitEnds, RunOwes, RunState
  <2>6. CASE PostHeartbeat
    BY <1>1, <2>6 DEF PostHeartbeat
  <2> QED BY <1>4, <2>1, <2>2, <2>3, <2>4, <2>5, <2>6, Zenon DEF Timers
<1>5. CASE SummaryOverflows
  BY <1>0, <1>5, ZenonT(60) DEF SummaryOverflows, RunOwes, RunState
<1>6. CASE ProcessDue
  <2> DEFINE timer == r.timer \/ ((r.deferred # <<>> /\ r.stop # "hard" /\ ~Compacting)
                                  /\ ~r.live /\ LimitsToolWait)
             due == TurnIsAsked
  <2>1. \/ r' = [r EXCEPT !.due = TRUE, !.deferred = <<>>, !.timer = FALSE, !.waited = FALSE]
        \/ r' = [r EXCEPT !.due = due, !.timer = timer]
    BY <1>6, Zenon DEF ProcessDue
  <2> HIDE DEF timer, due
  <2> QED BY <1>0, <2>1, ZenonT(60) DEF RunOwes, RunState
<1>7. CASE Decide
  <2> DEFINE ordinary == TurnDue
  <2>1. r' = [r EXCEPT !.due = FALSE, !.ordinary = ordinary]
    BY <1>7, Zenon DEF Decide
  <2> HIDE DEF ordinary
  <2> QED BY <1>0, <2>1, ZenonT(60) DEF RunOwes, RunState
<1> QED BY <1>2, <1>3, <1>4, <1>5, <1>6, <1>7, Zenon

LEMMA RecordingOwes ==
  ASSUME TypeOK,
         \/ RecordInput \/ ScheduleToolCall \/ ReconcileToolCall \/ Verify \/ TakeUpdate
         \/ SaveCheckpoint \/ DispatchCalls \/ Restore
  PROVE  RunOwes
<1>0. r \in RunState
  BY DEF TypeOK
<1>1. CASE RecordInput
  <2> DEFINE id == Head(todo)
             calls == r.callModel \/ id \in External
             compact == r.compact \/ id = "compact"
             stop == AcceptStop(r.stop, id)
             fresh == r.freshStop \/ id = "stop_hard"
             wrapUp == IF id = "budget" THEN h'.available ELSE r.wrapUp
             grace == IF id \in {"settings", "compact"} THEN r.grace ELSE {}
  <2>1. r' = [r EXCEPT !.callModel = calls, !.compact = compact, !.stop = stop,
                       !.freshStop = fresh, !.wrapUp = wrapUp, !.grace = grace]
    BY <1>1, Zenon DEF RecordInput
  <2>2. (r.callModel => calls) /\ (calls => r.callModel \/ id \in External)
    OBVIOUS
  <2> HIDE DEF calls, compact, stop, fresh, wrapUp, grace
  <2>3. r'.ending = r.ending /\ r'.live = r.live /\ r'.callModel = calls
    BY <1>0, <2>1, ZenonT(60) DEF RunState
  <2> QED BY <1>1, <2>2, <2>3 DEF RunOwes
<1>2. CASE ScheduleToolCall
  <2> PICK c \in Calls, status \in {"ready", "none"} :
        r' = [WithOpenCalls(r, h') EXCEPT !.statuses = @ \cup {c},
                                          !.due = @ \/ status = "none"]
    BY <1>2, Zenon DEF ScheduleToolCall
  <2> QED BY <1>0, ZenonT(60) DEF WithOpenCalls, RunOwes, RunState
<1>3. CASE ReconcileToolCall
  <2>1. r' = WithOpenCalls(r, h')
    BY <1>3, Zenon DEF ReconcileToolCall
  <2> QED BY <1>0, <2>1, ZenonT(60) DEF WithOpenCalls, RunOwes, RunState
<1>4. CASE Verify
  <2> PICK k : r' = [r EXCEPT !.verifying = k]
    BY <1>4, Zenon DEF Verify
  <2> QED BY <1>0, ZenonT(60) DEF RunOwes, RunState
<1>5. CASE TakeUpdate
  <2> DEFINE u == Head(updates)
             v == IF Verifies /\ u.op = r.verifying /\ u.status \in Terminal
                  THEN Nothing ELSE r.verifying
  <2>1. r' = [r EXCEPT !.verifying = v]
    BY <1>5, Zenon DEF TakeUpdate
  <2> HIDE DEF v
  <2> QED BY <1>0, <2>1, ZenonT(60) DEF RunOwes, RunState
<1>6. CASE SaveCheckpoint
  <2>1. r' = [r EXCEPT !.compactions = @ + 1]
    BY <1>6, Zenon DEF SaveCheckpoint
  <2> QED BY <1>0, <2>1, ZenonT(60) DEF RunOwes, RunState
<1>7. CASE DispatchCalls
  <2> DEFINE grace == IF r.callModel THEN r.grace ELSE r.grace \cup r.statuses
  <2>1. r' = [r EXCEPT !.grace = grace, !.statuses = {}]
    BY <1>7, Zenon DEF DispatchCalls
  <2> HIDE DEF grace
  <2> QED BY <1>0, <2>1, ZenonT(60) DEF RunOwes, RunState
<1>8. CASE Restore
  <2> PICK k : r' = [r EXCEPT !.verifying = k]
    BY <1>8, Zenon DEF Restore
  <2> QED BY <1>0, ZenonT(60) DEF RunOwes, RunState
<1> QED BY <1>1, <1>2, <1>3, <1>4, <1>5, <1>6, <1>7, <1>8, Zenon

LEMMA ItemTurns ==
  ASSUME NEW d \in DerivedState, NEW item \in Items, item.kind \in {"input", "status"}
  PROVE  LET e == AddItem(d, item) IN
           e.turn = d.turn /\ e.compactionTurns = d.compactionTurns
<1>1. CASE item.kind = "input"
  <2>1. AddItem(d, item) = AddInput(d, item.id)
    BY <1>1, Zenon DEF AddItem
  <2>2. /\ AddInput(d, item.id).turn = d.turn
        /\ AddInput(d, item.id).compactionTurns = d.compactionTurns
    BY ZenonT(60) DEF AddInput, DerivedState
  <2> QED BY <2>1, <2>2
<1>2. CASE item.kind = "status"
  <2>1. AddItem(d, item) = AddStatus(d, item.op, item.status)
    BY <1>2, Zenon DEF AddItem
  <2>2. /\ AddStatus(d, item.op, item.status).turn = d.turn
        /\ AddStatus(d, item.op, item.status).compactionTurns = d.compactionTurns
    BY ZenonT(60) DEF AddStatus, DerivedState
  <2> QED BY <2>1, <2>2
<1> QED BY <1>1, <1>2

\* A turn that is recorded is in flight, as what it was asked as.
LEMMA TurnAsked ==
  ASSUME NEW d \in DerivedState, NEW compaction \in BOOLEAN
  PROVE  LET e == AddItem(d, TurnItem(d.turn + 1, compaction)) IN
           compaction <=> e.turn \in e.compactionTurns
<1> DEFINE n == d.turn + 1
           item == TurnItem(n, compaction)
           c == IF compaction THEN d.compactionTurns \cup {n} ELSE d.compactionTurns \ {n}
           e == AddItem(d, item)
<1>1. item.kind = "turn" /\ item.turn = n /\ item.compaction = compaction
  BY DEF TurnItem
<1>2. compaction <=> n \in c
  OBVIOUS
<1> HIDE DEF n, item, c
<1>3. e = AddTurn(d, n, compaction)
  BY <1>1, Zenon DEF AddItem
<1>4. AddTurn(d, n, compaction).turn = n /\ AddTurn(d, n, compaction).compactionTurns = c
  BY ZenonT(60) DEF AddTurn, DerivedState, c
<1>5. e.turn = n /\ e.compactionTurns = c
  BY <1>3, <1>4
<1> HIDE DEF e
<1>6. compaction <=> e.turn \in e.compactionTurns
  BY <1>2, <1>5
<1> QED BY <1>6 DEF e, item, n

\* The steps of a loop that neither asks nor is answered.
LoopGoesOn ==
  /\ pc \in Loop /\ pc' \in Loop /\ runs' = runs
  /\ NoResponse /\ RunGoesOn /\ RunOwes /\ SameTurns

LEMMA QuietGoesOn ==
  ASSUME TypeOK,
         \/ ScheduledAll \/ ReconciledAll \/ InputsSlurped \/ UpdatesSlurped \/ TakeInput
         \/ Timers \/ DropResult \/ SummaryOverflows \/ ProcessDue \/ Decide
  PROVE  LoopGoesOn
<1>1. pc \in Loop /\ pc' \in Loop /\ UNCHANGED log
  BY QuietSteps DEF QuietStep, durable
<1>2. UNCHANGED h /\ runs' = runs
  BY DEF ScheduledAll, ReconciledAll, InputsSlurped, UpdatesSlurped, TakeInput,
         Timers, DeadlinePasses, ReportDue, QuotaLifts, GraceEnds, ToolWaitEnds, PostHeartbeat,
         DropResult, SummaryOverflows, ProcessDue, Decide, bounds
<1> QED BY <1>1, <1>2, LoopOwes, LoopRunGoesOn DEF LoopGoesOn, NoResponse, SameTurns

LEMMA RecordingGoesOn ==
  ASSUME RInv,
         \/ RecordInput \/ ScheduleToolCall \/ ReconcileToolCall \/ Verify \/ TakeUpdate
         \/ SaveCheckpoint \/ DispatchCalls
  PROVE  LoopGoesOn
<1>0. TypeOK /\ Fresh /\ h \in DerivedState
  BY DEF RInv, TypeOK
<1>1. RunOwes /\ RunGoesOn
  BY <1>0, RecordingOwes, OtherRunGoesOn
<1>2. runs' = runs
  BY DEF RecordInput, ScheduleToolCall, ReconcileToolCall, Verify, TakeUpdate, SaveCheckpoint,
         DispatchCalls, bounds
<1>3. CASE RecordInput
  <2>1. /\ pc \in Loop /\ pc' = pc /\ InputItem(Head(todo)) \in Items
        /\ InputItem(Head(todo)).kind = "input"
        /\ log' = Append(log, InputItem(Head(todo))) /\ h' = AddItem(h, InputItem(Head(todo)))
    BY <1>0, <1>3, InputSteps
  <2>2. SameTurns
    BY <1>0, <2>1, ItemTurns DEF SameTurns
  <2> QED BY <1>1, <1>2, <2>1, <2>2 DEF LoopGoesOn, NoResponse
<1>4. CASE ScheduleToolCall \/ ReconcileToolCall \/ Verify
  <2>1. pc \in Loop /\ pc' \in Loop
    BY <1>4 DEF ScheduleToolCall, ReconcileToolCall, Verify, At, Loop, Labels, Down
  <2>2. PICK o \in Ops, status \in Statuses \cup {"none"} :
          /\ log' = Append(log, StatusItem(o, status))
          /\ h' = AddItem(h, StatusItem(o, status))
             \/ h' = [AddItem(h, StatusItem(o, status)) EXCEPT !.work = FALSE]
    <3>1. CASE ScheduleToolCall
      <4>1. PICK c \in Calls, status \in {"ready", "none"} : Record(StatusItem(c, status))
        BY <3>1, Zenon DEF ScheduleToolCall
      <4>2. c \in Ops /\ status \in Statuses \cup {"none"}
        BY DEF Ops, Statuses, Unfinished
      <4> QED BY <4>1, <4>2 DEF Record
    <3>2. CASE ReconcileToolCall
      <4>1. PICK c \in FinishedCalls : Record(StatusItem(c, h.ops[c]))
        BY <3>2, Zenon DEF ReconcileToolCall
      <4>2. c \in Ops /\ h.ops[c] \in Statuses \cup {"none"}
        BY DEF FinishedCalls, Ops, Statuses
      <4> QED BY <4>1, <4>2 DEF Record
    <3>3. CASE Verify
      <4>1. PICK k \in UnusedChecks :
              /\ log' = Append(log, StatusItem(k, "ready"))
              /\ h' = [AddItem(h, StatusItem(k, "ready")) EXCEPT !.work = FALSE]
        BY <3>3, Zenon DEF Verify
      <4>2. k \in Ops /\ "ready" \in Statuses \cup {"none"}
        BY DEF UnusedChecks, Ops, Statuses, Unfinished
      <4> QED BY <4>1, <4>2
    <3> QED BY <1>4, <3>1, <3>2, <3>3
  <2> DEFINE item == StatusItem(o, status)
             e == AddItem(h, item)
  <2>3. item \in Items /\ item.kind = "status"
    BY ItemTypes DEF StatusItem
  <2>4. e.turn = h.turn /\ e.compactionTurns = h.compactionTurns /\ e \in DerivedState
    BY <1>0, <2>3, ItemTurns, AddItemType
  <2>5. SameTurns
    <3>1. h' = e \/ h' = [e EXCEPT !.work = FALSE]
      BY <2>2
    <3> HIDE DEF e
    <3>2. h'.turn = e.turn /\ h'.compactionTurns = e.compactionTurns
      BY <2>4, <3>1, ZenonT(60) DEF DerivedState
    <3> QED BY <2>4, <3>2 DEF SameTurns
  <2>6. NoResponse
    BY <2>2, <2>3 DEF NoResponse
  <2> QED BY <1>1, <1>2, <2>1, <2>5, <2>6 DEF LoopGoesOn
<1>5. CASE TakeUpdate \/ SaveCheckpoint \/ DispatchCalls
  <2>1. pc \in Loop /\ pc' \in Loop /\ UNCHANGED log
    BY <1>5 DEF DispatchCalls, SaveCheckpoint, TakeUpdate, durable, At, Loop, Labels, Down
  <2>2. SameTurns
    <3>1. CASE TakeUpdate
      <4> DEFINE u == Head(updates)
                 verified == Verifies /\ u.op = r.verifying /\ u.status \in Terminal
                 v == IF verified THEN h.verifications + 1 ELSE h.verifications
      <4>1. h' = [h EXCEPT !.ops[u.op] = u.status, !.verifications = v]
        BY <3>1, Zenon DEF TakeUpdate
      <4> HIDE DEF u, v
      <4> QED BY <1>0, <4>1, ZenonT(60) DEF DerivedState, SameTurns
    <3>2. CASE SaveCheckpoint \/ DispatchCalls
      BY <3>2 DEF DispatchCalls, SaveCheckpoint, SameTurns
    <3> QED BY <1>5, <3>1, <3>2
  <2> QED BY <1>1, <1>2, <2>1, <2>2 DEF LoopGoesOn, NoResponse
<1> QED BY <1>3, <1>4, <1>5

-----------------------------------------------------------------------------
(* Every step keeps it *)

LEMMA GoesOnFirst ==
  ASSUME TypeOK, FirstRun, LoopGoesOn, pc' = "start" => pc = "start" \/ ~r.started
  PROVE  FirstRun'
<1>1. pc # "new" /\ Up /\ pc' # "replay"
  BY DEF LoopGoesOn, Loop, Up, Down
<1>2. runs' = runs /\ r'.started = r.started /\ (NoneOwn(log) => NoneOwn(log'))
  BY NoResponseKeeps DEF LoopGoesOn, RunGoesOn
<1> QED BY <1>1, <1>2 DEF FirstRun

LEMMA OwedStays == ASSUME LoopGoesOn, Owed PROVE Owed'
BY DEF LoopGoesOn, RunOwes, SameTurns, Owed, Compacting

LEMMA GoesOnAsks ==
  ASSUME TypeOK, AsksAgain, LoopGoesOn,
         \/ pc' = pc /\ pc # "turn"
         \/ pc \in Owing \cup {"verify"} /\ pc' \in Owing
  PROVE  AsksAgain'
<1>1. Up /\ Up' /\ runs' = runs /\ (r.stop = "hard" => r'.stop = "hard") /\ r'.ending = r.ending
  BY DEF LoopGoesOn, Loop, Up, RunGoesOn, RunOwes
<1>2. FailedLast(log') => FailedLast(log)
  BY NoResponseKeeps DEF LoopGoesOn
<1>3. Owed => Owed'
  BY OwedStays
<1>4. Asking => Asking'
  <2>1. CASE pc' = pc /\ pc # "turn"
    BY <1>1, <1>3, <2>1 DEF Asking
  <2>2. CASE pc \in Owing \cup {"verify"} /\ pc' \in Owing
    BY <1>1, <1>3, <2>2 DEF Asking, Owing
  <2> QED BY <2>1, <2>2
<1> QED BY <1>1, <1>2, <1>4 DEF AsksAgain

\* A step to where nothing has to be due.
LEMMA NothingComesDue ==
  ASSUME pc' \notin {"decide", "turn", "idlecheck", "start"} PROVE TurnsComeDue'
BY DEF TurnsComeDue

LEMMA EventsAsk ==
  ASSUME RInv, AskInv,
         \/ InputsSlurped \/ UpdatesSlurped \/ TakeInput \/ TakeUpdate \/ Timers \/ DropResult
         \/ SummaryOverflows \/ SaveCheckpoint \/ DispatchCalls \/ Verify
         \/ ScheduleToolCall \/ ReconcileToolCall
  PROVE  AskInv'
<1>0. TypeOK
  BY DEF RInv
<1>1. LoopGoesOn
  BY <1>0, QuietGoesOn, RecordingGoesOn
<1>2. \/ pc' = pc /\ pc \in {"schedule", "reconcile"}
      \/ pc \in Owing \cup {"verify"} /\ pc' \in Owing \ {"decide", "idlecheck"}
  BY DEF InputsSlurped, UpdatesSlurped, TakeInput, TakeUpdate, Timers, DeadlinePasses, ReportDue,
         QuotaLifts, GraceEnds, ToolWaitEnds, PostHeartbeat, DropResult, SummaryOverflows,
         SaveCheckpoint, DispatchCalls, Verify, ScheduleToolCall, ReconcileToolCall, At, Owing
<1>3. pc' \notin {"decide", "turn", "idlecheck", "start"}
  BY <1>2 DEF Owing
<1> QED BY <1>0, <1>1, <1>2, <1>3, GoesOnFirst, GoesOnAsks, NothingComesDue DEF AskInv

LEMMA RecordInputAsks ==
  ASSUME RInv, AskInv, RecordInput
  PROVE  AskInv'
<1>0. TypeOK /\ Fresh /\ r \in RunState /\ todo \in Seq(Inputs)
  BY DEF RInv, TypeOK
<1>1. LoopGoesOn
  BY RecordingGoesOn
<1>2. pc' = pc /\ todo # <<>>
  BY <1>0, InputSteps
<1>3. pc \notin {"turn", "idlecheck", "start"}
  BY <1>2 DEF AskInv, TurnsComeDue
<1>4. r'.due = r.due
  <2> DEFINE id == Head(todo)
             calls == r.callModel \/ id \in External
             compact == r.compact \/ id = "compact"
             stop == AcceptStop(r.stop, id)
             fresh == r.freshStop \/ id = "stop_hard"
             wrapUp == IF id = "budget" THEN h'.available ELSE r.wrapUp
             grace == IF id \in {"settings", "compact"} THEN r.grace ELSE {}
  <2>1. r' = [r EXCEPT !.callModel = calls, !.compact = compact, !.stop = stop,
                       !.freshStop = fresh, !.wrapUp = wrapUp, !.grace = grace]
    BY Zenon DEF RecordInput
  <2> HIDE DEF id, calls, compact, stop, fresh, wrapUp, grace
  <2> QED BY <1>0, <2>1, ZenonT(60) DEF RunState
<1>5. TurnsComeDue'
  BY <1>1, <1>2, <1>3, <1>4 DEF AskInv, TurnsComeDue, LoopGoesOn, RunGoesOn
<1> QED BY <1>0, <1>1, <1>2, <1>3, <1>5, GoesOnFirst, GoesOnAsks DEF AskInv

LEMMA RoundAsks ==
  ASSUME RInv, AskInv, ScheduledAll \/ ReconciledAll
  PROVE  AskInv'
<1>0. TypeOK
  BY DEF RInv
<1>1. LoopGoesOn
  BY <1>0, QuietGoesOn
<1>2. /\ todo' = <<>> /\ UNCHANGED <<log, h, r, runs>>
      /\ \/ pc = "schedule" /\ pc' = IF r.started THEN "count" ELSE "reconcile"
         \/ pc = "reconcile" /\ pc' = IF r.started THEN "due" ELSE "start"
  BY DEF ScheduledAll, ReconciledAll, At, durable, bounds
<1>3. Up /\ Up'
  BY <1>1 DEF LoopGoesOn, Loop, Up
<1>4. TurnsComeDue'
  BY <1>2 DEF TurnsComeDue
<1>5. FirstRun'
  BY <1>0, <1>1, <1>2, GoesOnFirst DEF AskInv
<1>6. AsksAgain'
  <2>1. CASE r.started
    <3>1. Owed => Owed'
      BY <1>1, OwedStays
    <3>2. Asking => Asking'
      BY <1>2, <2>1, <3>1 DEF Asking, Owing
    <3> QED BY <1>2, <1>3, <3>2 DEF AskInv, AsksAgain
  <2>2. CASE ~r.started
    <3>1. runs = 1 => ~FailedLast(log)
      BY <1>3, <2>2, NoneOwnNoneFailed DEF AskInv, FirstRun
    <3> QED BY <1>2, <3>1 DEF AsksAgain
  <2> QED BY <2>1, <2>2
<1> QED BY <1>4, <1>5, <1>6 DEF AskInv

LEMMA ProcessDueAsks ==
  ASSUME RInv, AskInv, ProcessDue
  PROVE  AskInv'
<1>0. TypeOK /\ r \in RunState
  BY DEF RInv, TypeOK
<1>1. LoopGoesOn
  BY <1>0, QuietGoesOn
<1>2. pc = "due" /\ pc' = "decide" /\ todo = <<>>
  BY DEF ProcessDue, At
<1>3. r'.callModel \/ todo' # <<>> => r'.due
  <2> DEFINE timer == r.timer \/ ((r.deferred # <<>> /\ r.stop # "hard" /\ ~Compacting)
                                  /\ ~r.live /\ LimitsToolWait)
             due == TurnIsAsked
  <2>1. \/ r' = [r EXCEPT !.due = TRUE, !.deferred = <<>>, !.timer = FALSE, !.waited = FALSE]
        \/ r' = [r EXCEPT !.due = due, !.timer = timer] /\ todo' = todo
    BY Zenon DEF ProcessDue
  <2>2. r.callModel => due
    BY DEF TurnIsAsked
  <2> HIDE DEF timer, due
  <2>3. CASE r' = [r EXCEPT !.due = TRUE, !.deferred = <<>>, !.timer = FALSE, !.waited = FALSE]
    <3>1. r'.due
      BY <1>0, <2>3, ZenonT(60) DEF RunState
    <3> QED BY <3>1
  <2>4. CASE r' = [r EXCEPT !.due = due, !.timer = timer] /\ todo' = todo
    <3>1. (r'.due <=> due) /\ (r'.callModel <=> r.callModel)
      BY <1>0, <2>4, ZenonT(60) DEF RunState
    <3> QED BY <1>2, <2>2, <2>4, <3>1
  <2> QED BY <2>1, <2>3, <2>4
<1>4. TurnsComeDue'
  BY <1>2, <1>3 DEF TurnsComeDue
<1>5. FirstRun'
  BY <1>0, <1>1, <1>2, GoesOnFirst DEF AskInv
<1>6. AsksAgain'
  BY <1>0, <1>1, <1>2, GoesOnAsks DEF AskInv, Owing
<1> QED BY <1>4, <1>5, <1>6 DEF AskInv

LEMMA DecideAsks ==
  ASSUME RInv, AskInv, Decide
  PROVE  AskInv'
<1>0. TypeOK /\ r \in RunState
  BY DEF RInv, TypeOK
<1>1. LoopGoesOn
  BY <1>0, QuietGoesOn
<1> DEFINE ordinary == TurnDue
<1>2. /\ pc = "decide" /\ todo = <<>> /\ todo' = <<>> /\ r.stop # "hard"
      /\ pc' = IF TurnDue \/ CompactionRequested THEN "turn" ELSE "idlecheck"
      /\ r' = [r EXCEPT !.due = FALSE, !.ordinary = ordinary]
      /\ h' = h /\ runs' = runs
  BY DEF Decide, At, bounds
<1>3. /\ r'.ordinary <=> TurnDue
      /\ r'.callModel <=> r.callModel
      /\ r'.live <=> r.live
      /\ r'.quota <=> r.quota
  <2> HIDE DEF ordinary
  <2>1. /\ r'.ordinary <=> ordinary
        /\ r'.callModel <=> r.callModel
        /\ r'.live <=> r.live
        /\ r'.quota <=> r.quota
    BY <1>0, <1>2, ZenonT(60) DEF RunState
  <2> QED BY <2>1 DEF ordinary
<1>4. r.callModel => r.due
  BY <1>2 DEF AskInv, TurnsComeDue
<1>5. Compacting' <=> Compacting
  BY <1>2, <1>3 DEF Compacting
<1>6. TurnsComeDue'
  <2>1. pc' = "turn" /\ ~r'.ordinary => ~r'.callModel /\ ~r'.live
    BY <1>2, <1>3, <1>4 DEF TurnDue, CompactionRequested, Compacting
  <2>2. pc' = "idlecheck" /\ r'.callModel => r'.quota \/ Compacting'
    BY <1>2, <1>3, <1>4, <1>5 DEF TurnDue
  <2> QED BY <1>2, <2>1, <2>2 DEF TurnsComeDue
<1>7. FirstRun'
  BY <1>0, <1>1, <1>2, GoesOnFirst DEF AskInv
<1>8. AsksAgain'
  <2>1. Asking => Asking'
    <3>1. Asking => Owed
      BY <1>2 DEF Asking, Owing
    <3>2. Owed => Owed'
      BY <1>1, OwedStays
    <3>3. pc' = "turn" /\ Owed' => r'.ordinary
      BY <1>6 DEF TurnsComeDue, Owed
    <3> QED BY <1>2, <3>1, <3>2, <3>3 DEF Asking, Owing
  <2>2. (FailedLast(log') => FailedLast(log)) /\ Up /\ Up'
    BY <1>0, <1>1, NoResponseKeeps DEF LoopGoesOn, Up, Loop
  <2> QED BY <1>2, <2>1, <2>2 DEF AskInv, AsksAgain
<1> QED BY <1>6, <1>7, <1>8 DEF AskInv

\* In a loop that started, what was first is past.
LEMMA StartedFirst ==
  ASSUME FirstRun, Up, runs' = runs, pc' \notin {"replay", "start"}, r'.started
  PROVE  FirstRun'
BY DEF FirstRun, Up, Down

LEMMA NothingFailed ==
  ASSUME FirstRun, Up, ~r.started
  PROVE  runs = 1 => ~FailedLast(log)
BY NoneOwnNoneFailed DEF FirstRun

LEMMA RestoringAsks ==
  ASSUME RInv, AskInv, ReplayItem \/ Restore
  PROVE  AskInv'
<1>0. TypeOK /\ Fresh /\ r = NewRun
  BY DEF RInv, Fresh, ReplayItem, Restore
<1>1. pc = "replay" /\ pc' \in {"replay", "schedule"} /\ log' = log /\ runs' = runs /\ Up /\ Up'
  BY DEF ReplayItem, Restore, durable, bounds, Up, Down
<1>2. ~r.started /\ ~r'.started
  <2>1. ~r.started
    BY <1>0 DEF NewRun
  <2>2. CASE Restore
    BY <1>0, <2>1, <2>2, OtherRunGoesOn DEF RunGoesOn
  <2>3. CASE ReplayItem
    BY <2>1, <2>3 DEF ReplayItem
  <2> QED BY <2>1, <2>2, <2>3
<1>3. FirstRun'
  BY <1>1, <1>2 DEF AskInv, FirstRun, Up, Down
<1>4. TurnsComeDue'
  BY <1>1, NothingComesDue
<1>5. AsksAgain'
  BY <1>1, <1>2, NothingFailed DEF AskInv, AsksAgain
<1> QED BY <1>3, <1>4, <1>5 DEF AskInv

LEMMA StartLoopAsks ==
  ASSUME RInv, AskInv, StartLoop
  PROVE  AskInv'
<1>0. TypeOK /\ r \in RunState
  BY DEF RInv, TypeOK
<1> DEFINE call == r.due \/ Pending(h) > 0
<1>1. /\ pc = "start" /\ pc' = IF call THEN "turn" ELSE "select"
      /\ r' = [r EXCEPT !.started = TRUE, !.due = FALSE, !.statuses = {}, !.ordinary = call]
      /\ log' = log /\ runs' = runs /\ todo' = <<>>
  BY DEF StartLoop, At, durable, bounds
<1>2. r'.started /\ (r'.ordinary <=> call)
  <2> HIDE DEF call
  <2> QED BY <1>0, <1>1, ZenonT(60) DEF RunState
<1>3. Up /\ Up' /\ ~r.started
  BY <1>1 DEF Up, Down, AskInv, FirstRun
<1>4. TurnsComeDue'
  BY <1>1, <1>2 DEF TurnsComeDue
<1>5. FirstRun'
  BY <1>1, <1>2, <1>3, StartedFirst DEF AskInv
<1>6. AsksAgain'
  BY <1>1, <1>3, NothingFailed DEF AskInv, AsksAgain
<1> QED BY <1>4, <1>5, <1>6 DEF AskInv

LEMMA AnswersAsk ==
  ASSUME LInv, AskInv, AnswerArrives \/ SummaryArrives
  PROVE  AskInv'
<1>0. TypeOK /\ r \in RunState /\ log \in Seq(Items)
  BY DEF LInv, RInv, TypeOK
<1>1. pc = "select" /\ runs' = runs /\ Up /\ r.started
  BY DEF AnswerArrives, SummaryArrives, At, Up, Down, LInv, HasStarted, Loop, Labels
<1>2. r'.started
  BY <1>0, <1>1, OtherRunGoesOn DEF RunGoesOn
<1>3. pc' \in {"schedule", "checkpoint", "inputs"} /\ Up'
  BY DEF AnswerArrives, SummaryArrives, Up, Down
<1>4. FirstRun'
  BY <1>1, <1>2, <1>3, StartedFirst DEF AskInv
<1>5. TurnsComeDue'
  BY <1>3, NothingComesDue
<1>6. CASE AnswerArrives
  <2> PICK n \in flying, calls \in SUBSET {c \in Calls : h.calls[c] = "none"},
           ending \in {"whole", "empty", "cut", "refused", "failed"} :
             /\ Record(ResponseItem(n, calls, ending))
             /\ r' = [r EXCEPT !.live = FALSE, !.quotaWaits = 0, !.ending = ending,
                               !.statuses = {}, !.due = FALSE]
    BY <1>6, Zenon DEF AnswerArrives
  <2> DEFINE item == ResponseItem(n, calls, ending)
  <2>1. item \in Items
    <3>1. n \in Nat /\ ending \in Endings
      BY <1>0 DEF TypeOK, Endings
    <3> QED BY <3>1, ItemTypes
  <2>2. item.kind = "response" /\ item.ending = ending /\ log' = Append(log, item)
    BY DEF ResponseItem, Record
  <2>3. r'.ending = ending
    BY <1>0, ZenonT(60) DEF RunState
  <2>4. pc' = "schedule"
    BY <1>6 DEF AnswerArrives
  <2> HIDE DEF item
  <2>5. FailedLast(log') => r'.ending = "failed"
    BY <1>0, <2>1, <2>2, <2>3, ResponsesOfOwn
  <2>6. AsksAgain'
    BY <1>3, <2>4, <2>5 DEF AsksAgain, Asking
  <2> QED BY <1>4, <1>5, <2>6 DEF AskInv
<1>7. CASE SummaryArrives
  <2> PICK n \in flying, ending \in {"summary", "nosummary"} : Record(ResponseItem(n, {}, ending))
    BY <1>7, Zenon DEF SummaryArrives
  <2> DEFINE item == ResponseItem(n, {}, ending)
  <2>1. item \in Items
    <3>1. n \in Nat /\ ending \in Endings
      BY <1>0 DEF TypeOK, Endings
    <3> QED BY <3>1, ItemTypes
  <2>2. item.kind = "response" /\ item.ending # "failed" /\ log' = Append(log, item)
    BY DEF ResponseItem, Record
  <2> HIDE DEF item
  <2>3. ~FailedLast(log')
    BY <1>0, <2>1, <2>2, ResponsesOfOwn
  <2>4. AsksAgain'
    BY <2>3 DEF AsksAgain
  <2> QED BY <1>4, <1>5, <2>4 DEF AskInv
<1> QED BY <1>6, <1>7

LEMMA QuotaRefusesAsks ==
  ASSUME LInv, AskInv, QuotaRefuses
  PROVE  AskInv'
<1>0. TypeOK /\ r \in RunState
  BY DEF LInv, RInv, TypeOK
<1> PICK n \in flying :
      /\ ~Stale(n)
      /\ r' = [r EXCEPT !.live = FALSE, !.quotaWaits = @ + 1, !.quota = TRUE,
                        !.compact = @ \/ n \in h.compactionTurns,
                        !.callModel = @ \/ n \notin h.compactionTurns]
  BY Zenon DEF QuotaRefuses
<1>1. /\ pc = "select" /\ pc' = "inputs" /\ log' = log /\ runs' = runs
      /\ n = h.turn /\ r.live
  BY DEF QuotaRefuses, At, durable, Stale
<1>2. Up /\ Up' /\ r.started
  BY <1>1 DEF Up, Down, LInv, HasStarted, Loop, Labels
<1>3. r'.started /\ (r.stop = "hard" => r'.stop = "hard")
  BY <1>0, <1>2, LoopRunGoesOn DEF RunGoesOn
<1>4. r'.callModel <=> (r.callModel \/ n \notin h.compactionTurns)
  <2> DEFINE compact == r.compact \/ n \in h.compactionTurns
             callModel == r.callModel \/ n \notin h.compactionTurns
             waits == r.quotaWaits + 1
  <2>1. r' = [r EXCEPT !.live = FALSE, !.quotaWaits = waits, !.quota = TRUE,
                       !.compact = compact, !.callModel = callModel]
    BY Zenon
  <2> HIDE DEF compact, callModel, waits
  <2>2. r'.callModel = callModel
    BY <1>0, <2>1, ZenonT(60) DEF RunState
  <2> QED BY <2>2 DEF callModel
<1>5. FirstRun'
  BY <1>1, <1>2, <1>3, StartedFirst DEF AskInv
<1>6. TurnsComeDue'
  BY <1>1, NothingComesDue
<1>7. Asking => Asking'
  BY <1>1, <1>3, <1>4 DEF Asking, Owing, Owed, Compacting
<1>8. AsksAgain'
  BY <1>1, <1>2, <1>7 DEF AskInv, AsksAgain
<1> QED BY <1>5, <1>6, <1>8 DEF AskInv

LEMMA AskingAsks ==
  ASSUME LInv, AskInv, AnswerOverflows \/ BeginCompaction \/ BeginTurn
  PROVE  AskInv'
<1>0. TypeOK /\ r \in RunState /\ h \in DerivedState
  BY DEF LInv, RInv, TypeOK
<1>1. /\ pc \in {"select", "turn", "begin"} /\ pc' \in {"select", "inputs"} /\ runs' = runs
      /\ Up /\ Up'
  BY DEF AnswerOverflows, BeginCompaction, BeginTurn, At, Up, Down, bounds
<1>2. r.started
  BY <1>1 DEF LInv, HasStarted, Loop, Labels, Down
<1>3. NoResponse
  <2>1. PICK compaction \in BOOLEAN : AskStep(compaction)
    BY <1>0, AskSteps
  <2>2. TurnItem(h.turn + 1, compaction).kind # "response"
    BY <1>0, TurnItems
  <2>3. TurnItem(h.turn + 1, compaction) \in Items
    BY <1>0, TurnItems
  <2> QED BY <2>1, <2>2, <2>3 DEF AskStep, NoResponse
<1>4. /\ r'.started /\ r'.stop = r.stop
      /\ pc # "begin" /\ (r.callModel \/ pc = "select" \/ r.ordinary) => r'.callModel
      /\ pc = "begin" => r'.live
  <2>1. CASE AnswerOverflows
    <3>1. r' = [r EXCEPT !.live = TRUE, !.cutdowns = 0, !.compact = FALSE, !.callModel = TRUE]
      <4>1. r' = [Send(r) EXCEPT !.compact = FALSE, !.callModel = TRUE]
        BY <2>1, Zenon DEF AnswerOverflows
      <4> QED BY <1>0, <4>1, ZenonT(60) DEF Send, RunState
    <3>2. r'.started = r.started /\ r'.stop = r.stop /\ r'.callModel
      BY <1>0, <3>1, ZenonT(60) DEF RunState
    <3>3. pc = "select"
      BY <2>1 DEF AnswerOverflows, At
    <3> QED BY <1>2, <3>2, <3>3
  <2>2. CASE BeginCompaction
    <3> DEFINE callModel == r.callModel \/ r.ordinary
               grace == IF r.ordinary THEN {} ELSE r.grace
    <3>1. r' = [r EXCEPT !.live = TRUE, !.cutdowns = 0, !.compact = FALSE,
                         !.callModel = callModel, !.grace = grace]
      <4>1. r' = [Send(r) EXCEPT !.compact = FALSE, !.callModel = @ \/ r.ordinary,
                                 !.grace = IF r.ordinary THEN {} ELSE @]
        BY <2>2, Zenon DEF BeginCompaction
      <4> QED BY <1>0, <4>1, ZenonT(60) DEF Send, RunState
    <3>2. pc = "turn"
      BY <2>2 DEF BeginCompaction, At
    <3>3. r.callModel \/ r.ordinary => callModel
      OBVIOUS
    <3> HIDE DEF callModel, grace
    <3>4. r'.started = r.started /\ r'.stop = r.stop /\ r'.callModel = callModel
      BY <1>0, <3>1, ZenonT(60) DEF RunState
    <3> QED BY <1>2, <3>2, <3>3, <3>4
  <2>3. CASE BeginTurn
    <3>1. r' = [r EXCEPT !.live = TRUE, !.cutdowns = 0, !.callModel = FALSE, !.grace = {},
                         !.freshStop = FALSE]
      <4>1. r' = [Send(r) EXCEPT !.callModel = FALSE, !.grace = {}, !.freshStop = FALSE]
        BY <2>3, Zenon DEF BeginTurn
      <4> QED BY <1>0, <4>1, ZenonT(60) DEF Send, RunState
    <3>2. r'.started = r.started /\ r'.stop = r.stop /\ r'.live
      BY <1>0, <3>1, ZenonT(60) DEF RunState
    <3>3. pc = "begin"
      BY <2>3 DEF BeginTurn, At
    <3> QED BY <1>2, <3>2, <3>3
  <2> QED BY <2>1, <2>2, <2>3
<1>5. pc = "begin" => ~Compacting'
  <2> SUFFICES ASSUME pc = "begin" PROVE ~Compacting'
    OBVIOUS
  <2>1. h' = AddItem(h, TurnItem(h.turn + 1, FALSE))
    BY DEF AnswerOverflows, BeginCompaction, BeginTurn, Record, At
  <2>2. h'.turn \notin h'.compactionTurns
    BY <1>0, <2>1, TurnAsked
  <2> QED BY <2>2 DEF Compacting
<1>6. FirstRun'
  BY <1>1, <1>4, StartedFirst DEF AskInv
<1>7. TurnsComeDue'
  BY <1>1, NothingComesDue
<1>8. Asking => Asking'
  BY <1>1, <1>4, <1>5 DEF Asking, Owing, Owed
<1>9. AsksAgain'
  BY <1>0, <1>1, <1>3, <1>8, NoResponseKeeps DEF AskInv, AsksAgain
<1> QED BY <1>6, <1>7, <1>9 DEF AskInv

\* Of an answer that failed only that it did is known until it is asked again.
LEMMA AfterAnswerAsks ==
  ASSUME LInv, AskInv,
         CountTurn \/ AnswerStands \/ AnswerCut \/ AnswerRefused \/ AnswerWhole
  PROVE  AskInv'
<1>0. TypeOK /\ r \in RunState
  BY DEF LInv, RInv, TypeOK
<1>1. /\ pc \in {"count", "answer"} /\ pc' \in {"answer", "dispatch", "verify"}
      /\ log' = log /\ runs' = runs /\ Up /\ Up'
  BY DEF CountTurn, AnswerStands, AnswerCut, AnswerRefused, AnswerWhole, Recovers, At, durable,
         bounds, Up, Down
<1>2. r.started
  BY <1>1 DEF LInv, HasStarted, Loop, Labels, Down
<1>3. r'.started /\ (r.stop = "hard" => r'.stop = "hard")
  BY <1>0, <1>2, LoopRunGoesOn DEF RunGoesOn
<1>4. FirstRun'
  BY <1>1, <1>3, StartedFirst DEF AskInv
<1>5. TurnsComeDue'
  BY <1>1, NothingComesDue
<1>6. CASE CountTurn
  <2> DEFINE stop == IF FinalReport THEN "hard" ELSE r.stop
             turns == r.turns + 1
             due == r.due
  <2>1. r' = [r EXCEPT !.turns = turns, !.callModel = due, !.due = FALSE, !.stop = stop]
    BY <1>6, Zenon DEF CountTurn
  <2> HIDE DEF stop, turns, due
  <2>2. r'.ending = r.ending
    BY <1>0, <2>1, ZenonT(60) DEF RunState
  <2>3. pc = "count" /\ pc' = "answer"
    BY <1>6 DEF CountTurn, At
  <2>4. Asking => Asking'
    BY <1>3, <2>2, <2>3 DEF Asking, Owing
  <2>5. AsksAgain'
    BY <1>1, <2>4 DEF AskInv, AsksAgain
  <2> QED BY <1>4, <1>5, <2>5 DEF AskInv
<1>7. CASE AnswerStands \/ AnswerCut \/ AnswerRefused \/ AnswerWhole
  <2>1. pc = "answer" /\ (r.ending = "failed" => r.stop = "hard" \/ NoRecovery)
    BY <1>7 DEF AnswerStands, AnswerCut, AnswerRefused, AnswerWhole, Recovers, At
  <2>2. ~NoRecovery /\ Asking => Asking'
    BY <1>3, <2>1 DEF Asking, Owing
  <2>3. AsksAgain'
    BY <1>1, <2>2 DEF AskInv, AsksAgain
  <2> QED BY <1>4, <1>5, <2>3 DEF AskInv
<1> QED BY <1>6, <1>7

LEMMA ExitAsks ==
  ASSUME AskInv, Up, NEW how \in Down, Exit(how), how = "idle" => (runs = 1 /\ ~NoRecovery => ~FailedLast(log))
  PROVE  AskInv'
<1>1. pc' = how /\ ~Up' /\ log' = log /\ runs' = runs
  BY DEF Exit, Up, durable
<1>2. how \notin {"replay", "start", "decide", "turn", "idlecheck"}
  BY DEF Down
<1>3. FirstRun'
  BY <1>1, <1>2 DEF AskInv, FirstRun, Up, Down
<1>4. TurnsComeDue'
  BY <1>1, <1>2, NothingComesDue
<1>5. AsksAgain'
  BY <1>1 DEF AskInv, AsksAgain
<1> QED BY <1>3, <1>4, <1>5 DEF AskInv

LEMMA EndsAsk ==
  ASSUME LInv, AskInv,
         Crash \/ RequestFails \/ AnswerFailed \/ AwaitCancellation \/ StopWhenIdle
  PROVE  AskInv'
<1>0. TypeOK /\ r \in RunState
  BY DEF LInv, RInv, TypeOK
<1>1. Up
  BY DEF Crash, RequestFails, AnswerFailed, Recovers, AwaitCancellation, StopWhenIdle, At, Up, Down
<1>2. ASSUME NEW how \in Down \ {"idle"}, Exit(how) PROVE AskInv'
  BY <1>1, <1>2, ExitAsks
<1>3. CASE Crash \/ RequestFails
  BY <1>2, <1>3 DEF Crash, RequestFails, Down
<1>4. CASE AnswerFailed
  <2>1. CASE Exit("failed")
    BY <1>2, <2>1 DEF Down
  <2>2. CASE ~Exit("failed")
    <3>1. /\ r' = [r EXCEPT !.step = StepCalls, !.failures = @ + 1, !.callModel = TRUE]
          /\ pc = "answer" /\ pc' = "dispatch" /\ log' = log /\ runs' = runs
      BY <1>4, <2>2 DEF AnswerFailed, Recovers, At, durable, bounds
    <3>2. r'.started = r.started /\ r'.callModel
      BY <1>0, <3>1, ZenonT(60) DEF RunState
    <3>3. r.started
      BY <3>1 DEF LInv, HasStarted, Loop, Labels, Down
    <3>4. FirstRun'
      BY <1>1, <3>1, <3>2, <3>3, StartedFirst DEF AskInv
    <3>5. TurnsComeDue'
      BY <3>1, NothingComesDue
    <3>6. AsksAgain'
      BY <3>1, <3>2 DEF AsksAgain, Asking, Owing, Owed, Up, Down
    <3> QED BY <3>4, <3>5, <3>6 DEF AskInv
  <2> QED BY <2>1, <2>2
<1>5. CASE AwaitCancellation
  <2>1. CASE Exit("stopped")
    BY <1>2, <2>1 DEF Down
  <2>2. CASE ~Exit("stopped")
    <3>1. /\ pc = "decide" /\ pc' = "select" /\ r.stop = "hard" /\ UNCHANGED <<log, h, r, runs>>
      BY <1>5, <2>2 DEF AwaitCancellation, At, durable, bounds
    <3>2. FirstRun'
      BY <3>1 DEF AskInv, FirstRun, Up, Down
    <3>3. TurnsComeDue'
      BY <3>1, NothingComesDue
    <3>4. AsksAgain'
      BY <3>1 DEF AsksAgain, Asking, Up, Down
    <3> QED BY <3>2, <3>3, <3>4 DEF AskInv
  <2> QED BY <2>1, <2>2
<1>6. CASE StopWhenIdle
  <2>1. CASE Exit("idle")
    <3>1. pc = "idlecheck" /\ r.stop = "idle" /\ IsIdle
      <4>1. CASE r.stop = "idle" /\ IsIdle
        BY <1>6, <4>1 DEF StopWhenIdle, At
      <4>2. CASE ~(r.stop = "idle" /\ IsIdle)
        <5>1. pc' = "select" /\ pc' = "idle"
          BY <1>6, <2>1, <4>2 DEF StopWhenIdle, Exit
        <5> QED BY <5>1
      <4> QED BY <4>1, <4>2
    <3>2. ~Asking
      BY <3>1 DEF AskInv, TurnsComeDue, Asking, Owed, Compacting, IsIdle
    <3>3. runs = 1 /\ ~NoRecovery => ~FailedLast(log)
      BY <1>1, <3>2 DEF AskInv, AsksAgain
    <3> QED BY <1>1, <2>1, <3>3, ExitAsks DEF Down
  <2>2. CASE ~Exit("idle")
    <3>1. pc = "idlecheck" /\ pc' = "select" /\ UNCHANGED <<log, h, r, runs>>
      BY <1>6, <2>2 DEF StopWhenIdle, At, durable, bounds
    <3>2. FirstRun'
      BY <3>1 DEF AskInv, FirstRun, Up, Down
    <3>3. TurnsComeDue'
      BY <3>1, NothingComesDue
    <3>4. AsksAgain'
      BY <3>1 DEF AskInv, AsksAgain, Asking, Owing, Owed, Compacting, Up, Down
    <3> QED BY <3>2, <3>3, <3>4 DEF AskInv
  <2> QED BY <2>1, <2>2
<1> QED BY <1>3, <1>4, <1>5, <1>6

LEMMA TurningAsks ==
  ASSUME LInv, AskInv, CancelOperations \/ DropCompaction \/ TellFirst
  PROVE  AskInv'
<1>0. TypeOK /\ r \in RunState
  BY DEF LInv, RInv, TypeOK
<1>1. /\ log' = log /\ runs' = runs /\ Up /\ Up' /\ todo = <<>>
      /\ pc \in {"decide", "turn"} /\ pc' \in {"decide", "idlecheck", "begin"}
  BY DEF CancelOperations, DropCompaction, TellFirst, At, durable, bounds, Up, Down
<1>2. r.started
  BY <1>1 DEF LInv, HasStarted, Loop, Labels, Down
<1>3. CASE CancelOperations
  <2>1. /\ r' = [r EXCEPT !.live = FALSE, !.cancelled = TRUE, !.due = FALSE]
        /\ r.stop = "hard" /\ pc' = "decide"
    BY <1>3 DEF CancelOperations, At
  <2>2. r'.started = r.started /\ r'.stop = r.stop
    BY <1>0, <2>1, ZenonT(60) DEF RunState
  <2>3. FirstRun'
    BY <1>1, <1>2, <2>1, <2>2, StartedFirst DEF AskInv
  <2>4. TurnsComeDue' /\ AsksAgain'
    BY <1>1, <2>1, <2>2 DEF TurnsComeDue, AsksAgain, Asking
  <2> QED BY <2>3, <2>4 DEF AskInv
<1>4. CASE DropCompaction
  <2>1. /\ r' = [r EXCEPT !.live = FALSE, !.compact = FALSE]
        /\ pc = "turn" /\ pc' = "idlecheck" /\ ~r.ordinary /\ todo' = <<>>
    BY <1>4 DEF DropCompaction, At
  <2>2. r'.started = r.started /\ r'.stop = r.stop /\ r'.callModel = r.callModel
    BY <1>0, <2>1, ZenonT(60) DEF RunState
  <2>3. FirstRun'
    BY <1>1, <1>2, <2>1, <2>2, StartedFirst DEF AskInv
  <2>4. TurnsComeDue'
    BY <2>1, <2>2 DEF AskInv, TurnsComeDue
  <2>5. Asking => Asking'
    BY <2>1, <2>2 DEF Asking, Owing
  <2>6. AsksAgain'
    BY <1>1, <2>5 DEF AskInv, AsksAgain
  <2> QED BY <2>3, <2>4, <2>6 DEF AskInv
<1>5. CASE TellFirst
  <2>1. r' = [r EXCEPT !.live = FALSE, !.compact = FALSE, !.notesChecked = TRUE]
    BY <1>5, Zenon DEF TellFirst
  <2>2. pc' = "begin"
    BY <1>5 DEF TellFirst
  <2>3. r'.started = r.started
    BY <1>0, <2>1, ZenonT(60) DEF RunState
  <2>4. FirstRun'
    BY <1>1, <1>2, <2>2, <2>3, StartedFirst DEF AskInv
  <2>5. TurnsComeDue'
    BY <2>2, NothingComesDue
  <2>6. AsksAgain'
    BY <1>1, <2>2 DEF AsksAgain, Asking
  <2> QED BY <2>4, <2>5, <2>6 DEF AskInv
<1> QED BY <1>3, <1>4, <1>5

LEMMA StartAsks ==
  ASSUME RInv, AskInv, Start
  PROVE  AskInv'
<1>1. /\ ~Up /\ pc' = "replay" /\ runs \in Nat /\ runs' = runs + 1 /\ log' = log /\ r' = r
  BY DEF Start, durable, RInv, TypeOK
<1>2. ~r'.started
  BY <1>1 DEF RInv, Fresh, Up, NewRun
<1>3. runs' = 1 => NoneOwn(log')
  <2> SUFFICES ASSUME runs' = 1 PROVE NoneOwn(log')
    OBVIOUS
  <2>1. log' = Inherited
    BY <1>1 DEF AskInv, FirstRun
  <2>2. DOMAIN Inherited = 1 .. Len(Inherited) /\ Len(Inherited) \in Nat
    BY CoordinatorAssumption, LenProperties
  <2> QED BY <2>1, <2>2 DEF NoneOwn, Own
<1>4. FirstRun'
  BY <1>1, <1>2, <1>3 DEF FirstRun
<1>5. TurnsComeDue'
  BY <1>1, NothingComesDue
<1>6. AsksAgain'
  BY <1>3, NoneOwnNoneFailed DEF AsksAgain
<1> QED BY <1>4, <1>5, <1>6 DEF AskInv

LEMMA OutsideAsks ==
  ASSUME AskInv,
         Submit \/ OperationAwaits \/ (\E o \in Ops : OperationEnds(o)) \/ UNCHANGED vars
  PROVE  AskInv'
<1>1. UNCHANGED <<log, pc, h, r, todo, runs>>
  BY DEF Submit, OperationAwaits, OperationEnds, vars, durable, bounds
<1> QED BY <1>1 DEF AskInv, FirstRun, TurnsComeDue, AsksAgain, Asking, Owed, Compacting, Up

LEMMA StepKeepsAsking == LInv /\ AskInv /\ [Next]_vars => AskInv'
<1> SUFFICES ASSUME LInv, AskInv, [Next]_vars PROVE AskInv'
  OBVIOUS
<1>0. RInv
  BY DEF LInv
<1>1. CASE Working
  BY <1>0, <1>1, EventsAsk, RecordInputAsks, RoundAsks, ProcessDueAsks, DecideAsks, RestoringAsks,
     StartLoopAsks, AskingAsks, AfterAnswerAsks, EndsAsk, TurningAsks, ZenonT(60) DEF Working
<1>2. CASE ModelResults
  BY <1>0, <1>2, EventsAsk, AnswersAsk, QuotaRefusesAsks, AskingAsks, EndsAsk, ZenonT(60)
     DEF ModelResults
<1>3. CASE Start \/ Crash \/ Submit \/ OperationAwaits \/ (\E o \in Ops : OperationEnds(o))
           \/ UNCHANGED vars
  BY <1>0, <1>3, StartAsks, EndsAsk, OutsideAsks
<1>4. CASE TakeInput \/ TakeUpdate \/ Timers
  BY <1>0, <1>4, EventsAsk
<1> QED BY <1>1, <1>2, <1>3, <1>4 DEF Next

LEMMA InitAsks == Init => AskInv
<1> SUFFICES ASSUME Init PROVE AskInv
  OBVIOUS
<1>1. pc = "new" /\ log = Inherited /\ runs = 0
  BY DEF Init
<1> QED BY <1>1 DEF AskInv, FirstRun, TurnsComeDue, AsksAgain

LEMMA AskingInvariant == Spec => []AskInv
<1>1. LInv /\ AskInv /\ [Next]_vars => AskInv'
  BY StepKeepsAsking
<1> QED BY <1>1, InitAsks, LifeInvariant, PTL DEF Spec

\* A first run that recovers from faults does not go idle on an answer that
\* failed: it asks again, however the limits, compactions, stops and late
\* results come between (answerStop).
THEOREM FailuresAreAskedAgain == Spec => []IdleAfterAnswer
<1>1. LInv /\ AskInv => IdleAfterAnswer
  <2> SUFFICES ASSUME LInv, AskInv, pc = "idle", runs = 1, ~NoRecovery,
                      NEW i \in OwnResponses, log[i].ending = "failed",
                      \A k \in OwnResponses : ~(k > i)
               PROVE  FALSE
    BY DEF IdleAfterAnswer
  <2>1. ~FailedLast(log)
    BY DEF AskInv, AsksAgain, Up, Down
  <2>2. i \in DOMAIN log /\ Own(i) /\ log[i].kind = "response"
    BY DEF OwnResponses, Responses, Own
  <2>t. log \in Seq(Items) /\ DOMAIN log \subseteq Nat /\ Len(Inherited) \in Nat
    <3>1. log \in Seq(Items)
      BY DEF LInv, RInv, TypeOK
    <3> QED BY <3>1, LenProperties, CoordinatorAssumption
  <2>3. \A j \in DOMAIN log : j > i => log[j].kind # "response"
    <3> SUFFICES ASSUME NEW j \in DOMAIN log, j > i, log[j].kind = "response" PROVE FALSE
      OBVIOUS
    <3>1. j > Len(Inherited)
      BY <2>2, <2>t DEF Own
    <3> QED BY <3>1 DEF OwnResponses, Responses
  <2> QED BY <2>1, <2>2, <2>3 DEF FailedLast
<1> QED BY <1>1, LifeInvariant, AskingInvariant, PTL

-----------------------------------------------------------------------------
(* Only prompts cut an answer short *)

\* A turn may be recorded next: the one before it was answered, or is cut short by a prompt.
MayInterrupt(items) ==
  \A k \in DOMAIN items : Unanswered(items, k) =>
    /\ ~items[k].compaction
    /\ \E j \in DOMAIN items : j > k /\ IsPrompt(items[j])

\* Without a request in flight it may, unless the run is being stopped,
RestingMay == pc \in Loop /\ ~r.live /\ r.stop # "hard" => MayInterrupt(log)

\* it may where one is recorded next, and before the loop starts,
TurnMay == pc \in Loop /\ (pc \in {"turn", "begin"} \/ ~r.started) => MayInterrupt(log)

\* and so it may, or soon will, when one is asked for during a request.
PromptWaits == \E i \in DOMAIN todo : todo[i] \in External \ AfterTools
TurnAskedFor ==
  r.callModel \/ (pc = "decide" /\ r.due) \/ (\E i \in DOMAIN todo : todo[i] \in External)
AskedMay ==
  pc \in Loop /\ r.live /\ ~Compacting /\ TurnAskedFor => MayInterrupt(log) \/ PromptWaits

\* The loop knows whether the request in flight is a compaction's.
KindIsKnown ==
  pc \in Loop /\ r.live =>
    \A k \in DOMAIN log : Unanswered(log, k) =>
      (log[k].compaction <=> h.turn \in h.compactionTurns)

AnsweredInv ==
  /\ PromptsInterrupt(log)
  /\ pc = "replay" => MayInterrupt(log)
  /\ RestingMay /\ TurnMay /\ AskedMay /\ KindIsKnown
  /\ pc \in {"schedule", "count", "answer"} => ~r.live

\* One more item leaves no earlier turn unanswered that was not.
LEMMA UnansweredOfAppend ==
  ASSUME NEW items \in Seq(Items), NEW item \in Items,
         NEW i \in DOMAIN Append(items, item), Unanswered(Append(items, item), i)
  PROVE  IF i = Len(items) + 1 THEN IsTurn(item)
         ELSE /\ i \in DOMAIN items /\ items[i] = Append(items, item)[i] /\ Unanswered(items, i)
              /\ ~IsTurn(item) /\ item.kind # "response"
<1> DEFINE more == Append(items, item)
           n == Len(items)
<1>1. /\ n \in Nat /\ DOMAIN items = 1 .. n /\ DOMAIN more = 1 .. n + 1
      /\ \A j \in 1 .. n : more[j] = items[j]
      /\ more[n + 1] = item
  BY AppendProperties, LenProperties
<1>2. i \in DOMAIN more /\ Unanswered(more, i)
  OBVIOUS
<1> HIDE DEF more, n
<1>3. CASE i # n + 1
  <2>1. i \in DOMAIN items /\ items[i] = more[i]
    BY <1>1, <1>2, <1>3
  <2>2. \A j \in DOMAIN items : j \in DOMAIN more /\ more[j] = items[j]
    BY <1>1
  <2>3. n + 1 \in DOMAIN more /\ n + 1 > i
    BY <1>1, <2>1
  <2>4. Unanswered(items, i) /\ ~IsTurn(item) /\ item.kind # "response"
    BY <1>1, <1>2, <2>1, <2>2, <2>3, Zenon DEF Unanswered
  <2> QED BY <1>3, <2>1, <2>4 DEF more, n
<1>4. CASE i = n + 1
  BY <1>1, <1>2, <1>4 DEF Unanswered, n
<1> QED BY <1>3, <1>4 DEF n

\* What one more item changes.
LEMMA TurnsOfAppend ==
  ASSUME NEW items \in Seq(Items), NEW item \in Items
  PROVE  LET more == Append(items, item) IN
           /\ PromptsInterrupt(items) /\ (~IsTurn(item) \/ MayInterrupt(items)) => PromptsInterrupt(more)
           /\ ~IsTurn(item) /\ MayInterrupt(items) => MayInterrupt(more)
           /\ item.kind = "response" => MayInterrupt(more)
           /\ IsPrompt(item) /\ (\A k \in DOMAIN items : Unanswered(items, k) => ~items[k].compaction)
                /\ ~IsTurn(item) => MayInterrupt(more)
<1> DEFINE more == Append(items, item)
           n == Len(items)
<1>1. /\ n \in Nat /\ DOMAIN items = 1 .. n /\ DOMAIN more = 1 .. n + 1
      /\ \A i \in 1 .. n : more[i] = items[i]
      /\ more[n + 1] = item
  BY AppendProperties, LenProperties
<1> HIDE DEF more, n
<1>2. ASSUME NEW i \in DOMAIN more, Unanswered(more, i), i # n + 1
      PROVE  i \in DOMAIN items /\ items[i] = more[i] /\ Unanswered(items, i)
             /\ ~IsTurn(item) /\ item.kind # "response"
  BY <1>2, UnansweredOfAppend DEF more, n
<1>3. ASSUME NEW i \in DOMAIN items, \E j \in DOMAIN items : j > i /\ IsPrompt(items[j])
      PROVE  \E j \in DOMAIN more : j > i /\ IsPrompt(more[j])
  <2>1. \A j \in DOMAIN items : j \in DOMAIN more /\ more[j] = items[j]
    BY <1>1
  <2> QED BY <1>3, <2>1, Zenon
<1>4. ~IsTurn(item) => ~Unanswered(more, n + 1)
  BY <1>1 DEF Unanswered
<1>5. ASSUME ~IsTurn(item), MayInterrupt(items) PROVE MayInterrupt(more)
  <2> SUFFICES ASSUME NEW k \in DOMAIN more, Unanswered(more, k)
               PROVE  ~more[k].compaction /\ \E j \in DOMAIN more : j > k /\ IsPrompt(more[j])
    BY DEF MayInterrupt
  <2>1. k # n + 1
    BY <1>4, <1>5
  <2>2. k \in DOMAIN items /\ items[k] = more[k] /\ Unanswered(items, k)
    BY <1>2, <2>1
  <2> QED BY <1>3, <1>5, <2>2 DEF MayInterrupt
<1>6. ASSUME item.kind = "response" PROVE MayInterrupt(more)
  <2>1. ~IsTurn(item)
    BY <1>6 DEF IsTurn
  <2> QED BY <1>2, <1>4, <1>6, <2>1 DEF MayInterrupt
<1>7. ASSUME IsPrompt(item), ~IsTurn(item),
             \A k \in DOMAIN items : Unanswered(items, k) => ~items[k].compaction
      PROVE  MayInterrupt(more)
  <2> SUFFICES ASSUME NEW k \in DOMAIN more, Unanswered(more, k)
               PROVE  ~more[k].compaction /\ \E j \in DOMAIN more : j > k /\ IsPrompt(more[j])
    BY DEF MayInterrupt
  <2>1. k # n + 1
    BY <1>4, <1>7
  <2>2. k \in DOMAIN items /\ items[k] = more[k] /\ Unanswered(items, k)
    BY <1>2, <2>1
  <2>3. n + 1 \in DOMAIN more /\ n + 1 > k /\ IsPrompt(more[n + 1])
    BY <1>1, <1>7, <2>2
  <2> QED BY <1>7, <2>2, <2>3
<1>8. ASSUME PromptsInterrupt(items), ~IsTurn(item) \/ MayInterrupt(items)
      PROVE  PromptsInterrupt(more)
  <2> SUFFICES ASSUME NEW i \in DOMAIN more, NEW j \in DOMAIN more, Interrupted(more, i, j)
               PROVE  ~more[i].compaction /\ \E k \in i + 1 .. j - 1 : IsPrompt(more[k])
    BY DEF PromptsInterrupt
  <2>1. /\ i < j /\ IsTurn(more[i]) /\ IsTurn(more[j])
        /\ \A k \in i + 1 .. j - 1 : ~IsTurn(more[k]) /\ more[k].kind # "response"
    BY DEF Interrupted
  <2>2. i \in DOMAIN items /\ more[i] = items[i] /\ i \in Nat /\ j \in Nat
    BY <1>1, <2>1
  <2>3. CASE j # n + 1
    <3>1. j \in DOMAIN items /\ more[j] = items[j]
      BY <1>1, <2>3
    <3>2. \A k \in i + 1 .. j - 1 : k \in 1 .. n /\ more[k] = items[k]
      BY <1>1, <2>2, <3>1
    <3>3. Interrupted(items, i, j)
      BY <2>1, <2>2, <3>1, <3>2 DEF Interrupted
    <3>4. ~items[i].compaction /\ \E k \in i + 1 .. j - 1 : IsPrompt(items[k])
      BY <1>8, <2>2, <3>1, <3>3 DEF PromptsInterrupt
    <3> QED BY <2>2, <3>2, <3>4
  <2>4. CASE j = n + 1
    <3>1. IsTurn(item)
      BY <1>1, <2>1, <2>4
    <3>2. \A k \in DOMAIN items : k > i => k \in i + 1 .. j - 1 /\ more[k] = items[k]
      BY <1>1, <2>2, <2>4
    <3>3. Unanswered(items, i)
      BY <2>1, <2>2, <3>2 DEF Unanswered
    <3>4. ~items[i].compaction /\ \E k \in DOMAIN items : k > i /\ IsPrompt(items[k])
      BY <1>8, <2>2, <3>1, <3>3 DEF MayInterrupt
    <3> QED BY <2>2, <3>2, <3>4
  <2> QED BY <2>3, <2>4
<1> QED BY <1>5, <1>6, <1>7, <1>8 DEF more

\* What is recorded, if anything, is neither a turn nor a response.
AddsNoTurn ==
  UNCHANGED log \/ \E item \in Items : item.kind \in {"input", "status"} /\ log' = Append(log, item)

LEMMA NoTurnKeeps ==
  ASSUME log \in Seq(Items), AddsNoTurn
  PROVE  /\ PromptsInterrupt(log) => PromptsInterrupt(log')
         /\ MayInterrupt(log) => MayInterrupt(log')
         /\ \A k \in DOMAIN log' : Unanswered(log', k) =>
              k \in DOMAIN log /\ log[k] = log'[k] /\ Unanswered(log, k)
<1>1. CASE UNCHANGED log
  BY <1>1
<1>2. CASE ~UNCHANGED log
  <2> PICK item \in Items : item.kind \in {"input", "status"} /\ log' = Append(log, item)
    BY <1>2 DEF AddsNoTurn
  <2>1. ~IsTurn(item)
    BY DEF IsTurn
  <2>2. \A k \in DOMAIN log' : Unanswered(log', k) =>
          k \in DOMAIN log /\ log[k] = log'[k] /\ Unanswered(log, k)
    <3> SUFFICES ASSUME NEW k \in DOMAIN log', Unanswered(log', k)
                 PROVE  k \in DOMAIN log /\ log[k] = log'[k] /\ Unanswered(log, k)
      OBVIOUS
    <3> QED BY <2>1, UnansweredOfAppend
  <2> QED BY <2>1, <2>2, TurnsOfAppend
<1> QED BY <1>1, <1>2

\* A loop that goes on, where no turn is to be recorded before the one there
\* is may be cut short.
LEMMA GoesOnAnswered ==
  ASSUME TypeOK, AnsweredInv, LoopGoesOn, AddsNoTurn,
         pc' \in {"turn", "begin"} => pc' = pc \/ MayInterrupt(log),
         pc' \in {"schedule", "count", "answer"} => pc \in {"schedule", "count", "answer"},
         r.live /\ ~Compacting /\ TurnAskedFor' => MayInterrupt(log)' \/ PromptWaits'
  PROVE  AnsweredInv'
<1>1. /\ pc \in Loop /\ pc' \in Loop /\ pc' # "replay"
      /\ r'.started = r.started /\ (r.stop = "hard" => r'.stop = "hard") /\ r'.live = r.live
      /\ h'.turn = h.turn /\ h'.compactionTurns = h.compactionTurns
  BY DEF LoopGoesOn, RunGoesOn, RunOwes, SameTurns, Loop
<1>2. log \in Seq(Items)
  BY DEF TypeOK
<1>3. /\ PromptsInterrupt(log)'
      /\ MayInterrupt(log) => MayInterrupt(log)'
      /\ \A k \in DOMAIN log' : Unanswered(log', k) =>
           k \in DOMAIN log /\ log[k] = log'[k] /\ Unanswered(log, k)
  BY <1>2, NoTurnKeeps DEF AnsweredInv
<1>4. RestingMay'
  BY <1>1, <1>3 DEF AnsweredInv, RestingMay
<1>5. TurnMay'
  BY <1>1, <1>3 DEF AnsweredInv, TurnMay
<1>6. AskedMay'
  BY <1>1 DEF AskedMay, Compacting
<1>7. KindIsKnown'
  BY <1>1, <1>3 DEF AnsweredInv, KindIsKnown
<1>8. pc' \in {"schedule", "count", "answer"} => ~r'.live
  BY <1>1 DEF AnsweredInv
<1> QED BY <1>1, <1>3, <1>4, <1>5, <1>6, <1>7, <1>8 DEF AnsweredInv

\* Nothing that is recorded next asks for a turn.
SaysNothing == todo = <<>> /\ \A i \in DOMAIN todo' : todo'[i] \notin External

LEMMA NobodyAsks ==
  ASSUME TypeOK, AnsweredInv, LoopGoesOn, AddsNoTurn, SaysNothing, pc' # "decide",
         r.live, ~Compacting, TurnAskedFor'
  PROVE  MayInterrupt(log)'
<1>1. r'.callModel
  BY DEF TurnAskedFor, SaysNothing
<1>2. r.callModel
  BY <1>1 DEF LoopGoesOn, RunOwes, SaysNothing, RecordInput
<1>3. ~PromptWaits /\ pc \in Loop
  BY DEF PromptWaits, SaysNothing, LoopGoesOn
<1>4. MayInterrupt(log)
  BY <1>2, <1>3 DEF AnsweredInv, AskedMay, TurnAskedFor
<1> QED BY <1>4, NoTurnKeeps DEF TypeOK

LEMMA RemarksAskNothing ==
  ASSUME NEW s \in Seq(Controls)
  PROVE  \A i \in DOMAIN s : s[i] \notin External
<1>1. \A i \in DOMAIN s : s[i] \in Controls
  BY ElementOfSeq, LenProperties
<1> QED BY <1>1, ItemsAssumption DEF Controls, Heartbeats

LEMMA EventsSay ==
  ASSUME RInv,
         \/ InputsSlurped \/ UpdatesSlurped \/ TakeUpdate \/ Timers \/ DropResult
         \/ SaveCheckpoint \/ DispatchCalls \/ Verify
         \/ ScheduleToolCall \/ ReconcileToolCall \/ ScheduledAll \/ ReconciledAll
  PROVE  SaysNothing
<1>0. TypeOK
  BY DEF RInv
<1>1. todo = <<>>
  BY Zenon DEF InputsSlurped, UpdatesSlurped, TakeUpdate, Timers, DeadlinePasses, ReportDue, QuotaLifts,
         GraceEnds, ToolWaitEnds, PostHeartbeat, DropResult, SaveCheckpoint, DispatchCalls, Verify,
         ScheduleToolCall, ReconcileToolCall, ScheduledAll, ReconciledAll, At
<1>2. todo' = <<>> \/ todo' \in Seq(Controls)
  <2>1. CASE DeadlinePasses \/ ReportDue \/ SaveCheckpoint
    <3>1. todo' \in Seq(Remarks)
      BY <1>0, <2>1, SaysRemarks
    <3> QED BY <3>1 DEF Remarks
  <2>2. CASE TakeUpdate
    <3>1. todo' \in {<<"verification">>, <<>>}
      BY <2>2, Zenon DEF TakeUpdate
    <3>2. <<"verification">> \in Seq(Controls)
      BY DEF Controls, Heartbeats
    <3> QED BY <3>1, <3>2
  <2>3. CASE ~(DeadlinePasses \/ ReportDue \/ SaveCheckpoint \/ TakeUpdate)
    BY <1>1, <2>3, Zenon DEF InputsSlurped, UpdatesSlurped, Timers, QuotaLifts,
         GraceEnds, ToolWaitEnds, PostHeartbeat, DropResult, DispatchCalls, Verify,
         ScheduleToolCall, ReconcileToolCall, ScheduledAll, ReconciledAll
  <2> QED BY <2>1, <2>2, <2>3
<1>3. CASE todo' = <<>>
  BY <1>1, <1>3 DEF SaysNothing
<1>4. CASE todo' \in Seq(Controls)
  BY <1>1, <1>4, RemarksAskNothing DEF SaysNothing
<1> QED BY <1>2, <1>3, <1>4

LEMMA EventsAddNoTurn ==
  ASSUME RInv,
         \/ InputsSlurped \/ UpdatesSlurped \/ TakeUpdate \/ Timers \/ DropResult
         \/ SaveCheckpoint \/ DispatchCalls \/ Verify
         \/ ScheduleToolCall \/ ReconcileToolCall \/ ScheduledAll \/ ReconciledAll
  PROVE  AddsNoTurn
<1>0. TypeOK
  BY DEF RInv
<1>1. SilentStep
  BY <1>0, SilentSteps, ManagingSteps, StatusSteps
<1>2. CASE UNCHANGED log
  BY <1>2 DEF AddsNoTurn
<1>3. CASE ~UNCHANGED log
  <2> PICK o \in Ops, status \in Statuses \cup {"none"} : log' = Append(log, StatusItem(o, status))
    BY <1>1, <1>3 DEF SilentStep
  <2>1. StatusItem(o, status) \in Items /\ StatusItem(o, status).kind = "status"
    BY ItemTypes DEF StatusItem
  <2> QED BY <2>1 DEF AddsNoTurn
<1> QED BY <1>2, <1>3

LEMMA EventsAnswered ==
  ASSUME RInv, AnsweredInv,
         \/ InputsSlurped \/ UpdatesSlurped \/ TakeUpdate \/ Timers \/ DropResult
         \/ SaveCheckpoint \/ DispatchCalls \/ Verify
         \/ ScheduleToolCall \/ ReconcileToolCall \/ ScheduledAll \/ ReconciledAll
  PROVE  AnsweredInv'
<1>0. TypeOK
  BY DEF RInv
<1>1. LoopGoesOn
  BY <1>0, QuietGoesOn, RecordingGoesOn
<1>2. AddsNoTurn /\ SaysNothing
  BY EventsAddNoTurn, EventsSay
<1>3. /\ pc' \notin {"turn", "begin", "decide"}
      /\ pc' \in {"schedule", "count", "answer"} => pc \in {"schedule", "count", "answer"}
  BY DEF InputsSlurped, UpdatesSlurped, TakeUpdate, Timers, DeadlinePasses, ReportDue, QuotaLifts,
         GraceEnds, ToolWaitEnds, PostHeartbeat, DropResult, SaveCheckpoint, DispatchCalls, Verify,
         ScheduleToolCall, ReconcileToolCall, ScheduledAll, ReconciledAll, At
<1>4. r.live /\ ~Compacting /\ TurnAskedFor' => MayInterrupt(log)'
  BY <1>0, <1>1, <1>2, <1>3, NobodyAsks
<1> QED BY <1>0, <1>1, <1>2, <1>3, <1>4, GoesOnAnswered

LEMMA TakeInputAnswered ==
  ASSUME RInv, AnsweredInv, TakeInput
  PROVE  AnsweredInv'
<1>0. TypeOK /\ r \in RunState /\ queued \in Seq(Inputs)
  BY DEF RInv, TypeOK
<1>1. LoopGoesOn
  BY <1>0, QuietGoesOn
<1>2. /\ todo = <<>> /\ pc' = "inputs" /\ log' = log /\ queued # <<>>
      /\ Head(queued) \in Inputs
  BY <1>0, HeadTailProperties DEF TakeInput, At, durable
<1>3. AddsNoTurn
  BY <1>2 DEF AddsNoTurn
<1>4. CASE SaysNothing
  BY <1>0, <1>1, <1>2, <1>3, <1>4, NobodyAsks, GoesOnAnswered
<1>5. CASE ~SaysNothing
  <2> DEFINE id == Head(queued)
  <2>1. id \in External /\ ~Defers(id) /\ todo' = GoesOut(id)
    <3>1. CASE Defers(id) /\ UNCHANGED todo
      BY <1>2, <1>5, <3>1 DEF SaysNothing
    <3>2. CASE id \notin External /\ todo' = <<id>>
      BY <1>2, <1>5, <3>2 DEF SaysNothing
    <3> QED BY <3>1, <3>2, Zenon DEF TakeInput
  <2> HIDE DEF id
  <2>2. r.live => id \in External \ AfterTools
    BY <2>1 DEF Defers, MidStep
  <2>3. id \in Range(GoesOut(id))
    <3>1. r.deferred \in Seq(External)
      BY <1>0, ZenonT(60) DEF RunState
    <3>2. GoesOut(id) = Append(r.deferred, id)
      BY DEF GoesOut
    <3>3. Len(r.deferred) + 1 \in DOMAIN GoesOut(id) /\ GoesOut(id)[Len(r.deferred) + 1] = id
      BY <2>1, <3>1, <3>2, AppendProperties, LenProperties
    <3> QED BY <3>3 DEF Range
  <2>4. r.live => PromptWaits'
    BY <2>1, <2>2, <2>3 DEF PromptWaits, Range
  <2> QED BY <1>0, <1>1, <1>2, <1>3, <2>4, GoesOnAnswered
<1> QED BY <1>4, <1>5

LEMMA RecordInputAnswered ==
  ASSUME RInv, AskInv, AnsweredInv, RecordInput
  PROVE  AnsweredInv'
<1>0. TypeOK /\ Fresh /\ r \in RunState /\ todo \in Seq(Inputs) /\ log \in Seq(Items)
  BY DEF RInv, TypeOK
<1>1. LoopGoesOn
  BY RecordingGoesOn
<1> DEFINE id == Head(todo)
           item == InputItem(id)
<1>2. /\ pc \in Loop /\ pc' = pc /\ todo # <<>> /\ id \in Inputs /\ todo' = Tail(todo)
      /\ item \in Items /\ item.kind = "input" /\ log' = Append(log, item)
  BY <1>0, InputSteps
<1>3. r'.due = r.due
  <2> DEFINE calls == r.callModel \/ id \in External
             compact == r.compact \/ id = "compact"
             stop == AcceptStop(r.stop, id)
             fresh == r.freshStop \/ id = "stop_hard"
             wrapUp == IF id = "budget" THEN h'.available ELSE r.wrapUp
             grace == IF id \in {"settings", "compact"} THEN r.grace ELSE {}
  <2>1. r' = [r EXCEPT !.callModel = calls, !.compact = compact, !.stop = stop,
                       !.freshStop = fresh, !.wrapUp = wrapUp, !.grace = grace]
    BY Zenon DEF RecordInput
  <2> HIDE DEF id, calls, compact, stop, fresh, wrapUp, grace
  <2> QED BY <1>0, <2>1, ZenonT(60) DEF RunState
<1>4. /\ 1 \in DOMAIN todo /\ todo[1] = id
      /\ \A i \in DOMAIN todo' : i + 1 \in DOMAIN todo /\ todo'[i] = todo[i + 1]
      /\ \A i \in DOMAIN todo : i = 1 \/ (i - 1 \in DOMAIN todo' /\ todo'[i - 1] = todo[i])
  BY <1>0, <1>2, HeadTailProperties, LenProperties
<1>5. AddsNoTurn
  BY <1>2 DEF AddsNoTurn
<1>6. ASSUME r.live, ~Compacting, TurnAskedFor' PROVE MayInterrupt(log)' \/ PromptWaits'
  <2>1. TurnAskedFor
    <3>1. CASE r'.callModel
      BY <1>1, <1>4, <3>1 DEF LoopGoesOn, RunOwes, TurnAskedFor
    <3>2. CASE pc' = "decide" /\ r'.due
      BY <1>2, <1>3, <3>2 DEF TurnAskedFor
    <3>3. CASE \E i \in DOMAIN todo' : todo'[i] \in External
      BY <1>4, <3>3 DEF TurnAskedFor
    <3> QED BY <1>6, <3>1, <3>2, <3>3 DEF TurnAskedFor
  <2>2. CASE MayInterrupt(log)
    BY <1>0, <1>5, <2>2, NoTurnKeeps
  <2>3. CASE PromptWaits
    <3> PICK i \in DOMAIN todo : todo[i] \in External \ AfterTools
      BY <2>3 DEF PromptWaits
    <3>1. CASE i = 1
      <4>1. IsPrompt(item) /\ ~IsTurn(item)
        BY <1>2, <1>4, <3>1 DEF IsPrompt, IsTurn
      <4>2. \A k \in DOMAIN log : Unanswered(log, k) => ~log[k].compaction
        <5> SUFFICES ASSUME NEW k \in DOMAIN log, Unanswered(log, k) PROVE ~log[k].compaction
          OBVIOUS
        <5>1. h.turn \notin h.compactionTurns
          BY <1>6 DEF Compacting
        <5> QED BY <1>2, <1>6, <5>1 DEF AnsweredInv, KindIsKnown
      <4> HIDE DEF item
      <4> QED BY <1>0, <1>2, <4>1, <4>2, TurnsOfAppend
    <3>2. CASE i # 1
      BY <1>4, <3>2 DEF PromptWaits
    <3> QED BY <3>1, <3>2
  <2> QED BY <1>2, <1>6, <2>1, <2>2, <2>3 DEF AnsweredInv, AskedMay
<1> QED BY <1>0, <1>1, <1>2, <1>5, <1>6, GoesOnAnswered

LEMMA ProcessDueAnswered ==
  ASSUME RInv, AnsweredInv, ProcessDue
  PROVE  AnsweredInv'
<1>0. TypeOK /\ r \in RunState
  BY DEF RInv, TypeOK
<1>1. LoopGoesOn
  BY <1>0, QuietGoesOn
<1>2. pc = "due" /\ pc' = "decide" /\ todo = <<>> /\ log' = log
  BY DEF ProcessDue, At, durable
<1>3. AddsNoTurn
  BY <1>2 DEF AddsNoTurn
<1>4. ASSUME r.live, TurnAskedFor' PROVE r.callModel
  <2> DEFINE due == TurnIsAsked
             timer == r.timer \/ ((r.deferred # <<>> /\ r.stop # "hard" /\ ~Compacting)
                                  /\ ~r.live /\ LimitsToolWait)
  <2>1. due => r.callModel
    BY <1>4 DEF TurnIsAsked
  <2>2. CASE DeferredGoesOut(due)
    BY <1>4, <2>1, <2>2 DEF DeferredGoesOut, MidStep
  <2>3. CASE ~DeferredGoesOut(due)
    <3>1. todo' = todo /\ r' = [r EXCEPT !.due = due, !.timer = timer]
      BY <2>3, Zenon DEF ProcessDue
    <3> HIDE DEF due, timer
    <3>2. r'.due = due
      BY <1>0, <3>1, ZenonT(60) DEF RunState
    <3>3. r'.callModel => r.callModel
      BY <1>1, <1>2 DEF LoopGoesOn, RunOwes, RecordInput
    <3> QED BY <1>2, <1>4, <2>1, <3>1, <3>2, <3>3 DEF TurnAskedFor
  <2> QED BY <2>2, <2>3
<1>5. ASSUME r.live, ~Compacting, TurnAskedFor' PROVE MayInterrupt(log)'
  <2>1. pc \in Loop /\ ~PromptWaits
    BY <1>1, <1>2 DEF LoopGoesOn, PromptWaits
  <2> QED BY <1>2, <1>4, <1>5, <2>1 DEF AnsweredInv, AskedMay, TurnAskedFor
<1> QED BY <1>0, <1>1, <1>2, <1>3, <1>5, GoesOnAnswered

LEMMA DecideAnswered ==
  ASSUME RInv, AnsweredInv, Decide
  PROVE  AnsweredInv'
<1>0. TypeOK /\ r \in RunState
  BY DEF RInv, TypeOK
<1>1. LoopGoesOn
  BY <1>0, QuietGoesOn
<1>2. /\ pc = "decide" /\ todo = <<>> /\ todo' = <<>> /\ log' = log /\ r.stop # "hard"
      /\ pc' = IF TurnDue \/ CompactionRequested THEN "turn" ELSE "idlecheck"
  BY DEF Decide, At, durable
<1>3. AddsNoTurn /\ SaysNothing
  BY <1>2 DEF AddsNoTurn, SaysNothing
<1>4. pc \in Loop /\ ~PromptWaits
  BY <1>1, <1>2 DEF LoopGoesOn, PromptWaits
<1>5. TurnDue \/ CompactionRequested => MayInterrupt(log)
  <2>1. CASE ~r.live
    BY <1>2, <1>4, <2>1 DEF AnsweredInv, RestingMay
  <2>2. CASE r.live
    BY <1>2, <1>4, <2>2 DEF AnsweredInv, AskedMay, TurnAskedFor, TurnDue, CompactionRequested
  <2> QED BY <2>1, <2>2
<1>6. pc' # "decide" /\ (pc' \in {"turn", "begin"} => MayInterrupt(log))
      /\ pc' \notin {"schedule", "count", "answer"}
  BY <1>2, <1>5
<1>7. r.live /\ ~Compacting /\ TurnAskedFor' => MayInterrupt(log)'
  BY <1>0, <1>1, <1>3, <1>6, NobodyAsks
<1> QED BY <1>0, <1>1, <1>3, <1>6, <1>7, GoesOnAnswered

\* Where the turn before the next one was answered, or may be cut short.
LEMMA MayAnswered ==
  ASSUME PromptsInterrupt(log)', MayInterrupt(log)',
         r'.live => pc' \notin {"schedule", "count", "answer"}, KindIsKnown'
  PROVE  AnsweredInv'
BY DEF AnsweredInv, RestingMay, TurnMay, AskedMay

LEMMA QuietMay ==
  ASSUME PromptsInterrupt(log)', MayInterrupt(log)', ~r'.live
  PROVE  AnsweredInv'
BY MayAnswered DEF KindIsKnown

LEMMA RestoringAnswered ==
  ASSUME RInv, AnsweredInv, ReplayItem \/ Restore
  PROVE  AnsweredInv'
<1>1. pc = "replay" /\ log' = log /\ r = NewRun
  BY DEF ReplayItem, Restore, durable, RInv, Fresh
<1>2. ~r'.live
  <2>1. ~r.live
    BY <1>1 DEF NewRun
  <2>2. CASE Restore
    BY <2>1, <2>2, OtherRunGoesOn DEF RInv, RunGoesOn
  <2>3. CASE ReplayItem
    BY <2>1, <2>3 DEF ReplayItem
  <2> QED BY <2>2, <2>3
<1> QED BY <1>1, <1>2, QuietMay DEF AnsweredInv

LEMMA StartLoopAnswered ==
  ASSUME RInv, AskInv, AnsweredInv, StartLoop
  PROVE  AnsweredInv'
<1>0. TypeOK /\ r \in RunState
  BY DEF RInv, TypeOK
<1>1. /\ pc = "start" /\ pc' \in {"turn", "select"} /\ log' = log /\ h' = h
      /\ pc \in Loop /\ ~r.started
  BY DEF StartLoop, At, durable, Loop, Labels, Down, AskInv, FirstRun
<1>2. r'.live => r.live
  BY <1>0, ManagingSteps DEF SilentStep
<1>3. MayInterrupt(log)
  BY <1>1 DEF AnsweredInv, TurnMay
<1>4. KindIsKnown'
  BY <1>1, <1>2 DEF AnsweredInv, KindIsKnown
<1> QED BY <1>1, <1>3, <1>4, MayAnswered DEF AnsweredInv

LEMMA AnswersAnswered ==
  ASSUME RInv, AnsweredInv, AnswerArrives \/ SummaryArrives
  PROVE  AnsweredInv'
<1>0. TypeOK /\ log \in Seq(Items)
  BY DEF RInv, TypeOK
<1> PICK item \in Items : AnswerStep(item)
  BY <1>0, AnswerSteps
<1>1. item.kind = "response" /\ ~IsTurn(item) /\ log' = Append(log, item) /\ ~r'.live
  BY DEF AnswerStep, IsTurn
<1>2. PromptsInterrupt(log)' /\ MayInterrupt(log)'
  BY <1>0, <1>1, TurnsOfAppend DEF AnsweredInv
<1> QED BY <1>1, <1>2, QuietMay

LEMMA TurnsAnswered ==
  ASSUME LInv, AnsweredInv, BeginCompaction \/ BeginTurn
  PROVE  AnsweredInv'
<1>0. TypeOK /\ r \in RunState /\ h \in DerivedState /\ log \in Seq(Items)
  BY DEF LInv, RInv, TypeOK
<1> PICK compaction \in BOOLEAN : AskStep(compaction)
  BY <1>0, AskSteps
<1> DEFINE item == TurnItem(h.turn + 1, compaction)
<1>1. /\ pc \in {"turn", "begin"} /\ pc \in Loop /\ pc' = "select" /\ todo' = <<>>
      /\ log' = Append(log, item) /\ h' = AddItem(h, item)
      /\ compaction <=> pc = "turn"
  BY DEF AskStep, BeginCompaction, BeginTurn, At
<1>2. item \in Items /\ IsTurn(item) /\ item.kind # "response" /\ item.compaction = compaction
  BY <1>0, TurnItems DEF TurnItem, IsTurn
<1>3. compaction <=> h'.turn \in h'.compactionTurns
  BY <1>0, <1>1, TurnAsked
<1> HIDE DEF item
<1>4. r.started
  BY <1>1 DEF LInv, HasStarted, Loop, Labels, Down
<1>5. r'.live /\ r'.started /\ (pc = "begin" => ~r'.callModel)
  <2>1. CASE BeginCompaction
    <3> DEFINE callModel == r.callModel \/ r.ordinary
               grace == IF r.ordinary THEN {} ELSE r.grace
    <3>1. r' = [r EXCEPT !.live = TRUE, !.cutdowns = 0, !.compact = FALSE,
                         !.callModel = callModel, !.grace = grace]
      <4>1. r' = [Send(r) EXCEPT !.compact = FALSE, !.callModel = @ \/ r.ordinary,
                                 !.grace = IF r.ordinary THEN {} ELSE @]
        BY <2>1, Zenon DEF BeginCompaction
      <4> QED BY <1>0, <4>1, ZenonT(60) DEF Send, RunState
    <3> HIDE DEF callModel, grace
    <3>2. r'.live /\ r'.started = r.started
      BY <1>0, <3>1, ZenonT(60) DEF RunState
    <3>3. pc = "turn"
      BY <2>1 DEF BeginCompaction, At
    <3> QED BY <1>4, <3>2, <3>3
  <2>2. CASE BeginTurn
    <3>1. r' = [r EXCEPT !.live = TRUE, !.cutdowns = 0, !.callModel = FALSE, !.grace = {},
                         !.freshStop = FALSE]
      <4>1. r' = [Send(r) EXCEPT !.callModel = FALSE, !.grace = {}, !.freshStop = FALSE]
        BY <2>2, Zenon DEF BeginTurn
      <4> QED BY <1>0, <4>1, ZenonT(60) DEF Send, RunState
    <3>2. r'.live /\ r'.started = r.started /\ ~r'.callModel
      BY <1>0, <3>1, ZenonT(60) DEF RunState
    <3> QED BY <1>4, <3>2
  <2> QED BY <2>1, <2>2
<1>6. PromptsInterrupt(log)'
  <2>1. MayInterrupt(log)
    BY <1>1 DEF AnsweredInv, TurnMay
  <2> QED BY <1>0, <1>1, <1>2, <2>1, TurnsOfAppend DEF AnsweredInv
<1>7. AskedMay'
  BY <1>1, <1>3, <1>5 DEF AskedMay, Compacting, TurnAskedFor
<1>8. KindIsKnown'
  <2> SUFFICES ASSUME NEW k \in DOMAIN log', Unanswered(log', k)
               PROVE  log'[k].compaction <=> h'.turn \in h'.compactionTurns
    BY DEF KindIsKnown
  <2>1. k = Len(log) + 1
    BY <1>0, <1>1, <1>2, UnansweredOfAppend
  <2>2. log'[k] = item
    BY <1>0, <1>1, <1>2, <2>1, AppendProperties
  <2> QED BY <1>2, <1>3, <2>2
<1> QED BY <1>1, <1>5, <1>6, <1>7, <1>8 DEF AnsweredInv, RestingMay, TurnMay

\* No request is in flight before the step, nor after it.
LEMMA RestsAnswered ==
  ASSUME AnsweredInv, pc \in Loop, pc' \in Loop \ {"turn", "begin"},
         log' = log, ~r.live, ~r'.live, r'.started, r.stop = "hard" => r'.stop = "hard"
  PROVE  AnsweredInv'
<1>1. RestingMay' /\ TurnMay' /\ AskedMay' /\ KindIsKnown' /\ PromptsInterrupt(log)'
  BY DEF AnsweredInv, RestingMay, TurnMay, AskedMay, KindIsKnown
<1>2. pc' # "replay"
  BY DEF Loop
<1> QED BY <1>1, <1>2 DEF AnsweredInv

LEMMA AfterAnswerAnswered ==
  ASSUME LInv, AnsweredInv,
         CountTurn \/ AnswerStands \/ AnswerCut \/ AnswerRefused \/ AnswerWhole
  PROVE  AnsweredInv'
<1>0. TypeOK
  BY DEF LInv, RInv
<1>1. /\ pc \in {"count", "answer"} /\ pc' \in {"answer", "dispatch", "verify"} /\ log' = log
      /\ pc \in Loop /\ pc' \in Loop
  BY DEF CountTurn, AnswerStands, AnswerCut, AnswerRefused, AnswerWhole, Recovers, At, durable,
         Loop, Labels, Down
<1>2. r.started /\ ~r.live
  BY <1>1 DEF LInv, HasStarted, Loop, Labels, Down, AnsweredInv
<1>3. r'.started /\ ~r'.live /\ (r.stop = "hard" => r'.stop = "hard")
  BY <1>0, <1>2, LoopRunGoesOn DEF RunGoesOn
<1> QED BY <1>1, <1>2, <1>3, RestsAnswered

LEMMA ExitAnswered ==
  ASSUME AnsweredInv, NEW how \in Down, Exit(how) PROVE AnsweredInv'
<1>1. log' = log /\ pc' \in Down /\ ~r'.live
  BY DEF Exit, durable, NewRun
<1>2. pc' \notin Loop /\ pc' # "replay"
  BY <1>1 DEF Loop, Down
<1> QED BY <1>1, <1>2 DEF AnsweredInv, RestingMay, TurnMay, AskedMay, KindIsKnown

\* The loop goes back to wait, as it was.
LEMMA WaitsAnswered ==
  ASSUME LInv, AnsweredInv, pc \in {"decide", "idlecheck"}, pc' = "select", todo = <<>>,
         UNCHANGED <<log, h, r, todo>>
  PROVE  AnsweredInv'
<1>1. pc \in Loop /\ r.started
  BY DEF LInv, HasStarted, Loop, Labels, Down
<1>2. TurnAskedFor' => TurnAskedFor /\ ~PromptWaits
  BY DEF TurnAskedFor, PromptWaits
<1> QED BY <1>1, <1>2 DEF AnsweredInv, RestingMay, TurnMay, AskedMay, KindIsKnown, Compacting

LEMMA EndsAnswered ==
  ASSUME LInv, AnsweredInv, Crash \/ AnswerFailed \/ AwaitCancellation \/ StopWhenIdle
  PROVE  AnsweredInv'
<1>0. TypeOK /\ r \in RunState
  BY DEF LInv, RInv, TypeOK
<1>1. CASE Crash
  BY <1>1, ExitAnswered DEF Crash, Down
<1>2. CASE AnswerFailed
  <2>1. CASE Exit("failed")
    BY <2>1, ExitAnswered DEF Down
  <2>2. CASE ~Exit("failed")
    <3>1. /\ r' = [r EXCEPT !.step = StepCalls, !.failures = @ + 1, !.callModel = TRUE]
          /\ pc = "answer" /\ pc' = "dispatch" /\ log' = log
      BY <1>2, <2>2 DEF AnswerFailed, Recovers, At, durable
    <3>2. r'.started = r.started /\ r'.live = r.live /\ r'.stop = r.stop
      BY <1>0, <3>1, ZenonT(60) DEF RunState
    <3>3. r.started /\ ~r.live /\ pc \in Loop /\ pc' \in Loop
      BY <3>1 DEF LInv, HasStarted, Loop, Labels, Down, AnsweredInv
    <3> QED BY <3>1, <3>2, <3>3, RestsAnswered
  <2> QED BY <2>1, <2>2
<1>3. CASE AwaitCancellation
  <2>1. CASE Exit("stopped")
    BY <2>1, ExitAnswered DEF Down
  <2>2. CASE ~Exit("stopped")
    <3>1. pc = "decide" /\ pc' = "select" /\ todo = <<>> /\ UNCHANGED <<log, h, r, todo>>
      BY <1>3, <2>2 DEF AwaitCancellation, At, durable
    <3> QED BY <3>1, WaitsAnswered
  <2> QED BY <2>1, <2>2
<1>4. CASE StopWhenIdle
  <2>1. CASE Exit("idle")
    BY <2>1, ExitAnswered DEF Down
  <2>2. CASE ~Exit("idle")
    <3>1. pc = "idlecheck" /\ pc' = "select" /\ todo = <<>> /\ UNCHANGED <<log, h, r, todo>>
      BY <1>4, <2>2 DEF StopWhenIdle, At, durable
    <3> QED BY <3>1, WaitsAnswered
  <2> QED BY <2>1, <2>2
<1> QED BY <1>1, <1>2, <1>3, <1>4

LEMMA TurningAnswered ==
  ASSUME LInv, AnsweredInv, CancelOperations \/ DropCompaction \/ TellFirst
  PROVE  AnsweredInv'
<1>0. TypeOK /\ r \in RunState
  BY DEF LInv, RInv, TypeOK
<1>1. log' = log /\ pc \in {"decide", "turn"} /\ pc \in Loop
  BY DEF CancelOperations, DropCompaction, TellFirst, At, durable, Loop, Labels, Down
<1>2. CASE CancelOperations
  <2>1. /\ r' = [r EXCEPT !.live = FALSE, !.cancelled = TRUE, !.due = FALSE]
        /\ r.stop = "hard" /\ pc' = "decide" /\ r.started
    BY <1>2 DEF CancelOperations, At, LInv, HasStarted, Loop, Labels, Down
  <2>2. r'.started = r.started /\ r'.stop = r.stop /\ ~r'.live
    BY <1>0, <2>1, ZenonT(60) DEF RunState
  <2> QED BY <1>1, <2>1, <2>2
      DEF AnsweredInv, RestingMay, TurnMay, AskedMay, KindIsKnown
<1>3. CASE DropCompaction \/ TellFirst
  <2>1. \/ r' = [r EXCEPT !.live = FALSE, !.compact = FALSE]
        \/ r' = [r EXCEPT !.live = FALSE, !.compact = FALSE, !.notesChecked = TRUE]
    BY <1>3, Zenon DEF DropCompaction, TellFirst
  <2>2. ~r'.live
    BY <1>0, <2>1, ZenonT(60) DEF RunState
  <2>3. pc = "turn"
    BY <1>3 DEF DropCompaction, TellFirst, At
  <2>4. MayInterrupt(log)
    BY <1>1, <2>3 DEF AnsweredInv, TurnMay
  <2> QED BY <1>1, <2>2, <2>4, QuietMay DEF AnsweredInv
<1> QED BY <1>2, <1>3

LEMMA StartAnswered ==
  ASSUME Undisturbed, RInv, AskInv, Start
  PROVE  AnsweredInv'
<1>1. pc' = "replay" /\ runs \in Nat /\ runs < Runs /\ log' = log /\ r' = r /\ r = NewRun
  BY DEF Start, durable, RInv, TypeOK, Fresh, Up
<1>2. runs = 0
  BY <1>1, CoordinatorAssumption DEF Undisturbed
<1>3. log' = Inherited /\ ~r'.live
  BY <1>1, <1>2 DEF AskInv, FirstRun, NewRun
<1>4. PromptsInterrupt(log') /\ MayInterrupt(log')
  BY <1>3 DEF Undisturbed, MayInterrupt
<1> QED BY <1>3, <1>4, QuietMay

LEMMA OutsideAnswered ==
  ASSUME AnsweredInv,
         Submit \/ OperationAwaits \/ (\E o \in Ops : OperationEnds(o)) \/ UNCHANGED vars
  PROVE  AnsweredInv'
<1>1. UNCHANGED <<log, pc, h, r, todo>>
  BY DEF Submit, OperationAwaits, OperationEnds, vars, durable
<1> QED BY <1>1 DEF AnsweredInv, RestingMay, TurnMay, AskedMay, KindIsKnown, Compacting,
                    TurnAskedFor, PromptWaits

LEMMA NoFaults ==
  ASSUME Undisturbed, TypeOK
  PROVE  ~(QuotaRefuses \/ SummaryOverflows \/ AnswerOverflows \/ RequestFails)
<1>1. ~Fault
  BY DEF Fault, Undisturbed, TypeOK
<1> QED BY <1>1, Zenon DEF QuotaRefuses, SummaryOverflows, AnswerOverflows, RequestFails

LEMMA StepKeepsAnswered ==
  LInv /\ AskInv /\ (Undisturbed => AnsweredInv) /\ [Next]_vars => (Undisturbed => AnsweredInv')
<1> SUFFICES ASSUME LInv, AskInv, Undisturbed, AnsweredInv, [Next]_vars PROVE AnsweredInv'
  OBVIOUS
<1>0. RInv /\ TypeOK
  BY DEF LInv, RInv
<1>1. CASE Working
  BY <1>0, <1>1, EventsAnswered, RecordInputAnswered, ProcessDueAnswered, DecideAnswered,
     RestoringAnswered, StartLoopAnswered, TurnsAnswered, AfterAnswerAnswered, EndsAnswered,
     TurningAnswered, ZenonT(60) DEF Working
<1>2. CASE ModelResults
  BY <1>0, <1>2, EventsAnswered, AnswersAnswered, NoFaults, ZenonT(60) DEF ModelResults
<1>3. CASE Start \/ Crash \/ Submit \/ OperationAwaits \/ (\E o \in Ops : OperationEnds(o))
           \/ UNCHANGED vars
  BY <1>0, <1>3, StartAnswered, EndsAnswered, OutsideAnswered
<1>4. CASE TakeInput \/ TakeUpdate \/ Timers
  BY <1>0, <1>4, EventsAnswered, TakeInputAnswered
<1> QED BY <1>1, <1>2, <1>3, <1>4 DEF Next

LEMMA InitAnswered == Init /\ Undisturbed => AnsweredInv
<1> SUFFICES ASSUME Init, Undisturbed PROVE AnsweredInv
  OBVIOUS
<1>1. pc = "new" /\ log = Inherited
  BY DEF Init
<1>2. pc \notin Loop
  BY <1>1 DEF Loop, Down
<1> QED BY <1>1, <1>2 DEF AnsweredInv, RestingMay, TurnMay, AskedMay, KindIsKnown, Undisturbed

\* In a session of one run without faults, whatever the limits and however the
\* inputs come, a request is cut short only by external input delivered at once,
\* and a compaction by nothing (Run, processEvents, startTurn).
THEOREM OnlyPromptsCutShort == Spec => [](Undisturbed => OnlyPromptsInterrupt)
<1>1. LInv /\ AskInv /\ (Undisturbed => AnsweredInv) /\ [Next]_vars => (Undisturbed => AnsweredInv)'
  BY StepKeepsAnswered DEF Undisturbed
<1>2. Init => (Undisturbed => AnsweredInv)
  BY InitAnswered
<1>3. (Undisturbed => AnsweredInv) => (Undisturbed => OnlyPromptsInterrupt)
  BY DEF AnsweredInv, OnlyPromptsInterrupt
<1> QED BY <1>1, <1>2, <1>3, LifeInvariant, AskingInvariant, PTL DEF Spec
=============================================================================
