--------------------------- MODULE LifecycleProofs ---------------------------
(***************************************************************************)
(* The operations of a session, through all its runs: none enters a run    *)
(* that is being canceled, none is left when a run went idle or stopped,   *)
(* none begins again after it ended, and a restored run goes on with the   *)
(* same ones whether it was restored from a checkpoint or from all items.  *)
(*                                                                         *)
(* The invariant relates the four places that know of an operation: the    *)
(* log, the store, the state of the loop, and the manager with its queue   *)
(* of updates.                                                             *)
(***************************************************************************)
EXTENDS CoordinatorProofs

-----------------------------------------------------------------------------
(* The invariant *)

\* Items of the session itself, up to the nth, say how the operation ended.
Own(i) == i > Len(Inherited)
FinishedBy(n, o) == \E i \in DOMAIN log : Own(i) /\ i <= n /\ Finishes(log[i], o)
Finished(o) == FinishedBy(Len(log), o)

\* An item that starts an operation.
Starts(item, o) == item.kind = "status" /\ item.op = o /\ item.status \in Unfinished

\* What the session says ended has ended, and its call has its result.
FinishedAreDone ==
  \A o \in Ops : Finished(o) =>
    /\ saved[o] \in Terminal
    /\ o \in Calls => Derived.calls[o] = "done"

\* No operation starts after the session said how it ended.
NoneStartsAgain ==
  \A i, j \in DOMAIN log, o \in Ops :
    Own(i) /\ i < j /\ Finishes(log[i], o) => ~Starts(log[j], o)

\* A state that the items up to n led to does not wait for what they say ended.
KnowsEnds(d, n) == \A o \in Ops : FinishedBy(n, o) => d.ops[o] \notin Unfinished

EndsAreKnown ==
  /\ pc = "replay" => KnowsEnds(h, pos)
  /\ \A c \in ckpt : KnowsEnds(c.state, c.at)
  /\ KnowsEnds(Derived, Len(log))

\* A call that is not translated has no operation; one that waits has one.
CallsHaveOperations ==
  \A c \in Calls :
    /\ Derived.calls[c] \in {"none", "asked"} => saved[c] = "none"
    /\ Derived.calls[c] = "waiting" => saved[c] # "none"

\* The loop and the store agree on what has not ended.
StoreAgrees ==
  pc \in Loop => \A o \in Ops : h.ops[o] \in Unfinished <=> saved[o] \in Unfinished

DerivedAreStored == \A o \in Ops : Derived.ops[o] # "none" => saved[o] # "none"

\* What the manager works on has not ended, nor what it has updates of; the
\* last of them ends it.
ManagedAreUnfinished ==
  \A o \in Ops : mgr[o] \in {"running", "canceling"} => saved[o] \in Unfinished

UpdatesEndOnce ==
  \A i \in DOMAIN updates :
    /\ saved[updates[i].op] \in Unfinished
    /\ updates[i].status \in Terminal =>
         /\ mgr[updates[i].op] = "gone"
         /\ \A j \in DOMAIN updates : j > i => updates[j].op # updates[i].op

\* Where the loop is, the calls have come along.
CallsAreScheduled == pc \in Loop \ {"schedule"} => \A c \in Calls : h.calls[c] # "asked"
WaitingHaveOperations == pc \in Loop => \A c \in Calls : h.calls[c] = "waiting" => h.ops[c] # "none"
ResultsAreRecorded == pc \in {"due", "decide"} => FinishedCalls = {}

HasStarted == pc \in Loop \ {"schedule", "reconcile", "start"} => r.started

\* A canceled run starts neither turns nor tool calls.
CancelledRunEnds ==
  r.cancelled =>
    /\ r.started /\ r.stop = "hard" /\ ~r.live
    /\ pc \in {"select", "inputs", "updates", "reconcile", "due", "decide"}

RestoredIsReplay ==
  pc = "schedule" /\ pos = Len(log) => Resumed(h) = Resumed(RestoreOperations(Derived))

EndedLeaveNothing ==
  pc \in {"idle", "stopped"} =>
    /\ pc = "idle" => Pending(Derived) = 0
    /\ OpenCalls(Derived) = {}
    /\ \A o \in Ops : saved[o] \notin Unfinished

\* The log and the store.
LogAndStore ==
  /\ FinishedAreDone /\ NoneStartsAgain /\ CallsHaveOperations /\ DerivedAreStored
  /\ KnowsEnds(Derived, Len(log))

LInv ==
  /\ RInv /\ WInv
  /\ LogAndStore /\ EndsAreKnown
  /\ StoreAgrees /\ ManagedAreUnfinished /\ UpdatesEndOnce
  /\ CallsAreScheduled /\ WaitingHaveOperations /\ ResultsAreRecorded
  /\ HasStarted /\ CancelledRunEnds
  /\ RestoredIsReplay /\ EndedLeaveNothing

-----------------------------------------------------------------------------
(* What an item does to the calls and the operations                        *)

\* An input, a turn or a response changes no operation; a response may ask for
\* calls, and nothing else changes them.
LEMMA MessageCalls ==
  ASSUME NEW d \in DerivedState, NEW item \in Items, item.kind \in {"input", "turn", "response"}
  PROVE  LET e == AddItem(d, item) IN
           /\ e.ops = d.ops
           /\ \A c \in Calls :
                \/ e.calls[c] = d.calls[c]
                \/ item.kind = "response" /\ c \in item.calls /\ e.calls[c] = "asked"
<1>0. d.calls \in [Calls -> CallStates]
  BY Zenon DEF DerivedState
<1>1. CASE item.kind = "input"
  <2>1. AddItem(d, item).ops = d.ops /\ AddItem(d, item).calls = d.calls
    BY <1>1, ZenonT(60) DEF AddItem, AddInput, DerivedState
  <2> QED BY <2>1
<1>2. CASE item.kind = "turn"
  <2>1. AddItem(d, item).ops = d.ops /\ AddItem(d, item).calls = d.calls
    BY <1>2, ZenonT(60) DEF AddItem, AddTurn, DerivedState
  <2> QED BY <2>1
<1>3. CASE item.kind = "response"
  <2>1. CASE item.turn \in d.compactionTurns
    <3>1. AddItem(d, item) = AddSummary(d, item.turn, item.ending = "summary")
      BY <1>3, <2>1, Zenon DEF AddItem
    <3>2. AddItem(d, item).ops = d.ops /\ AddItem(d, item).calls = d.calls
      BY <3>1, ZenonT(60) DEF AddSummary, DerivedState
    <3> QED BY <3>2
  <2>2. CASE item.turn \notin d.compactionTurns
    <3>1. AddItem(d, item) = AddAnswer(d, item.turn, item.calls)
      BY <1>3, <2>2, Zenon DEF AddItem
    <3>2. /\ AddItem(d, item).ops = d.ops
          /\ AddItem(d, item).calls =
               [c \in Calls |-> IF c \in item.calls THEN "asked" ELSE d.calls[c]]
      BY <3>1, ZenonT(60) DEF AddAnswer, DerivedState
    <3> QED BY <1>3, <3>2, Zenon
  <2> QED BY <2>1, <2>2
<1> QED BY <1>1, <1>2, <1>3

\* A status sets its operation, and its call while that is open.
LEMMA StatusCalls ==
  ASSUME NEW d \in DerivedState, NEW o \in Ops, NEW status \in Statuses \cup {"none"}
  PROVE  LET e == AddItem(d, StatusItem(o, status)) IN
           /\ e.ops = IF status = "none" THEN d.ops ELSE [d.ops EXCEPT ![o] = status]
           /\ e.calls = IF o \notin OpenCalls(d) THEN d.calls
                        ELSE [d.calls EXCEPT ![o] = IF status \in Unfinished THEN "waiting"
                                                    ELSE "done"]
           /\ d.ops \in [Ops -> Statuses \cup {"none"}] /\ d.calls \in [Calls -> CallStates]
<1> DEFINE item == StatusItem(o, status)
<1>1. item.kind = "status" /\ item.op = o /\ item.status = status
  BY DEF StatusItem
<1> HIDE DEF item
<1>2. AddItem(d, item) = AddStatus(d, o, status)
  BY <1>1, Zenon DEF AddItem
<1>3. /\ AddStatus(d, o, status).ops =
           (IF status = "none" THEN d.ops ELSE [d.ops EXCEPT ![o] = status])
      /\ AddStatus(d, o, status).calls =
           (IF o \notin OpenCalls(d) THEN d.calls
            ELSE [d.calls EXCEPT ![o] = IF status \in Unfinished THEN "waiting" ELSE "done"])
  BY ZenonT(60) DEF AddStatus, DerivedState
<1>4. d.ops \in [Ops -> Statuses \cup {"none"}] /\ d.calls \in [Calls -> CallStates]
  BY Zenon DEF DerivedState
<1> QED BY <1>2, <1>3, <1>4, Zenon DEF item

LEMMA StatusOps ==
  ASSUME NEW d \in DerivedState, NEW o \in Ops, NEW status \in Statuses \cup {"none"}
  PROVE  AddItem(d, StatusItem(o, status)).ops =
           IF status = "none" THEN d.ops ELSE [d.ops EXCEPT ![o] = status]
<1> DEFINE item == StatusItem(o, status)
<1>1. item.kind = "status" /\ item.op = o /\ item.status = status
  BY DEF StatusItem
<1> HIDE DEF item
<1>2. AddItem(d, item) = AddStatus(d, o, status)
  BY <1>1, Zenon DEF AddItem
<1>3. AddStatus(d, o, status).ops =
        IF status = "none" THEN d.ops ELSE [d.ops EXCEPT ![o] = status]
  BY ZenonT(60) DEF AddStatus, DerivedState
<1> QED BY <1>2, <1>3, Zenon DEF item

-----------------------------------------------------------------------------
(* What an append does to what the log says has ended                       *)

LEMMA EndsOfAppend ==
  ASSUME TypeOK, InheritsPrefix, NEW item \in Items, log' = Append(log, item)
  PROVE  /\ Len(log) \in Nat /\ Len(log') = Len(log) + 1 /\ Own(Len(log) + 1)
         /\ \A i \in DOMAIN log : i \in DOMAIN log' /\ i <= Len(log) /\ log'[i] = log[i]
         /\ \A i \in DOMAIN log' :
              i \in Nat /\ (i \in DOMAIN log \/ i = Len(log) + 1) /\ i <= Len(log')
         /\ log'[Len(log) + 1] = item /\ Len(log) + 1 \in DOMAIN log'
         /\ \A n \in Nat : \A o : n <= Len(log) => (FinishedBy(n, o)' <=> FinishedBy(n, o))
         /\ \A o : Finished(o)' <=> (Finished(o) \/ Finishes(item, o))
<1>1. /\ log \in Seq(Items) /\ Len(log) \in Nat /\ DOMAIN log = 1 .. Len(log)
      /\ Len(log') = Len(log) + 1 /\ DOMAIN log' = 1 .. Len(log) + 1
      /\ \A i \in 1 .. Len(log) : log'[i] = log[i]
      /\ log'[Len(log) + 1] = item
  BY AppendProperties, LenProperties DEF TypeOK
<1>2. Len(Inherited) \in Nat /\ Len(log) >= Len(Inherited)
  BY CoordinatorAssumption, LenProperties DEF InheritsPrefix
<1>3. Own(Len(log) + 1)
  BY <1>1, <1>2 DEF Own
<1>4. ASSUME NEW n \in Nat, NEW o, n <= Len(log) PROVE FinishedBy(n, o)' <=> FinishedBy(n, o)
  BY <1>1, <1>4 DEF FinishedBy, Own
<1>5. ASSUME NEW o PROVE Finished(o)' <=> (Finished(o) \/ Finishes(item, o))
  BY <1>1, <1>3 DEF Finished, FinishedBy, Own
<1> QED BY <1>1, <1>3, <1>4, <1>5

-----------------------------------------------------------------------------
(* The log and the store *)

\* While the loop runs, the calls it knows are those the log leads to.
LEMMA LoopCalls ==
  ASSUME RInv, pc \in Loop
  PROVE  /\ Derived.calls = h.calls /\ Derived \in DerivedState /\ h \in DerivedState
         /\ OpenCalls(h) = OpenCalls(Derived) /\ Pending(h) = Pending(Derived)
<1>1. Agrees(h, Derived)
  BY DEF RInv, LiveIsAt, Loop, Up
<1>2. Derived.calls = h.calls /\ Derived.available = h.available /\ Derived.delivered = h.delivered
  BY <1>1, Zenon DEF Agrees
<1> QED BY <1>2, LogReplay DEF RInv, OpenCalls, Pending

LEMMA DerivedAppend ==
  ASSUME TypeOK, NEW item \in Items, log' = Append(log, item)
  PROVE  Derived' = AddItem(Derived, item) /\ Derived \in DerivedState
BY LogReplay, ReplayAppend DEF Derived

LEMMA StoredTypes ==
  ASSUME TypeOK
  PROVE  /\ saved \in [Ops -> Statuses \cup {"none"}] /\ mgr \in [Ops -> Managed]
         /\ Statuses = Unfinished \cup Terminal /\ Unfinished \cap Terminal = {}
         /\ "none" \notin Statuses /\ Calls \subseteq Ops /\ Checks \subseteq Ops
         /\ Calls \cap Checks = {}
BY ItemsAssumption DEF TypeOK, Statuses, Unfinished, Terminal, Ops

\* An input, a turn or a response ends and starts no operation.
LEMMA MessageKeepsLog ==
  ASSUME LInv, TypeOK', NEW item \in Items, MessageStep(item)
  PROVE  LogAndStore'
<1> USE DEF LInv, LogAndStore
<1>1. /\ item.kind \in {"input", "turn", "response"} /\ log' = Append(log, item)
      /\ pc \in Loop /\ saved' = saved
      /\ item.kind = "response" => \A c \in item.calls : h.calls[c] = "none"
  BY DEF MessageStep
<1>2. TypeOK /\ InheritsPrefix
  BY DEF WInv
<1>3. Derived' = AddItem(Derived, item) /\ Derived \in DerivedState
  BY <1>1, <1>2, DerivedAppend
<1>4. /\ Derived'.ops = Derived.ops
      /\ \A c \in Calls :
           \/ Derived'.calls[c] = Derived.calls[c]
           \/ Derived'.calls[c] = "asked" /\ Derived.calls[c] = "none"
  <2>1. Derived.calls = h.calls
    BY <1>1, LoopCalls
  <2> QED BY <1>1, <1>3, <2>1, MessageCalls
<1>5. \A o : ~Finishes(item, o) /\ ~Starts(item, o)
  BY <1>1 DEF Finishes, Starts
<1>6. \A o : Finished(o)' <=> Finished(o)
  BY <1>1, <1>2, <1>5, EndsOfAppend
<1>7. FinishedAreDone'
  BY <1>1, <1>4, <1>6 DEF FinishedAreDone
<1>8. NoneStartsAgain'
  BY <1>1, <1>2, <1>5, EndsOfAppend DEF NoneStartsAgain
<1>9. CallsHaveOperations' /\ DerivedAreStored'
  BY <1>1, <1>4 DEF CallsHaveOperations, DerivedAreStored
<1>10. KnowsEnds(Derived, Len(log))'
  BY <1>4, <1>6 DEF KnowsEnds, Finished
<1> QED BY <1>7, <1>8, <1>9, <1>10

\* The first status of an operation, which the store gets with it, or of a call
\* that was not translated.
LEMMA FirstStatusKeepsLog ==
  ASSUME LInv, TypeOK', pc \in Loop,
         NEW o \in Ops, NEW status \in {"ready", "none"},
         o \in Calls => h.calls[o] = "asked",
         status = "none" => o \in Calls,
         saved[o] = "none",
         log' = Append(log, StatusItem(o, status)), Store(o, status)
  PROVE  LogAndStore'
<1> USE DEF LInv, LogAndStore
<1> DEFINE item == StatusItem(o, status)
<1>1. item \in Items /\ status \in Statuses \cup {"none"} /\ TypeOK /\ InheritsPrefix
  BY ItemTypes DEF Statuses, Unfinished, WInv
<1>2. item.kind = "status" /\ item.op = o /\ item.status = status
  BY DEF StatusItem
<1> HIDE DEF item
<1>3. log' = Append(log, item)
  BY DEF item
<1>4. Derived' = AddItem(Derived, item) /\ Derived \in DerivedState
  BY <1>1, <1>3, DerivedAppend
<1>5. saved' = IF status = "none" THEN saved ELSE [saved EXCEPT ![o] = status]
  BY DEF Store
<1>6. /\ Derived'.ops = IF status = "none" THEN Derived.ops ELSE [Derived.ops EXCEPT ![o] = status]
      /\ Derived'.calls = IF o \notin OpenCalls(Derived) THEN Derived.calls
                        ELSE [Derived.calls EXCEPT ![o] = IF status \in Unfinished THEN "waiting"
                                                          ELSE "done"]
      /\ Derived.ops \in [Ops -> Statuses \cup {"none"}] /\ Derived.calls \in [Calls -> CallStates]
  BY <1>1, <1>4, StatusCalls DEF item
<1>7. o \in OpenCalls(Derived) <=> o \in Calls
  <2>1. Derived.calls = h.calls
    BY LoopCalls
  <2> QED BY <2>1 DEF OpenCalls, Open
<1>8. \A x : ~Finishes(item, x) /\ (Starts(item, x) => x = o)
  BY <1>2 DEF Finishes, Starts, Terminal
<1>9. ~Finished(o)
  BY DEF FinishedAreDone, Terminal
<1>10. \A x : Finished(x)' <=> Finished(x)
  BY <1>1, <1>3, <1>8, EndsOfAppend
<1>11. FinishedAreDone'
  <2> SUFFICES ASSUME NEW x \in Ops, Finished(x)
               PROVE  saved'[x] \in Terminal /\ (x \in Calls => Derived'.calls[x] = "done")
    BY <1>10 DEF FinishedAreDone
  <2>1. x # o /\ saved[x] \in Terminal /\ (x \in Calls => Derived.calls[x] = "done")
    BY <1>9 DEF FinishedAreDone
  <2>2. saved'[x] = saved[x] /\ (x \in Calls => Derived'.calls[x] = Derived.calls[x])
    BY <1>5, <1>6, <2>1, StoredTypes, <1>1
  <2> QED BY <2>1, <2>2
<1>12. NoneStartsAgain'
  <2> SUFFICES ASSUME NEW i \in DOMAIN log', NEW j \in DOMAIN log', NEW x \in Ops,
                      Own(i), i < j, Finishes(log'[i], x), Starts(log'[j], x)
               PROVE  FALSE
    BY DEF NoneStartsAgain, Own
  <2>1. i \in DOMAIN log /\ log'[i] = log[i] /\ i <= Len(log)
    BY <1>1, <1>3, EndsOfAppend
  <2>2. Finished(x)
    BY <2>1 DEF Finished, FinishedBy
  <2>3. CASE j \in DOMAIN log
    <3>1. log'[j] = log[j]
      BY <1>1, <1>3, <2>3, EndsOfAppend
    <3> QED BY <2>1, <2>3, <3>1 DEF NoneStartsAgain
  <2>4. CASE j = Len(log) + 1
    <3>1. log'[j] = item
      BY <1>1, <1>3, <2>4, EndsOfAppend
    <3> QED BY <1>8, <1>9, <2>2, <3>1
  <2> QED BY <1>1, <1>3, <2>3, <2>4, EndsOfAppend
<1>13. CallsHaveOperations'
  <2> SUFFICES ASSUME NEW c \in Calls
               PROVE  /\ Derived'.calls[c] \in {"none", "asked"} => saved'[c] = "none"
                      /\ Derived'.calls[c] = "waiting" => saved'[c] # "none"
    BY DEF CallsHaveOperations
  <2>1. CASE c = o
    <3>1. Derived'.calls[c] = IF status \in Unfinished THEN "waiting" ELSE "done"
      BY <1>6, <1>7, <2>1
    <3>2. status = "ready" => saved'[c] = "ready"
      BY <1>1, <1>5, <2>1, StoredTypes
    <3> QED BY <3>1, <3>2 DEF Unfinished
  <2>2. CASE c # o
    <3>1. Derived'.calls[c] = Derived.calls[c] /\ saved'[c] = saved[c]
      BY <1>1, <1>5, <1>6, <2>2, StoredTypes
    <3> QED BY <3>1 DEF CallsHaveOperations
  <2> QED BY <2>1, <2>2
<1>14. DerivedAreStored'
  BY <1>1, <1>5, <1>6, StoredTypes DEF DerivedAreStored
<1>15. KnowsEnds(Derived, Len(log))'
  <2> SUFFICES ASSUME NEW x \in Ops, Finished(x) PROVE Derived'.ops[x] \notin Unfinished
    BY <1>10 DEF KnowsEnds, Finished
  <2>1. x # o /\ Derived.ops[x] \notin Unfinished
    BY <1>9 DEF KnowsEnds, Finished
  <2> QED BY <1>6, <2>1
<1> QED BY <1>11, <1>12, <1>13, <1>14, <1>15

\* While the loop runs, what it knows of an operation the store has.
LEMMA LoopOps ==
  ASSUME LInv, pc \in Loop
  PROVE  \A o \in Ops :
           /\ h.ops[o] # "none" => saved[o] # "none"
           /\ h.ops[o] \in Terminal => saved[o] \in Terminal
<1> USE DEF LInv
<1>1. pos >= Len(Inherited)
  BY DEF WInv, Loaded, Loop, Up
<1>2. \A o \in Ops : h.ops[o] # "none" => saved[o] # "none"
  BY <1>1 DEF WInv, KnownAreRecorded, Recorded
<1>3. \A o \in Ops : h.ops[o] \in Terminal => h.ops[o] # "none" /\ h.ops[o] \notin Unfinished
  BY DEF Terminal, Unfinished
<1> QED BY <1>2, <1>3, StoredTypes DEF WInv, StoreAgrees

\* The result of a call whose operation ended.
LEMMA ResultKeepsLog ==
  ASSUME LInv, TypeOK', pc \in Loop, UNCHANGED saved,
         NEW c \in FinishedCalls, log' = Append(log, StatusItem(c, h.ops[c]))
  PROVE  LogAndStore'
<1> USE DEF LInv, LogAndStore
<1> DEFINE status == h.ops[c]
           item == StatusItem(c, status)
<1>1. c \in Calls /\ c \in Ops /\ h.calls[c] \in Open /\ status \in Terminal
  BY DEF FinishedCalls, Ops
<1>2. /\ status \in Statuses /\ status \notin Unfinished /\ status # "none"
      /\ status \in Statuses \cup {"none"} /\ TypeOK /\ InheritsPrefix
  BY <1>1 DEF Statuses, Unfinished, Terminal, WInv
<1>3. saved[c] \in Terminal
  BY <1>1, LoopOps
<1> HIDE DEF status
<1>4. item.kind = "status" /\ item.op = c /\ item.status = status /\ item \in Items
  BY <1>1, <1>2, ItemTypes DEF StatusItem
<1> HIDE DEF item
<1>5. log' = Append(log, item)
  BY DEF item, status
<1>6. Derived' = AddItem(Derived, item) /\ Derived \in DerivedState
  BY <1>2, <1>4, <1>5, DerivedAppend
<1>7. /\ Derived'.ops = [Derived.ops EXCEPT ![c] = status]
      /\ Derived'.calls = IF c \notin OpenCalls(Derived) THEN Derived.calls
                        ELSE [Derived.calls EXCEPT ![c] = "done"]
      /\ Derived.ops \in [Ops -> Statuses \cup {"none"}] /\ Derived.calls \in [Calls -> CallStates]
  BY <1>1, <1>2, <1>6, StatusCalls DEF item
<1>8. c \in OpenCalls(Derived)
  <2>1. Derived.calls = h.calls
    BY LoopCalls
  <2> QED BY <1>1, <2>1 DEF OpenCalls
<1>9. \A x : (Finishes(item, x) => x = c) /\ ~Starts(item, x)
  BY <1>2, <1>4 DEF Finishes, Starts
<1>10. \A x : Finished(x)' => Finished(x) \/ x = c
  BY <1>2, <1>4, <1>5, <1>9, EndsOfAppend
<1>11. /\ Derived'.calls[c] = "done" /\ Derived'.ops[c] = status
       /\ \A x \in Calls : x # c => Derived'.calls[x] = Derived.calls[x]
       /\ \A x \in Ops : x # c => Derived'.ops[x] = Derived.ops[x]
  BY <1>1, <1>7, <1>8
<1>12. FinishedAreDone'
  BY <1>3, <1>10, <1>11 DEF FinishedAreDone
<1>13. NoneStartsAgain'
  BY <1>2, <1>4, <1>5, <1>9, EndsOfAppend DEF NoneStartsAgain
<1>14. CallsHaveOperations'
  BY <1>11 DEF CallsHaveOperations
<1>15. DerivedAreStored'
  BY <1>3, <1>11 DEF DerivedAreStored, Terminal
<1>16. KnowsEnds(Derived, Len(log))'
  BY <1>2, <1>10, <1>11 DEF KnowsEnds, Finished
<1> QED BY <1>12, <1>13, <1>14, <1>15, <1>16

\* An update of an operation that has not ended.
LEMMA UpdateKeepsLog ==
  ASSUME LInv, TypeOK', UNCHANGED log, NEW o \in Ops, NEW status \in Statuses,
         saved[o] \in Unfinished, saved' = [saved EXCEPT ![o] = status]
  PROVE  LogAndStore'
<1> USE DEF LInv, LogAndStore
<1>1. TypeOK /\ Derived' = Derived
  BY DEF WInv, Derived
<1>2. \A x : Finished(x)' <=> Finished(x)
  BY DEF Finished, FinishedBy
<1>3. saved'[o] = status /\ \A x \in Ops : x # o => saved'[x] = saved[x]
  BY <1>1, StoredTypes
<1>4. saved[o] # "none" /\ saved[o] \notin Terminal /\ status # "none"
  BY <1>1, StoredTypes
<1>5. FinishedAreDone'
  BY <1>1, <1>2, <1>3, <1>4 DEF FinishedAreDone
<1>6. NoneStartsAgain'
  BY DEF NoneStartsAgain
<1>7. CallsHaveOperations' /\ DerivedAreStored'
  BY <1>1, <1>3, <1>4 DEF CallsHaveOperations, DerivedAreStored
<1>8. KnowsEnds(Derived, Len(log))'
  BY <1>1 DEF KnowsEnds, FinishedBy
<1> QED BY <1>5, <1>6, <1>7, <1>8

LEMMA StillKeepsLog ==
  ASSUME LInv, UNCHANGED <<log, saved>>
  PROVE  LogAndStore'
<1>1. Derived' = Derived
  BY DEF Derived
<1> QED
  BY <1>1 DEF LInv, LogAndStore, FinishedAreDone, NoneStartsAgain, CallsHaveOperations,
              DerivedAreStored, KnowsEnds, FinishedBy, Finished

\* A check gets an ID the log does not hold, so the store has no operation of it.
LEMMA UnusedAreNew ==
  ASSUME LInv, NEW k \in UnusedChecks
  PROVE  saved[k] = "none" /\ k \in Ops /\ k \in Checks /\ k \notin Calls
<1>1. k \in Ops /\ k \in Checks /\ k \notin Calls
  BY ItemsAssumption DEF UnusedChecks, Ops
<1>2. k \notin Recorded
  BY DEF UnusedChecks, Recorded, StatusItem
<1> QED BY <1>1, <1>2 DEF LInv, WInv, StoredAreRecorded

-----------------------------------------------------------------------------
(* The kinds of steps there are *)

\* Nothing changes of what the invariant names.
Still == UNCHANGED <<durable, pc, pos, h, r, todo, manager>>

\* Calls are scheduled before the loop goes on, and results recorded before it
\* decides what to do.
ComesAlong ==
  /\ pc' # "schedule"
  /\ pc = "schedule" => \A c \in Calls : h.calls[c] # "asked"
  /\ pc' \in {"due", "decide"} => pc \in {"due", "decide"} \/ FinishedCalls = {}

\* The manager is given what the loop waits for, or told to cancel it.
DispatchStep ==
  /\ pc \in Loop \ {"schedule"} /\ pc' \in Loop \ {"schedule"}
  /\ pc' \in {"due", "decide"} => pc' = pc
  /\ UNCHANGED <<durable, pos, h, updates>>
  /\ (\E ops : Dispatch(ops)) \/ CancelOperations

\* The run ends, and how.
EndStep ==
  /\ pc \in Labels \ Down
  /\ \/ Exit("crashed") \/ Exit("failed")
     \/ Exit("stopped") /\ pc = "decide" /\ PendingOperations = {}
     \/ Exit("idle") /\ pc = "idlecheck" /\ IsIdle

LEMMA EndSteps ==
  ASSUME TypeOK, Crash \/ RequestFails \/ AnswerFailed \/ AwaitCancellation \/ StopWhenIdle
  PROVE  EndStep \/ (QuietStep /\ ComesAlong)
<1>0. pc \in Labels
  BY DEF TypeOK
<1>1. CASE Crash
  BY <1>0, <1>1 DEF Crash, EndStep, Up
<1>2. CASE RequestFails
  BY <1>0, <1>2 DEF RequestFails, EndStep, At, Down
<1>3. CASE AnswerFailed
  BY <1>0, <1>3, AgreesRefl DEF AnswerFailed, Recovers, EndStep, QuietStep,
                         ComesAlong, At, Loop, Labels, Down
<1>4. CASE AwaitCancellation
  BY <1>0, <1>4, AgreesRefl DEF AwaitCancellation, EndStep, QuietStep,
                         ComesAlong, At, Loop, Labels, Down
<1>5. CASE StopWhenIdle
  BY <1>0, <1>5, AgreesRefl DEF StopWhenIdle, EndStep, QuietStep,
                         ComesAlong, At, Loop, Labels, Down
<1> QED BY <1>1, <1>2, <1>3, <1>4, <1>5

LEMMA DispatchSteps ==
  ASSUME TypeOK, StartLoop \/ DispatchCalls \/ CancelOperations
  PROVE  DispatchStep
<1>1. CASE StartLoop \/ DispatchCalls
  BY <1>1 DEF StartLoop, DispatchCalls, DispatchStep, At, Loop, Labels, Down
<1>2. CASE CancelOperations
  BY <1>2 DEF CancelOperations, DispatchStep, At, Loop, Labels, Down
<1> QED BY <1>1, <1>2

LEMMA QuietLeave ==
  ASSUME \/ ScheduledAll \/ ReconciledAll \/ InputsSlurped \/ UpdatesSlurped \/ TakeInput
         \/ Timers \/ DropResult \/ QuotaRefuses \/ SummaryOverflows
         \/ CountTurn \/ AnswerStands \/ AnswerCut \/ AnswerRefused \/ AnswerWhole
         \/ ProcessDue \/ Decide \/ DropCompaction \/ TellFirst
  PROVE  ComesAlong
BY DEF ComesAlong, At, ScheduledAll, ReconciledAll, InputsSlurped, UpdatesSlurped, TakeInput,
       Timers, DeadlinePasses, ReportDue, QuotaLifts, GraceEnds, ToolWaitEnds, PostHeartbeat,
       DropResult, QuotaRefuses, SummaryOverflows, CountTurn, AnswerStands, AnswerCut,
       AnswerRefused, AnswerWhole, Recovers, ProcessDue, Decide, DropCompaction, TellFirst

\* Every step is of one of these kinds.
StepKinds ==
  \/ QuietStep /\ ComesAlong
  \/ \E item \in Items : MessageStep(item)
  \/ ScheduleToolCall \/ ReconcileToolCall \/ Verify \/ TakeUpdate
  \/ DispatchStep \/ OperationAwaits \/ \E o \in Ops : OperationEnds(o)
  \/ SaveCheckpoint \/ Start \/ ReplayItem \/ Restore
  \/ EndStep \/ Still

LEMMA StepsAreOfAKind ==
  ASSUME RInv, [Next]_vars
  PROVE  StepKinds
<1> USE DEF StepKinds
<1>0. TypeOK /\ Fresh
  BY DEF RInv
<1>1. CASE Working
  BY <1>0, <1>1, QuietSteps, QuietLeave, MessageSteps, DispatchSteps, EndSteps, ZenonT(60)
     DEF Working
<1>2. CASE ModelResults
  BY <1>0, <1>2, QuietSteps, QuietLeave, MessageSteps, EndSteps, ZenonT(60) DEF ModelResults
<1>3. CASE Start \/ Crash \/ TakeUpdate \/ OperationAwaits \/ \E o \in Ops : OperationEnds(o)
  BY <1>0, <1>3, EndSteps
<1>4. CASE TakeInput \/ Timers
  BY <1>0, <1>4, QuietSteps, QuietLeave
<1>5. CASE Submit \/ UNCHANGED vars
  BY <1>5 DEF Submit, vars, Still, durable, manager
<1> QED BY <1>1, <1>2, <1>3, <1>4, <1>5 DEF Next

LEMMA StepKeepsLog ==
  ASSUME LInv, TypeOK', StepKinds
  PROVE  LogAndStore'
<1> USE DEF LInv
<1>0. TypeOK
  BY DEF WInv
<1>1. CASE \E item \in Items : MessageStep(item)
  BY <1>1, MessageKeepsLog
<1>2. CASE ScheduleToolCall
  <2> PICK c \in Calls, status \in {"ready", "none"} :
        /\ h.calls[c] = "asked" /\ Record(StatusItem(c, status)) /\ Store(c, status)
    BY <1>2, Zenon DEF ScheduleToolCall
  <2>1. pc \in Loop
    BY <1>2 DEF ScheduleToolCall, At, Loop, Labels, Down
  <2>2. saved[c] = "none"
    <3>1. Derived.calls = h.calls
      BY <2>1, LoopCalls
    <3> QED BY <3>1 DEF LogAndStore, CallsHaveOperations
  <2>3. c \in Ops
    BY DEF Ops
  <2> QED BY <2>1, <2>2, <2>3, FirstStatusKeepsLog DEF Record
<1>3. CASE ReconcileToolCall
  <2> PICK c \in FinishedCalls : Record(StatusItem(c, h.ops[c]))
    BY <1>3, Zenon DEF ReconcileToolCall
  <2> QED BY <1>3, ResultKeepsLog DEF ReconcileToolCall, Record, At, Loop, Labels, Down
<1>4. CASE Verify
  <2> PICK k \in UnusedChecks : log' = Append(log, StatusItem(k, "ready")) /\ Store(k, "ready")
    BY <1>4, Zenon DEF Verify
  <2>1. pc \in Loop
    BY <1>4 DEF Verify, At, Loop, Labels, Down
  <2>2. saved[k] = "none" /\ k \in Ops /\ k \notin Calls
    BY UnusedAreNew
  <2> QED BY <2>1, <2>2, FirstStatusKeepsLog
<1>5. CASE TakeUpdate
  <2> DEFINE u == Head(updates)
  <2>1. /\ updates # <<>> /\ u \in [op : Ops, status : Statuses]
        /\ saved' = [saved EXCEPT ![u.op] = u.status] /\ UNCHANGED log
    BY <1>0, <1>5, UpdateSteps
  <2>2. 1 \in DOMAIN updates /\ u = updates[1]
    BY <1>0, <2>1, LenProperties, EmptySeq DEF TypeOK
  <2>3. saved[u.op] \in Unfinished
    BY <2>2 DEF UpdatesEndOnce
  <2> HIDE DEF u
  <2> QED BY <2>1, <2>3, UpdateKeepsLog
<1>6. CASE UNCHANGED <<log, saved>>
  BY <1>6, StillKeepsLog
<1>7. CASE \/ QuietStep \/ DispatchStep \/ OperationAwaits \/ \E o \in Ops : OperationEnds(o)
           \/ SaveCheckpoint \/ Start \/ ReplayItem \/ Restore \/ EndStep \/ Still
  <2>1. UNCHANGED <<log, saved>>
    BY <1>7 DEF QuietStep, DispatchStep, OperationAwaits, OperationEnds, SaveCheckpoint, Start,
                ReplayItem, Restore, EndStep, Still, Exit, durable
  <2> QED BY <1>6, <2>1
<1> QED BY <1>1, <1>2, <1>3, <1>4, <1>5, <1>7, Zenon DEF StepKinds

-----------------------------------------------------------------------------
(* What a state knows of ends                                               *)

\* An operation does not end for replay before the log says so, nor starts
\* when it does not.
LEMMA ItemEnds ==
  ASSUME NEW d \in DerivedState, NEW item \in Items, NEW o \in Ops
  PROVE  /\ Finishes(item, o) => AddItem(d, item).ops[o] \notin Unfinished
         /\ AddItem(d, item).ops[o] \in Unfinished => d.ops[o] \in Unfinished \/ Starts(item, o)
<1>1. CASE item.kind \in {"input", "turn", "response"}
  <2>1. AddItem(d, item).ops = d.ops
    BY <1>1, MessageCalls
  <2> QED BY <1>1, <2>1 DEF Finishes
<1>2. CASE item.kind = "status"
  <2>1. item.op \in Ops /\ item.status \in Statuses \cup {"none"}
    BY <1>2, ItemFields
  <2>2. AddItem(d, item).ops = IF item.status = "none" THEN d.ops
                               ELSE [d.ops EXCEPT ![item.op] = item.status]
    <3>1. AddItem(d, item) = AddStatus(d, item.op, item.status)
      BY <1>2, Zenon DEF AddItem
    <3> QED BY <3>1, ZenonT(60) DEF AddStatus, DerivedState
  <2>3. d.ops \in [Ops -> Statuses \cup {"none"}]
    BY Zenon DEF DerivedState
  <2> QED BY <1>2, <2>1, <2>2, <2>3 DEF Finishes, Starts, Unfinished, Terminal
<1>3. CASE item.kind = "fork"
  <2>1. AddItem(d, item).ops = [x \in Ops |-> "none"]
    BY <1>3, Zenon DEF AddItem, AddFork, DerivedState
  <2> QED BY <1>3, <2>1 DEF Finishes, Unfinished
<1> QED BY <1>1, <1>2, <1>3, ItemFields

\* The positions of checkpoints are in the log.
LEMMA CheckpointsAreIn ==
  ASSUME RInv
  PROVE  \A c \in ckpt : c.at \in Nat /\ c.at <= Len(log)
BY DEF RInv, TypeOK, Checkpoints, CheckpointIsAt

\* The log and the store hold what they held, and items appended to the log
\* are after all checkpoints.
LEMMA CheckpointsKnow ==
  ASSUME LInv, ckpt' = ckpt, log' = log \/ \E item \in Items : log' = Append(log, item)
  PROVE  (\A c \in ckpt : KnowsEnds(c.state, c.at))'
<1> SUFFICES ASSUME NEW c \in ckpt PROVE KnowsEnds(c.state, c.at)'
  OBVIOUS
<1>1. c.at \in Nat /\ c.at <= Len(log) /\ KnowsEnds(c.state, c.at) /\ TypeOK /\ InheritsPrefix
  BY CheckpointsAreIn DEF LInv, EndsAreKnown, WInv
<1>2. \A o : FinishedBy(c.at, o)' <=> FinishedBy(c.at, o)
  <2>1. CASE log' = log
    BY <2>1 DEF FinishedBy
  <2>2. CASE \E item \in Items : log' = Append(log, item)
    BY <1>1, <2>2, EndsOfAppend
  <2> QED BY <2>1, <2>2
<1> QED BY <1>1, <1>2 DEF KnowsEnds

LEMMA ReplayItemKnows ==
  ASSUME LInv, ReplayItem
  PROVE  KnowsEnds(h, pos)'
<1> USE DEF LInv
<1> DEFINE n == pos + 1
           item == log[n]
<1>1. /\ log' = log /\ pos' = n /\ h' = AddItem(h, item) /\ KnowsEnds(h, pos)
      /\ n \in DOMAIN log /\ item \in Items /\ h \in DerivedState /\ pos \in Nat
  <2>1. log \in Seq(Items) /\ Len(log) \in Nat /\ DOMAIN log = 1 .. Len(log)
    BY LenProperties DEF RInv, TypeOK
  <2>2. n \in DOMAIN log /\ pos \in Nat
    BY <2>1 DEF ReplayItem, RInv, TypeOK
  <2> QED BY <2>1, <2>2, ElementOfSeq DEF ReplayItem, durable, EndsAreKnown, RInv, TypeOK
<1> SUFFICES ASSUME NEW o \in Ops, FinishedBy(n, o), h'.ops[o] \in Unfinished
             PROVE  FALSE
  BY <1>1 DEF KnowsEnds, FinishedBy
<1> PICK i \in DOMAIN log : Own(i) /\ i <= n /\ Finishes(log[i], o)
  BY DEF FinishedBy
<1>2. i \in Nat
  BY LenProperties DEF RInv, TypeOK
<1>3. ~Finishes(item, o) /\ (h.ops[o] \in Unfinished \/ Starts(item, o))
  BY <1>1, ItemEnds
<1>4. i <= pos /\ i < n
  <2>1. i # n
    BY <1>3
  <2> QED BY <1>1, <1>2, <2>1
<1>5. h.ops[o] \notin Unfinished
  BY <1>1, <1>4 DEF KnowsEnds, FinishedBy
<1>6. ~Starts(item, o)
  BY <1>1, <1>4 DEF LogAndStore, NoneStartsAgain
<1> QED BY <1>3, <1>5, <1>6

\* What a checkpoint leaves out of the operations it keeps as they are.
LEMMA SnapshotKnows ==
  ASSUME LInv, pc \in Loop
  PROVE  KnowsEnds(Snapshot(h), Len(log))
<1> USE DEF LInv
<1> SUFFICES ASSUME NEW o \in Ops, Finished(o) PROVE Snapshot(h).ops[o] \notin Unfinished
  BY DEF KnowsEnds, Finished
<1>1. h.ops[o] \notin Unfinished
  <2>1. saved[o] \in Terminal
    BY DEF LogAndStore, FinishedAreDone
  <2> QED BY <2>1 DEF StoreAgrees, Terminal, Unfinished
<1> DEFINE d == h
           ops == [x \in Ops |-> IF x \in OpenCalls(d) \/ d.ops[x] \in Unfinished
                                  THEN d.ops[x] ELSE "none"]
<1>2. ops[o] \notin Unfinished
  BY <1>1 DEF Unfinished
<1>3. Snapshot(d).ops = ops
  <2>1. d \in DerivedState
    BY DEF RInv, TypeOK
  <2> HIDE DEF d
  <2> QED BY <2>1, Zenon DEF Snapshot, DerivedState
<1> QED BY <1>2, <1>3

LEMMA StepKeepsEnds ==
  ASSUME LInv, TypeOK', StepKinds, LogAndStore'
  PROVE  EndsAreKnown'
<1> USE DEF LInv
<1>0. TypeOK /\ Fresh
  BY DEF RInv
<1>1. KnowsEnds(Derived, Len(log))'
  BY DEF LogAndStore
<1>2. ASSUME ckpt' = ckpt, log' = log \/ \E item \in Items : log' = Append(log, item),
             pc' # "replay"
      PROVE  EndsAreKnown'
  BY <1>1, <1>2, CheckpointsKnow DEF EndsAreKnown
<1>3. CASE QuietStep \/ DispatchStep \/ EndStep
  BY <1>2, <1>3 DEF QuietStep, DispatchStep, EndStep, Exit, durable, Loop, Labels, Down
<1>4. CASE \E item \in Items : MessageStep(item)
  BY <1>2, <1>4 DEF MessageStep, Loop
<1>5. CASE ScheduleToolCall \/ ReconcileToolCall \/ Verify
  <2>1. \E item \in Items : StatusStep(item)
    BY <1>0, <1>5, ScheduleSteps, ReconcileSteps, VerifySteps
  <2> QED BY <1>2, <2>1 DEF StatusStep, Loop
<1>6. CASE TakeUpdate
  BY <1>2, <1>6 DEF TakeUpdate
<1>7. CASE OperationAwaits \/ (\E o \in Ops : OperationEnds(o)) \/ Still
  <2>1. UNCHANGED <<log, ckpt, pc, pos, h>>
    BY <1>7 DEF OperationAwaits, OperationEnds, Still, durable
  <2> QED BY <1>1, <2>1 DEF EndsAreKnown, KnowsEnds, FinishedBy
<1>8. CASE SaveCheckpoint
  <2>1. pc \in Loop /\ UNCHANGED <<log, h>> /\ pc' = "inputs"
    BY <1>8 DEF SaveCheckpoint, At, Loop, Labels, Down
  <2>2. KnowsEnds(Snapshot(h), Len(log))
    BY <2>1, SnapshotKnows
  <2>3. ckpt' = ckpt \/ ckpt' = {[at |-> Len(log), state |-> Snapshot(h)]}
    BY <1>8, Zenon DEF SaveCheckpoint
  <2>4. CASE ckpt' = ckpt
    BY <1>2, <2>1, <2>4
  <2>5. CASE ckpt' = {[at |-> Len(log), state |-> Snapshot(h)]}
    <3>1. KnowsEnds(Snapshot(h), Len(log))'
      BY <2>1, <2>2 DEF KnowsEnds, FinishedBy, Snapshot
    <3>2. \A c \in ckpt' : c.at = Len(log) /\ c.state = Snapshot(h)
      BY <2>5
    <3>3. \A c \in ckpt' : \A o \in Ops : FinishedBy(c.at, o)' => c.state.ops[o] \notin Unfinished
      BY <2>1, <2>2, <3>2 DEF KnowsEnds, FinishedBy
    <3> QED BY <1>1, <2>1, <3>3 DEF EndsAreKnown, KnowsEnds
  <2> QED BY <2>3, <2>4, <2>5
<1>9. CASE Start
  <2>1. UNCHANGED <<log, ckpt>>
    BY <1>9 DEF Start, durable
  <2>2. (\A c \in ckpt : KnowsEnds(c.state, c.at))'
    BY <2>1, CheckpointsKnow
  <2>3. KnowsEnds(h, pos)'
    <3>1. CASE h' = Blank
      BY <3>1 DEF KnowsEnds, Blank, Unfinished
    <3>2. CASE \E c \in ckpt : pos' = c.at /\ h' = c.state
      BY <2>1, <3>2 DEF EndsAreKnown, KnowsEnds, FinishedBy
    <3> QED BY <1>9, <3>1, <3>2 DEF Start
  <2> QED BY <1>1, <2>2, <2>3 DEF EndsAreKnown
<1>10. CASE ReplayItem
  <2>1. UNCHANGED <<log, ckpt>>
    BY <1>10 DEF ReplayItem, durable
  <2> QED BY <1>1, <1>10, <2>1, ReplayItemKnows, CheckpointsKnow DEF EndsAreKnown
<1>11. CASE Restore
  BY <1>2, <1>11 DEF Restore, durable
<1> QED
  BY <1>3, <1>4, <1>5, <1>6, <1>7, <1>8, <1>9, <1>10, <1>11, Zenon DEF StepKinds

-----------------------------------------------------------------------------
(* The loop and the store                                                   *)

\* What is not restored from the store the store has not, or the session said
\* how it ended.
LEMMA NotRestored ==
  ASSUME TypeOK, NEW o \in Ops, ~Restorable(o)
  PROVE  saved[o] = "none" \/ (saved[o] \in Terminal /\ Finished(o))
<1>1. saved[o] \in Statuses \cup {"none"}
  BY StoredTypes
<1>2. saved[o] # "none" =>
        saved[o] \notin Unfinished /\ \E i \in DOMAIN log : i > Len(Inherited) /\ Finishes(log[i], o)
  BY DEF Restorable
<1>3. \A i \in DOMAIN log : i <= Len(log)
  BY LenProperties DEF TypeOK
<1> QED BY <1>1, <1>2, <1>3, StoredTypes DEF Finished, FinishedBy, Own

LEMMA RestoreFromStore ==
  ASSUME LInv, Restore
  PROVE  \A o \in Ops : h'.ops[o] \in Unfinished <=> saved[o] \in Unfinished
<1> USE DEF LInv
<1> SUFFICES ASSUME NEW o \in Ops
             PROVE  h'.ops[o] \in Unfinished <=> saved[o] \in Unfinished
  OBVIOUS
<1>1. /\ pc = "replay" /\ pos = Len(log) /\ h' = RestoreOperations(h) /\ h \in DerivedState
      /\ TypeOK
  BY DEF Restore, RInv, TypeOK
<1>2. h'.ops[o] = IF Restorable(o) THEN saved[o] ELSE h.ops[o]
  BY <1>1, RestoreOperationsAgrees
<1>3. ASSUME ~Restorable(o) PROVE h.ops[o] \notin Unfinished /\ saved[o] \notin Unfinished
  <2>1. CASE saved[o] = "none"
    <3>1. pos >= Len(Inherited)
      BY <1>1 DEF WInv, InheritsPrefix
    <3>2. h.ops[o] = "none"
      BY <2>1, <3>1 DEF WInv, KnownAreRecorded, Recorded
    <3> QED BY <2>1, <3>2 DEF Unfinished
  <2>2. CASE saved[o] \in Terminal /\ Finished(o)
    BY <1>1, <2>2 DEF EndsAreKnown, KnowsEnds, Finished, Unfinished, Terminal
  <2> QED BY <1>1, <1>3, <2>1, <2>2, NotRestored
<1> QED BY <1>2, <1>3

\* The loop and the store take the same update.
LEMMA UpdateTaken ==
  ASSUME LInv, TypeOK', TakeUpdate
  PROVE  LET u == Head(updates) IN
           /\ updates # <<>> /\ 1 \in DOMAIN updates /\ u = updates[1]
           /\ u.op \in Ops /\ u.status \in Statuses
           /\ saved[u.op] \in Unfinished
           /\ u.status \in Terminal =>
                mgr[u.op] = "gone" /\ \A j \in DOMAIN updates : j > 1 => updates[j].op # u.op
           /\ saved'[u.op] = u.status /\ h'.ops[u.op] = u.status
           /\ \A o \in Ops : o # u.op => saved'[o] = saved[o] /\ h'.ops[o] = h.ops[o]
           /\ DOMAIN updates' = 1 .. Len(updates') /\ Len(updates') \in Nat
           /\ \A i \in DOMAIN updates' :
                i + 1 \in DOMAIN updates /\ i + 1 > 1 /\ updates'[i] = updates[i + 1]
           /\ mgr' = mgr
<1> USE DEF LInv
<1> DEFINE u == Head(updates)
<1>0. TypeOK
  BY DEF RInv
<1>1. /\ updates # <<>> /\ u \in [op : Ops, status : Statuses]
      /\ updates' = Tail(updates)
      /\ saved' = [saved EXCEPT ![u.op] = u.status]
      /\ h'.ops = [h.ops EXCEPT ![u.op] = u.status]
      /\ mgr' = mgr
  BY <1>0, UpdateSteps
<1>2. /\ updates \in Seq([op : Ops, status : Statuses])
      /\ Len(updates) \in Nat /\ DOMAIN updates = 1 .. Len(updates) /\ Len(updates) # 0
  BY <1>0, <1>1, LenProperties, EmptySeq DEF TypeOK
<1>3. 1 \in DOMAIN updates /\ u = updates[1]
  BY <1>1, <1>2
<1>4. /\ updates' \in Seq([op : Ops, status : Statuses]) /\ Len(updates') = Len(updates) - 1
      /\ \A i \in 1 .. Len(updates') : updates'[i] = updates[i + 1]
  <2>1. /\ Tail(updates) \in Seq([op : Ops, status : Statuses])
        /\ Len(Tail(updates)) = Len(updates) - 1
        /\ \A i \in 1 .. Len(Tail(updates)) : Tail(updates)[i] = updates[i + 1]
    BY <1>1, <1>2, HeadTailProperties, Zenon
  <2> QED BY <1>1, <2>1, Zenon
<1>5. DOMAIN updates' = 1 .. Len(updates') /\ Len(updates') \in Nat
  BY <1>4, LenProperties, Zenon
<1>6. \A i \in DOMAIN updates' :
        i + 1 \in DOMAIN updates /\ i + 1 > 1 /\ updates'[i] = updates[i + 1]
  BY <1>2, <1>4, <1>5
<1>7. /\ saved[u.op] \in Unfinished
      /\ u.status \in Terminal =>
           mgr[u.op] = "gone" /\ \A j \in DOMAIN updates : j > 1 => updates[j].op # u.op
  BY <1>3 DEF UpdatesEndOnce
<1>8. u.op \in Ops /\ u.status \in Statuses
  BY <1>1
<1> HIDE DEF u
<1>9. /\ saved'[u.op] = u.status /\ h'.ops[u.op] = u.status
      /\ \A o \in Ops : o # u.op => saved'[o] = saved[o] /\ h'.ops[o] = h.ops[o]
  <2>1. saved \in [Ops -> Statuses \cup {"none"}] /\ h.ops \in [Ops -> Statuses \cup {"none"}]
    BY <1>0, StoredTypes, Zenon DEF TypeOK, DerivedState
  <2> QED BY <1>1, <1>8, <2>1
<1> QED BY <1>1, <1>3, <1>5, <1>6, <1>7, <1>8, <1>9 DEF u

\* A first status starts its operation in the loop and in the store.
LEMMA FirstStatusTaken ==
  ASSUME LInv, TypeOK', ScheduleToolCall \/ Verify
  PROVE  /\ \A o \in Ops : \/ saved'[o] = saved[o] /\ h'.ops[o] = h.ops[o]
                           \/ /\ saved[o] = "none" /\ saved'[o] = "ready"
                              /\ h'.ops[o] = "ready"
         /\ UNCHANGED <<mgr, updates>> /\ pc \in {"schedule", "verify"}
<1> USE DEF LInv
<1>0. TypeOK
  BY DEF RInv
<1>1. ASSUME NEW o \in Ops, NEW status \in {"ready", "none"}, Store(o, status),
             h'.ops = AddItem(h, StatusItem(o, status)).ops, saved[o] = "none"
      PROVE  \A x \in Ops : \/ saved'[x] = saved[x] /\ h'.ops[x] = h.ops[x]
                           \/ /\ saved[x] = "none" /\ saved'[x] = "ready"
                              /\ h'.ops[x] = "ready"
  <2>1. h \in DerivedState /\ status \in Statuses \cup {"none"}
    BY <1>0 DEF TypeOK, Statuses, Unfinished
  <2>2. h'.ops = IF status = "none" THEN h.ops ELSE [h.ops EXCEPT ![o] = status]
    <3>1. AddItem(h, StatusItem(o, status)).ops =
            IF status = "none" THEN h.ops ELSE [h.ops EXCEPT ![o] = status]
      BY <2>1, StatusOps, Zenon
    <3> QED BY <1>1, <3>1, Zenon
  <2>4. h.ops \in [Ops -> Statuses \cup {"none"}]
    BY <2>1, Zenon DEF DerivedState
  <2>3. /\ saved' = IF status = "none" THEN saved ELSE [saved EXCEPT ![o] = status]
        /\ saved \in [Ops -> Statuses \cup {"none"}]
    BY <1>0, <1>1, StoredTypes DEF Store
  <2> QED BY <1>1, <2>2, <2>3, <2>4
<1>2. CASE ScheduleToolCall
  <2> PICK c \in Calls, status \in {"ready", "none"} :
        /\ StatusStep(StatusItem(c, status))
        /\ h.calls[c] = "asked" /\ Store(c, status) /\ pc = "schedule"
    BY <1>0, <1>2, ScheduleSteps, Zenon
  <2>1. saved[c] = "none" /\ c \in Ops
    <3>1. Derived.calls = h.calls
      BY LoopCalls DEF StatusStep
    <3> QED BY <3>1 DEF LogAndStore, CallsHaveOperations, Ops
  <2> QED BY <1>1, <2>1 DEF StatusStep, manager
<1>3. CASE Verify
  <2> PICK k \in UnusedChecks :
        StatusStep(StatusItem(k, "ready")) /\ Store(k, "ready") /\ pc = "verify"
    BY <1>0, <1>3, VerifySteps, Zenon
  <2>1. saved[k] = "none" /\ k \in Ops
    BY UnusedAreNew
  <2> QED BY <1>1, <2>1 DEF StatusStep, manager
<1> QED BY <1>2, <1>3

\* A result changes neither.
LEMMA ResultTaken ==
  ASSUME LInv, TypeOK', ReconcileToolCall
  PROVE  saved' = saved /\ h'.ops = h.ops /\ UNCHANGED <<mgr, updates>>
<1>0. TypeOK
  BY DEF LInv, RInv
<1> PICK c \in FinishedCalls :
      StatusStep(StatusItem(c, h.ops[c])) /\ UNCHANGED saved
  BY <1>0, ReconcileSteps, Zenon
<1>1. c \in Ops /\ h.ops[c] \in Statuses /\ h.ops[c] # "none" /\ h \in DerivedState
  BY <1>0 DEF FinishedCalls, Ops, Statuses, Terminal, TypeOK
<1>2. AddItem(h, StatusItem(c, h.ops[c])).ops = [h.ops EXCEPT ![c] = h.ops[c]]
  <2> DEFINE status == h.ops[c]
  <2>1. status \in Statuses \cup {"none"} /\ status # "none"
    BY <1>1
  <2> HIDE DEF status
  <2>2. AddItem(h, StatusItem(c, status)).ops = [h.ops EXCEPT ![c] = status]
    BY <1>1, <2>1, StatusOps, Zenon
  <2> QED BY <2>2 DEF status
<1>3. h'.ops = h.ops
  <2>1. h.ops \in [Ops -> Statuses \cup {"none"}]
    BY <1>1, Zenon DEF DerivedState
  <2> QED BY <1>2, <2>1 DEF StatusStep
<1> QED BY <1>3 DEF StatusStep, manager

LEMMA MessageTaken ==
  ASSUME TypeOK, NEW item \in Items, MessageStep(item)
  PROVE  h'.ops = h.ops /\ UNCHANGED <<saved, mgr, updates>> /\ pc \in Loop
BY MessageCalls DEF MessageStep, manager, TypeOK

LEMMA StepKeepsAgreement ==
  ASSUME LInv, TypeOK', StepKinds
  PROVE  StoreAgrees'
<1> USE DEF LInv
<1>0. TypeOK
  BY DEF RInv
<1>1. ASSUME pc \in Loop, h'.ops = h.ops, saved' = saved PROVE StoreAgrees'
  BY <1>1 DEF StoreAgrees
<1>2. CASE QuietStep \/ DispatchStep
  BY <1>1, <1>2 DEF QuietStep, DispatchStep, durable
<1>3. CASE \E item \in Items : MessageStep(item)
  BY <1>0, <1>1, <1>3, MessageTaken
<1>4. CASE ScheduleToolCall \/ Verify
  <2>1. pc \in Loop
    BY <1>4, FirstStatusTaken DEF Loop, Labels, Down
  <2>2. "ready" \in Unfinished
    BY DEF Unfinished
  <2> QED BY <1>4, <2>1, <2>2, FirstStatusTaken DEF StoreAgrees
<1>5. CASE ReconcileToolCall
  BY <1>1, <1>5, ResultTaken DEF ReconcileToolCall, At, Loop, Labels, Down
<1>6. CASE TakeUpdate
  <2>1. pc \in Loop
    BY <1>6 DEF TakeUpdate, At, Loop, Labels, Down
  <2> QED BY <1>6, <2>1, UpdateTaken DEF StoreAgrees
<1>7. CASE OperationAwaits \/ (\E o \in Ops : OperationEnds(o)) \/ Still
  BY <1>7 DEF OperationAwaits, OperationEnds, Still, durable, StoreAgrees
<1>8. CASE SaveCheckpoint
  BY <1>1, <1>8 DEF SaveCheckpoint, At, Loop, Labels, Down
<1>9. CASE Start \/ ReplayItem \/ EndStep
  BY <1>9 DEF Start, ReplayItem, EndStep, Exit, StoreAgrees, Loop, Down
<1>10. CASE Restore
  BY <1>10, RestoreFromStore DEF StoreAgrees, Restore, durable
<1> QED BY <1>2, <1>3, <1>4, <1>5, <1>6, <1>7, <1>8, <1>9, <1>10, Zenon DEF StepKinds

-----------------------------------------------------------------------------
(* The manager *)

\* What the manager is given has not ended.
LEMMA DispatchedAreUnfinished ==
  ASSUME LInv, DispatchStep
  PROVE  /\ UNCHANGED <<saved, updates>>
         /\ \A o \in Ops :
              \/ mgr'[o] = mgr[o]
              \/ /\ mgr[o] \in {"absent", "running"} /\ mgr'[o] \in {"running", "canceling"}
                 /\ saved[o] \in Unfinished
<1> USE DEF LInv
<1>1. UNCHANGED <<saved, updates>> /\ pc \in Loop
  BY DEF DispatchStep, durable
<1>2. CASE \E ops : Dispatch(ops)
  <2>1. \A o \in Ops : mgr'[o] = mgr[o] \/ (mgr[o] = "absent" /\ mgr'[o] = "running"
                                            /\ h.ops[o] \in Unfinished)
    BY <1>2 DEF Dispatch
  <2> QED BY <1>1, <2>1 DEF StoreAgrees
<1>3. CASE CancelOperations
  <2>1. \A o \in Ops : mgr'[o] = mgr[o] \/ (mgr[o] = "running" /\ mgr'[o] = "canceling")
    BY <1>3 DEF CancelOperations
  <2> QED BY <1>1, <2>1 DEF ManagedAreUnfinished
<1> QED BY <1>1, <1>2, <1>3 DEF DispatchStep

\* An update that is queued is of an operation at work, and its last when it
\* says that this ended.
LEMMA QueuedUpdates ==
  ASSUME LInv, TypeOK', OperationAwaits \/ \E o \in Ops : OperationEnds(o)
  PROVE  /\ ManagedAreUnfinished' /\ UpdatesEndOnce'
         /\ UNCHANGED <<durable, pc, pos, h, r, todo>>
         /\ \E o \in Ops : mgr' = mgr \/ (mgr[o] \in {"running", "canceling"}
                                         /\ mgr' = [mgr EXCEPT ![o] = "gone"])
<1> USE DEF LInv
<1>0. /\ TypeOK /\ updates \in Seq([op : Ops, status : Statuses])
      /\ Len(updates) \in Nat /\ DOMAIN updates = 1 .. Len(updates)
  BY LenProperties DEF RInv, TypeOK
<1>1. ASSUME NEW o \in Ops, mgr[o] \in {"running", "canceling"}, NEW status \in Statuses,
             updates' = Append(updates, [op |-> o, status |-> status]), saved' = saved,
             \/ mgr' = mgr /\ status \notin Terminal
             \/ mgr' = [mgr EXCEPT ![o] = "gone"]
      PROVE  ManagedAreUnfinished' /\ UpdatesEndOnce'
  <2> DEFINE u == [op |-> o, status |-> status]
  <2>1. u \in [op : Ops, status : Statuses] /\ u.op = o /\ u.status = status
    OBVIOUS
  <2> HIDE DEF u
  <2>2. updates' = Append(updates, u)
    BY <1>1 DEF u
  <2>3. /\ DOMAIN updates' = 1 .. Len(updates) + 1
        /\ \A i \in 1 .. Len(updates) : updates'[i] = updates[i]
        /\ updates'[Len(updates) + 1] = u
    <3>1. /\ updates' \in Seq([op : Ops, status : Statuses]) /\ Len(updates') = Len(updates) + 1
          /\ \A i \in 1 .. Len(updates) : updates'[i] = updates[i]
          /\ updates'[Len(updates) + 1] = u
      BY <1>0, <2>1, <2>2, AppendProperties
    <3> QED BY <3>1, LenProperties
  <2>4. \A x \in Ops : mgr'[x] = mgr[x] \/ (x = o /\ mgr'[x] = "gone")
    BY <1>0, <1>1, StoredTypes
  <2>5. ManagedAreUnfinished'
    BY <1>1, <2>4 DEF ManagedAreUnfinished
  <2>6. saved[o] \in Unfinished /\ mgr[o] # "gone"
    BY <1>1 DEF ManagedAreUnfinished
  <2>7. status \in Terminal => mgr'[o] = "gone"
    BY <1>0, <1>1, StoredTypes
  <2>8. \A i \in 1 .. Len(updates) : updates[i].op \in Ops
    <3>1. \A i \in 1 .. Len(updates) : updates[i] \in [op : Ops, status : Statuses]
      BY <1>0, ElementOfSeq
    <3> QED BY <3>1
  <2>9. UpdatesEndOnce'
    <3> SUFFICES ASSUME NEW i \in DOMAIN updates'
                 PROVE  /\ saved[updates'[i].op] \in Unfinished
                        /\ updates'[i].status \in Terminal =>
                             /\ mgr'[updates'[i].op] = "gone"
                             /\ \A j \in DOMAIN updates' : j > i => updates'[j].op # updates'[i].op
      BY <1>1 DEF UpdatesEndOnce
    <3>1. CASE i \in 1 .. Len(updates)
      <4>1. updates'[i] = updates[i] /\ i \in DOMAIN updates
        BY <1>0, <2>3, <3>1
      <4>2. saved[updates[i].op] \in Unfinished
        BY <4>1 DEF UpdatesEndOnce
      <4>3. ASSUME updates[i].status \in Terminal
            PROVE  /\ mgr'[updates[i].op] = "gone"
                   /\ \A j \in DOMAIN updates' : j > i => updates'[j].op # updates[i].op
        <5>1. /\ mgr[updates[i].op] = "gone" /\ updates[i].op \in Ops
              /\ \A j \in DOMAIN updates : j > i => updates[j].op # updates[i].op
          BY <2>8, <3>1, <4>1, <4>3 DEF UpdatesEndOnce
        <5>2. updates[i].op # o
          BY <2>6, <5>1
        <5> QED BY <1>0, <2>1, <2>3, <2>4, <5>1, <5>2
      <4> QED BY <4>1, <4>2, <4>3
    <3>2. CASE i = Len(updates) + 1
      BY <1>0, <2>1, <2>3, <2>6, <2>7, <3>2
    <3> QED BY <2>3, <3>1, <3>2, <1>0
  <2> QED BY <2>5, <2>9
<1>2. CASE OperationAwaits
  <2> PICK o \in Ops : /\ mgr[o] = "running"
                       /\ updates' = Append(updates, [op |-> o, status |-> "awaiting"])
    BY <1>2, Zenon DEF OperationAwaits
  <2>1. "awaiting" \in Statuses /\ "awaiting" \notin Terminal
    BY DEF Statuses, Unfinished, Terminal
  <2>2. UNCHANGED <<durable, pc, pos, h, r, todo, mgr>>
    BY <1>2 DEF OperationAwaits
  <2> QED BY <1>1, <2>1, <2>2 DEF durable
<1>3. CASE \E o \in Ops : OperationEnds(o)
  <2> PICK o \in Ops : OperationEnds(o)
    BY <1>3
  <2> PICK status \in Terminal : updates' = Append(updates, [op |-> o, status |-> status])
    BY DEF OperationEnds, Terminal
  <2>1. /\ status \in Statuses /\ mgr[o] \in {"running", "canceling"}
        /\ mgr' = [mgr EXCEPT ![o] = "gone"] /\ UNCHANGED <<durable, pc, pos, h, r, todo>>
    BY DEF OperationEnds, Statuses
  <2> QED BY <1>1, <2>1 DEF durable
<1> QED BY <1>2, <1>3

LEMMA StepKeepsManaged ==
  ASSUME LInv, TypeOK', StepKinds
  PROVE  ManagedAreUnfinished' /\ UpdatesEndOnce'
<1> USE DEF LInv
<1>0. TypeOK /\ \A i \in DOMAIN updates : updates[i].op \in Ops
  <2>1. TypeOK /\ updates \in Seq([op : Ops, status : Statuses])
    BY DEF RInv, TypeOK
  <2>2. \A i \in DOMAIN updates : updates[i] \in [op : Ops, status : Statuses]
    BY <2>1, ElementOfSeq, LenProperties
  <2> QED BY <2>1, <2>2
<1>1. CASE UNCHANGED <<saved, mgr, updates>>
  BY <1>1 DEF ManagedAreUnfinished, UpdatesEndOnce
<1>2. CASE QuietStep \/ SaveCheckpoint \/ Start \/ ReplayItem \/ Restore \/ Still
  BY <1>1, <1>2 DEF QuietStep, SaveCheckpoint, Start, ReplayItem, Restore, Still, durable, manager
<1>3. CASE (\E item \in Items : MessageStep(item)) \/ ReconcileToolCall
  BY <1>0, <1>1, <1>3, MessageTaken, ResultTaken
<1>4. CASE ScheduleToolCall \/ Verify
  <2>1. /\ \A o \in Ops : saved[o] \in Unfinished => saved'[o] \in Unfinished
        /\ UNCHANGED <<mgr, updates>>
    BY <1>4, FirstStatusTaken DEF Unfinished
  <2> QED BY <1>0, <2>1 DEF ManagedAreUnfinished, UpdatesEndOnce
<1>5. CASE TakeUpdate
  <2> DEFINE u == Head(updates)
  <2>1. /\ u.op \in Ops /\ u.status \in Unfinished \cup Terminal
        /\ u.status \in Terminal =>
             mgr[u.op] = "gone" /\ \A j \in DOMAIN updates : j > 1 => updates[j].op # u.op
        /\ saved'[u.op] = u.status
        /\ \A o \in Ops : o # u.op => saved'[o] = saved[o]
        /\ \A i \in DOMAIN updates' :
             i + 1 \in DOMAIN updates /\ i + 1 > 1 /\ updates'[i] = updates[i + 1]
        /\ DOMAIN updates' = 1 .. Len(updates') /\ Len(updates') \in Nat
        /\ mgr' = mgr
    BY <1>5, UpdateTaken DEF Statuses
  <2> HIDE DEF u
  <2>2. ManagedAreUnfinished'
    <3> SUFFICES ASSUME NEW o \in Ops, mgr[o] \in {"running", "canceling"}
                 PROVE  saved'[o] \in Unfinished
      BY <2>1 DEF ManagedAreUnfinished
    <3> QED BY <2>1 DEF ManagedAreUnfinished
  <2>3. UpdatesEndOnce'
    <3> SUFFICES ASSUME NEW i \in DOMAIN updates'
                 PROVE  /\ saved'[updates'[i].op] \in Unfinished
                        /\ updates'[i].status \in Terminal =>
                             /\ mgr[updates'[i].op] = "gone"
                             /\ \A j \in DOMAIN updates' : j > i => updates'[j].op # updates'[i].op
      BY <2>1 DEF UpdatesEndOnce
    <3> DEFINE v == updates[i + 1]
    <3>1. /\ i + 1 \in DOMAIN updates /\ i + 1 > 1 /\ updates'[i] = v /\ v.op \in Ops
          /\ saved[v.op] \in Unfinished
      BY <1>0, <2>1 DEF UpdatesEndOnce
    <3>2. saved'[v.op] \in Unfinished
      BY <2>1, <3>1
    <3>3. ASSUME v.status \in Terminal
          PROVE  mgr[v.op] = "gone" /\ \A j \in DOMAIN updates' : j > i => updates'[j].op # v.op
      <4>1. /\ mgr[v.op] = "gone"
            /\ \A j \in DOMAIN updates : j > i + 1 => updates[j].op # v.op
        BY <3>1, <3>3 DEF UpdatesEndOnce
      <4>2. \A j \in DOMAIN updates' : j > i => j + 1 > i + 1
        BY <2>1
      <4> QED BY <2>1, <4>1, <4>2
    <3> QED BY <3>1, <3>2, <3>3
  <2> QED BY <2>2, <2>3
<1>6. CASE DispatchStep
  BY <1>0, <1>6, DispatchedAreUnfinished DEF ManagedAreUnfinished, UpdatesEndOnce
<1>7. CASE OperationAwaits \/ \E o \in Ops : OperationEnds(o)
  BY <1>7, QueuedUpdates
<1>8. CASE EndStep
  <2>1. mgr' = [o \in Ops |-> "absent"] /\ updates' = <<>>
    BY <1>8 DEF EndStep, Exit
  <2> QED BY <2>1 DEF ManagedAreUnfinished, UpdatesEndOnce
<1> QED BY <1>2, <1>3, <1>4, <1>5, <1>6, <1>7, <1>8, Zenon DEF StepKinds

-----------------------------------------------------------------------------
(* The calls *)

\* The calls of the loop as they come along.
LEMMA StepKeepsCalls ==
  ASSUME LInv, TypeOK', StepKinds
  PROVE  CallsAreScheduled' /\ WaitingHaveOperations' /\ ResultsAreRecorded'
<1> USE DEF LInv, CallsAreScheduled, WaitingHaveOperations, ResultsAreRecorded
<1>0. TypeOK /\ h \in DerivedState
  BY DEF RInv, TypeOK
<1>1. ASSUME pc \in Loop, h'.calls = h.calls, h'.ops = h.ops,
             pc = "schedule" /\ pc' # "schedule" => \A c \in Calls : h.calls[c] # "asked",
             pc' \in {"due", "decide"} => pc \in {"due", "decide"} \/ FinishedCalls = {}
      PROVE  CallsAreScheduled' /\ WaitingHaveOperations' /\ ResultsAreRecorded'
  BY <1>1 DEF FinishedCalls
<1>2. CASE QuietStep /\ ComesAlong
  BY <1>1, <1>2 DEF QuietStep, ComesAlong, Agrees
<1>3. CASE \E item \in Items : MessageStep(item)
  <2> PICK item \in Items : MessageStep(item)
    BY <1>3
  <2>1. /\ pc \in Loop /\ h' = AddItem(h, item) /\ item.kind \in {"input", "turn", "response"}
        /\ pc' = pc \/ (pc # "schedule" /\ pc' \notin {"due", "decide"})
        /\ item.kind = "response" => pc' # pc /\ (pc' = "schedule" \/ item.calls = {})
    BY DEF MessageStep
  <2>2. /\ h'.ops = h.ops
        /\ \A c \in Calls : \/ h'.calls[c] = h.calls[c]
                            \/ item.kind = "response" /\ c \in item.calls /\ h'.calls[c] = "asked"
    BY <1>0, <2>1, MessageCalls
  <2>3. CallsAreScheduled' /\ WaitingHaveOperations'
    BY <2>1, <2>2
  <2>4. ResultsAreRecorded'
    BY <2>1, <2>2 DEF FinishedCalls
  <2> QED BY <2>3, <2>4
<1>4. CASE ScheduleToolCall
  <2> PICK c \in Calls, status \in {"ready", "none"} :
        /\ StatusStep(StatusItem(c, status))
        /\ h.calls[c] = "asked" /\ pc = "schedule" /\ pc' = "schedule"
    BY <1>0, <1>4, ScheduleSteps, Zenon
  <2> DEFINE e == AddItem(h, StatusItem(c, status))
  <2>1. c \in Ops /\ status \in Statuses \cup {"none"}
    BY DEF Ops, Statuses, Unfinished
  <2>2. h'.calls = e.calls /\ h'.ops = e.ops
    BY DEF StatusStep, Agrees
  <2>3. /\ e.ops = IF status = "none" THEN h.ops ELSE [h.ops EXCEPT ![c] = status]
        /\ e.calls = IF c \notin OpenCalls(h) THEN h.calls
                     ELSE [h.calls EXCEPT ![c] = IF status \in Unfinished THEN "waiting"
                                                 ELSE "done"]
        /\ h.ops \in [Ops -> Statuses \cup {"none"}] /\ h.calls \in [Calls -> CallStates]
    BY <1>0, <2>1, StatusCalls
  <2> HIDE DEF e
  <2>4. \A x \in Calls : h'.calls[x] = "waiting" => h'.ops[x] # "none"
    <3> TAKE x \in Calls
    <3>1. x \in Ops /\ (h.calls[x] = "waiting" => h.ops[x] # "none")
      BY DEF Ops, StatusStep
    <3>2. CASE x = c
      BY <2>1, <2>2, <2>3, <3>2 DEF OpenCalls, Open, Unfinished
    <3>3. CASE x # c
      BY <2>1, <2>2, <2>3, <3>1, <3>3
    <3> QED BY <3>2, <3>3
  <2> QED BY <2>4
<1>5. CASE ReconcileToolCall
  <2> PICK c \in FinishedCalls :
        StatusStep(StatusItem(c, h.ops[c])) /\ pc = "reconcile" /\ pc' = "reconcile"
    BY <1>0, <1>5, ReconcileSteps, Zenon
  <2> DEFINE status == h.ops[c]
             e == AddItem(h, StatusItem(c, status))
  <2>1. /\ c \in Calls /\ c \in Ops /\ status \in Statuses \cup {"none"} /\ status # "none"
        /\ status \notin Unfinished
    BY DEF FinishedCalls, Ops, Statuses, Unfinished, Terminal
  <2> HIDE DEF status
  <2>2. e.calls = IF c \notin OpenCalls(h) THEN h.calls
                  ELSE [h.calls EXCEPT ![c] = IF status \in Unfinished THEN "waiting" ELSE "done"]
    BY <1>0, <2>1, StatusCalls
  <2>3. h.calls \in [Calls -> CallStates] /\ h'.ops = h.ops
    BY <1>0, <1>5, ResultTaken, Zenon DEF DerivedState
  <2>4. h'.calls = e.calls
    BY DEF StatusStep, Agrees, status
  <2> HIDE DEF e
  <2>5. \A x \in Calls : h'.calls[x] = h.calls[x] \/ h'.calls[x] = "done"
    BY <2>1, <2>2, <2>3, <2>4
  <2> QED BY <2>3, <2>5 DEF StatusStep
<1>6. CASE Verify
  <2> PICK k \in UnusedChecks :
        StatusStep(StatusItem(k, "ready")) /\ pc = "verify" /\ pc' = "dispatch"
    BY <1>0, <1>6, VerifySteps, Zenon
  <2> DEFINE e == AddItem(h, StatusItem(k, "ready"))
  <2>1. k \in Ops /\ k \notin Calls /\ "ready" \in Statuses \cup {"none"} /\ Calls \subseteq Ops
    BY UnusedAreNew DEF Statuses, Unfinished, Ops
  <2>2. /\ e.ops = [h.ops EXCEPT ![k] = "ready"]
        /\ e.calls = IF k \notin OpenCalls(h) THEN h.calls
                     ELSE [h.calls EXCEPT ![k] = IF "ready" \in Unfinished THEN "waiting"
                                                 ELSE "done"]
        /\ h.ops \in [Ops -> Statuses \cup {"none"}]
    BY <1>0, <2>1, StatusCalls
  <2>3. h'.calls = h.calls /\ \A c \in Calls : h'.ops[c] = h.ops[c]
    BY <2>1, <2>2 DEF StatusStep, Agrees, OpenCalls
  <2> QED BY <2>3 DEF StatusStep
<1>7. CASE TakeUpdate
  <2>1. /\ pc \in {"select", "updates"} /\ pc' \in {"inputs", "updates"}
        /\ h'.calls = h.calls
    BY <1>0, <1>7, UpdateSteps DEF Agrees
  <2>2. \A o \in Ops : h'.ops[o] = h.ops[o] \/ h'.ops[o] # "none"
    <3>1. \A o \in Ops : h'.ops[o] = h.ops[o] \/ h'.ops[o] \in Statuses
      BY <1>7, UpdateTaken
    <3> QED BY <3>1, StoredTypes, <1>0
  <2> QED BY <2>1, <2>2 DEF Ops, Loop, Labels, Down
<1>8. CASE DispatchStep
  BY <1>1, <1>8 DEF DispatchStep
<1>9. CASE OperationAwaits \/ (\E o \in Ops : OperationEnds(o)) \/ Still
  <2>1. UNCHANGED <<pc, h>>
    BY <1>9 DEF OperationAwaits, OperationEnds, Still
  <2> QED BY <2>1 DEF FinishedCalls
<1>10. CASE SaveCheckpoint
  BY <1>1, <1>10 DEF SaveCheckpoint, At, Loop, Labels, Down
<1>11. CASE Start \/ ReplayItem \/ EndStep
  BY <1>11 DEF Start, ReplayItem, EndStep, Exit, Loop, Down
<1>12. CASE Restore
  <2>1. pc = "replay" /\ pos = Len(log) /\ pc' = "schedule" /\ h' = RestoreOperations(h)
    BY <1>12 DEF Restore
  <2>2. /\ h'.calls = Derived.calls
        /\ h'.ops = [o \in Ops |-> IF Restorable(o) THEN saved[o] ELSE h.ops[o]]
    BY <1>0, <2>1, RestoreOperationsAgrees DEF Agrees, RInv, ReplayIsAt, Derived
  <2>3. ASSUME NEW c \in Calls, h'.calls[c] = "waiting" PROVE h'.ops[c] # "none"
    <3>1. c \in Ops /\ saved[c] # "none"
      BY <2>2, <2>3 DEF LogAndStore, CallsHaveOperations, Ops
    <3>2. Restorable(c)
      BY <1>0, <2>2, <2>3, <3>1, NotRestored DEF LogAndStore, FinishedAreDone
    <3> QED BY <2>2, <3>1, <3>2
  <2> QED BY <2>1, <2>3
<1> QED
  BY <1>2, <1>3, <1>4, <1>5, <1>6, <1>7, <1>8, <1>9, <1>10, <1>11, <1>12, Zenon DEF StepKinds

-----------------------------------------------------------------------------
(* The run *)

\* A step that starts neither the loop nor the model, and cancels nothing.
RunGoesOn ==
  /\ r'.started = r.started /\ r'.cancelled = r.cancelled
  /\ r.stop = "hard" => r'.stop = "hard"
  /\ r'.live => r.live

LEMMA LoopRunGoesOn ==
  ASSUME TypeOK,
         \/ ScheduledAll \/ ReconciledAll \/ InputsSlurped \/ UpdatesSlurped \/ TakeInput
         \/ Timers \/ DropResult \/ QuotaRefuses \/ SummaryOverflows
         \/ CountTurn \/ AnswerStands \/ AnswerCut \/ AnswerRefused \/ AnswerWhole
         \/ ProcessDue \/ Decide \/ DropCompaction \/ TellFirst
  PROVE  RunGoesOn
<1>0. r \in RunState
  BY DEF TypeOK
<1>1. ASSUME UNCHANGED r PROVE RunGoesOn
  BY <1>1 DEF RunGoesOn
<1>2. CASE ScheduledAll \/ ReconciledAll \/ InputsSlurped \/ UpdatesSlurped \/ DropResult
  BY <1>1, <1>2 DEF ScheduledAll, ReconciledAll, InputsSlurped, UpdatesSlurped, DropResult
<1>3. CASE TakeInput
  <2>1. \/ UNCHANGED r
        \/ r' = [r EXCEPT !.deferred = Append(@, Head(queued))]
        \/ r' = [r EXCEPT !.deferred = <<>>, !.timer = FALSE, !.waited = FALSE]
    BY <1>3, Zenon DEF TakeInput
  <2> QED BY <1>0, <1>1, <2>1, ZenonT(60) DEF RunGoesOn, RunState
<1>4. CASE Timers
  <2>1. CASE DeadlinePasses
    BY <1>0, <2>1, ZenonT(60) DEF DeadlinePasses, RunGoesOn, RunState
  <2>2. CASE ReportDue
    BY <1>0, <2>2, ZenonT(60) DEF ReportDue, RunGoesOn, RunState
  <2>3. CASE QuotaLifts
    BY <1>0, <2>3, ZenonT(60) DEF QuotaLifts, RunGoesOn, RunState
  <2>4. CASE GraceEnds
    BY <1>0, <2>4, ZenonT(60) DEF GraceEnds, RunGoesOn, RunState
  <2>5. CASE ToolWaitEnds
    BY <1>0, <2>5, ZenonT(60) DEF ToolWaitEnds, RunGoesOn, RunState
  <2>6. CASE PostHeartbeat
    BY <1>1, <2>6 DEF PostHeartbeat
  <2> QED BY <1>4, <2>1, <2>2, <2>3, <2>4, <2>5, <2>6, Zenon DEF Timers
<1>5. CASE QuotaRefuses
  <2> PICK n \in flying :
        r' = [r EXCEPT !.live = FALSE, !.quotaWaits = @ + 1, !.quota = TRUE,
                       !.compact = @ \/ n \in h.compactionTurns,
                       !.callModel = @ \/ n \notin h.compactionTurns]
    BY <1>5, Zenon DEF QuotaRefuses
  <2> QED BY <1>0, ZenonT(60) DEF RunGoesOn, RunState
<1>6. CASE SummaryOverflows
  BY <1>0, <1>6, ZenonT(60) DEF SummaryOverflows, RunGoesOn, RunState
<1>7. CASE CountTurn
  <2> DEFINE stop == IF FinalReport THEN "hard" ELSE r.stop
             turns == r.turns + 1
  <2>1. r' = [r EXCEPT !.turns = turns, !.callModel = r.due, !.due = FALSE, !.stop = stop]
    BY <1>7, Zenon DEF CountTurn
  <2>2. r.stop = "hard" => stop = "hard"
    OBVIOUS
  <2> HIDE DEF stop, turns
  <2> QED BY <1>0, <2>1, <2>2, ZenonT(60) DEF RunGoesOn, RunState
<1>8. CASE AnswerStands
  BY <1>0, <1>8, ZenonT(60) DEF AnswerStands, RunGoesOn, RunState
<1>9. CASE AnswerCut
  BY <1>0, <1>9, ZenonT(60) DEF AnswerCut, RunGoesOn, RunState
<1>10. CASE AnswerRefused
  BY <1>0, <1>10, ZenonT(60) DEF AnswerRefused, RunGoesOn, RunState
<1>11. CASE AnswerWhole
  BY <1>0, <1>11, ZenonT(60) DEF AnswerWhole, RunGoesOn, RunState
<1>12. CASE ProcessDue
  <2> DEFINE timer == r.timer \/ ((r.deferred # <<>> /\ r.stop # "hard" /\ ~Compacting)
                                  /\ ~r.live /\ LimitsToolWait)
             due == TurnIsAsked
  <2>1. \/ r' = [r EXCEPT !.due = TRUE, !.deferred = <<>>, !.timer = FALSE, !.waited = FALSE]
        \/ r' = [r EXCEPT !.due = due, !.timer = timer]
    BY <1>12, Zenon DEF ProcessDue
  <2> HIDE DEF timer, due
  <2> QED BY <1>0, <2>1, ZenonT(60) DEF RunGoesOn, RunState
<1>13. CASE Decide
  BY <1>0, <1>13, ZenonT(60) DEF Decide, RunGoesOn, RunState
<1>14. CASE DropCompaction
  BY <1>0, <1>14, ZenonT(60) DEF DropCompaction, RunGoesOn, RunState
<1>15. CASE TellFirst
  <2>1. r' = [r EXCEPT !.live = FALSE, !.compact = FALSE, !.notesChecked = TRUE]
    BY <1>15, Zenon DEF TellFirst
  <2> QED BY <1>0, <2>1, ZenonT(60) DEF RunGoesOn, RunState
<1> QED
  BY <1>2, <1>3, <1>4, <1>5, <1>6, <1>7, <1>8, <1>9, <1>10, <1>11, <1>12, <1>13, <1>14,
     <1>15, Zenon

LEMMA OtherRunGoesOn ==
  ASSUME TypeOK,
         \/ RecordInput \/ AnswerArrives \/ SummaryArrives \/ ScheduleToolCall
         \/ ReconcileToolCall \/ Verify \/ TakeUpdate \/ SaveCheckpoint \/ DispatchCalls
         \/ Restore
  PROVE  RunGoesOn
<1>0. r \in RunState
  BY DEF TypeOK
<1>1. CASE RecordInput
  <2> DEFINE id == Head(todo)
             calls == r.callModel \/ id \in External
             compact == r.compact \/ id = "compact"
             stop == AcceptStop(r.stop, id)
             fresh == r.freshStop \/ id = "stop_hard"
             wrapUp == IF id = "budget" THEN h'.available ELSE r.wrapUp
             grace == IF id \in {"settings", "compact"} THEN r.grace ELSE {}
  <2>1. r' = [r EXCEPT !.callModel = calls, !.compact = compact, !.stop = stop,
                       !.freshStop = fresh, !.wrapUp = wrapUp, !.grace = grace]
    BY <1>1, Zenon DEF RecordInput
  <2>2. r.stop = "hard" => stop = "hard"
    BY Zenon DEF AcceptStop
  <2> HIDE DEF id, calls, compact, stop, fresh, wrapUp, grace
  <2> QED BY <1>0, <2>1, <2>2, ZenonT(60) DEF RunGoesOn, RunState
<1>2. CASE AnswerArrives
  <2> PICK ending \in {"whole", "empty", "cut", "refused", "failed"} :
        r' = [r EXCEPT !.live = FALSE, !.quotaWaits = 0, !.ending = ending,
                       !.statuses = {}, !.due = FALSE]
    BY <1>2, Zenon DEF AnswerArrives
  <2> QED BY <1>0, ZenonT(60) DEF RunGoesOn, RunState
<1>3. CASE SummaryArrives
  <2>1. r' = [r EXCEPT !.live = FALSE, !.quotaWaits = 0]
    BY <1>3, Zenon DEF SummaryArrives
  <2> QED BY <1>0, <2>1, ZenonT(60) DEF RunGoesOn, RunState
<1>4. CASE ScheduleToolCall
  <2> PICK c \in Calls, status \in {"ready", "none"} :
        r' = [WithOpenCalls(r, h') EXCEPT !.statuses = @ \cup {c},
                                          !.due = @ \/ status = "none"]
    BY <1>4, Zenon DEF ScheduleToolCall
  <2> QED BY <1>0, ZenonT(60) DEF WithOpenCalls, RunGoesOn, RunState
<1>5. CASE ReconcileToolCall
  <2>1. r' = WithOpenCalls(r, h')
    BY <1>5, Zenon DEF ReconcileToolCall
  <2> QED BY <1>0, <2>1, ZenonT(60) DEF WithOpenCalls, RunGoesOn, RunState
<1>6. CASE Verify
  <2> PICK k : r' = [r EXCEPT !.verifying = k]
    BY <1>6, Zenon DEF Verify
  <2> QED BY <1>0, ZenonT(60) DEF RunGoesOn, RunState
<1>7. CASE TakeUpdate
  <2> DEFINE u == Head(updates)
             v == IF Verifies /\ u.op = r.verifying /\ u.status \in Terminal
                  THEN Nothing ELSE r.verifying
  <2>1. r' = [r EXCEPT !.verifying = v]
    BY <1>7, Zenon DEF TakeUpdate
  <2> HIDE DEF v
  <2> QED BY <1>0, <2>1, ZenonT(60) DEF RunGoesOn, RunState
<1>8. CASE SaveCheckpoint
  <2>1. r' = [r EXCEPT !.compactions = @ + 1]
    BY <1>8, Zenon DEF SaveCheckpoint
  <2> QED BY <1>0, <2>1, ZenonT(60) DEF RunGoesOn, RunState
<1>9. CASE DispatchCalls
  <2> DEFINE grace == IF r.callModel THEN r.grace ELSE r.grace \cup r.statuses
  <2>1. r' = [r EXCEPT !.grace = grace, !.statuses = {}]
    BY <1>9, Zenon DEF DispatchCalls
  <2> HIDE DEF grace
  <2> QED BY <1>0, <2>1, ZenonT(60) DEF RunGoesOn, RunState
<1>10. CASE Restore
  <2> PICK k : r' = [r EXCEPT !.verifying = k]
    BY <1>10, Zenon DEF Restore
  <2> QED BY <1>0, ZenonT(60) DEF RunGoesOn, RunState
<1> QED
  BY <1>1, <1>2, <1>3, <1>4, <1>5, <1>6, <1>7, <1>8, <1>9, <1>10, Zenon

\* Where a canceled run goes: round the loop, until all operations ended.
CancelledGoesOn ==
  r.cancelled => pc' \in {"select", "inputs", "updates", "reconcile", "due", "decide"}

LEMMA StepKeepsRun ==
  ASSUME LInv, TypeOK', [Next]_vars
  PROVE  HasStarted' /\ CancelledRunEnds'
<1> USE DEF LInv
<1>0. TypeOK /\ r \in RunState
  BY DEF RInv, TypeOK
<1>1. ASSUME RunGoesOn, CancelledGoesOn,
             pc' \in Loop \ {"schedule", "reconcile", "start"} => r.started
      PROVE  HasStarted' /\ CancelledRunEnds'
  <2>1. /\ r'.started = r.started /\ r'.cancelled = r.cancelled
        /\ r.stop = "hard" => r'.stop = "hard"
        /\ r'.live => r.live
    BY <1>1 DEF RunGoesOn
  <2>2. HasStarted'
    BY <1>1, <2>1 DEF HasStarted
  <2>3. CancelledRunEnds'
    BY <1>1, <2>1 DEF CancelledRunEnds, CancelledGoesOn
  <2> QED BY <2>2, <2>3
<1>2. pc \in Loop \ {"schedule", "reconcile", "start"} => r.started
  BY DEF HasStarted
<1>3. r.cancelled => r.started /\ r.stop = "hard" /\ ~r.live
        /\ pc \in {"select", "inputs", "updates", "reconcile", "due", "decide"}
  BY DEF CancelledRunEnds
<1> DEFINE Round == CancelledGoesOn /\ (pc' \in Loop \ {"schedule", "reconcile", "start"} => r.started)
<1>4. CASE ScheduledAll \/ ReconciledAll \/ InputsSlurped \/ UpdatesSlurped \/ TakeInput
           \/ Timers \/ DropResult
  <2>1. Round
    BY <1>2, <1>3, <1>4 DEF CancelledGoesOn, At, Loop, Labels, Down, ScheduledAll, ReconciledAll,
       InputsSlurped, UpdatesSlurped, TakeInput, Timers, DeadlinePasses, ReportDue, QuotaLifts,
       GraceEnds, ToolWaitEnds, PostHeartbeat, DropResult
  <2> QED BY <1>0, <1>1, <1>4, <2>1, LoopRunGoesOn
<1>5. CASE QuotaRefuses \/ SummaryOverflows
  <2>1. pc = "select" /\ pc' = "inputs"
    BY <1>5 DEF QuotaRefuses, SummaryOverflows, At
  <2>2. Round
    BY <1>2, <2>1 DEF CancelledGoesOn, Loop, Labels, Down
  <2> QED BY <1>0, <1>1, <1>5, <2>2, LoopRunGoesOn
<1>6. CASE CountTurn \/ AnswerStands \/ AnswerCut \/ AnswerRefused \/ AnswerWhole
           \/ ProcessDue \/ Decide \/ DropCompaction \/ TellFirst
  <2>1. Round
    BY <1>2, <1>3, <1>6 DEF CancelledGoesOn, At, Loop, Labels, Down, CountTurn, AnswerStands,
       AnswerCut, AnswerRefused, AnswerWhole, Recovers, ProcessDue, Decide, DropCompaction, TellFirst
  <2> QED BY <1>0, <1>1, <1>6, <2>1, LoopRunGoesOn
<1>7. CASE AnswerArrives \/ SummaryArrives
  <2>1. pc = "select" /\ r.live
    BY <1>7 DEF AnswerArrives, SummaryArrives, At, Stale
  <2>2. Round
    BY <1>2, <1>3, <2>1 DEF CancelledGoesOn, Loop, Labels, Down
  <2> QED BY <1>0, <1>1, <1>7, <2>2, OtherRunGoesOn
<1>8. CASE RecordInput \/ ScheduleToolCall \/ ReconcileToolCall \/ Verify \/ TakeUpdate
           \/ SaveCheckpoint \/ DispatchCalls \/ Restore
  <2>1. Round
    BY <1>2, <1>3, <1>8 DEF CancelledGoesOn, At, Loop, Labels, Down, RecordInput, ScheduleToolCall,
       ReconcileToolCall, Verify, TakeUpdate, SaveCheckpoint, DispatchCalls, Restore
  <2> QED BY <1>0, <1>1, <1>8, <2>1, OtherRunGoesOn
<1>9. CASE StartLoop
  <2> DEFINE call == r.due \/ Pending(h) > 0
  <2>1. r' = [r EXCEPT !.started = TRUE, !.due = FALSE, !.statuses = {}, !.ordinary = call]
        /\ pc = "start"
    BY <1>9, Zenon DEF StartLoop, At
  <2> HIDE DEF call
  <2>2. r'.started /\ r'.cancelled = r.cancelled
    BY <1>0, <2>1, ZenonT(60) DEF RunState
  <2> QED BY <1>3, <2>1, <2>2 DEF HasStarted, CancelledRunEnds
<1>10. CASE CancelOperations
  <2>1. /\ r' = [r EXCEPT !.live = FALSE, !.cancelled = TRUE, !.due = FALSE]
        /\ pc = "decide" /\ pc' = "decide" /\ r.stop = "hard"
    BY <1>10, Zenon DEF CancelOperations, At
  <2>2. r'.started = r.started /\ r'.stop = r.stop /\ ~r'.live
    BY <1>0, <2>1, ZenonT(60) DEF RunState
  <2>3. r.started
    BY <1>2, <2>1 DEF Loop, Labels, Down
  <2> QED BY <2>1, <2>2, <2>3 DEF HasStarted, CancelledRunEnds
<1>11. CASE AnswerOverflows \/ BeginCompaction \/ BeginTurn
  <2>1. /\ pc \in {"select", "turn", "begin"} /\ pc' \in {"select", "inputs"}
        /\ pc = "select" => r.live
    BY <1>11 DEF AnswerOverflows, BeginCompaction, BeginTurn, At
  <2>2. ~r.cancelled /\ r.started
    BY <1>2, <1>3, <2>1 DEF Loop, Labels, Down
  <2>3. r'.cancelled = r.cancelled /\ r'.started = r.started
    <3>1. CASE AnswerOverflows
      BY <1>0, <3>1, ZenonT(60) DEF AnswerOverflows, Send, RunState
    <3>2. CASE BeginCompaction
      <4> DEFINE calls == r.callModel \/ r.ordinary
                 grace == IF r.ordinary THEN {} ELSE r.grace
      <4>1. r' = [Send(r) EXCEPT !.compact = FALSE, !.callModel = calls, !.grace = grace]
        BY <1>0, <3>2, ZenonT(60) DEF BeginCompaction, Send, RunState
      <4> HIDE DEF calls, grace
      <4> QED BY <1>0, <4>1, ZenonT(60) DEF Send, RunState
    <3>3. CASE BeginTurn
      BY <1>0, <3>3, ZenonT(60) DEF BeginTurn, Send, RunState
    <3> QED BY <1>11, <3>1, <3>2, <3>3
  <2> QED BY <2>2, <2>3 DEF HasStarted, CancelledRunEnds
<1>12. CASE Submit \/ OperationAwaits \/ (\E o \in Ops : OperationEnds(o)) \/ UNCHANGED vars
  <2>1. UNCHANGED <<pc, r>>
    BY <1>12 DEF Submit, OperationAwaits, OperationEnds, vars
  <2> QED BY <2>1 DEF HasStarted, CancelledRunEnds
<1>13. CASE Start \/ ReplayItem
  <2>1. UNCHANGED r /\ pc' = "replay" /\ pc \in Down \cup {"replay"}
    BY <1>0, <1>13 DEF Start, ReplayItem, Up
  <2> QED BY <1>3, <2>1 DEF HasStarted, CancelledRunEnds, Loop, Down
<1>14. CASE Crash \/ RequestFails \/ AnswerFailed \/ AwaitCancellation \/ StopWhenIdle
  <2>1. CASE \E how \in Down : Exit(how)
    <3>1. r' = NewRun /\ pc' \in Down
      BY <2>1 DEF Exit
    <3> QED BY <3>1 DEF HasStarted, CancelledRunEnds, NewRun, Loop
  <2>2. CASE AnswerFailed /\ ~\E how \in Down : Exit(how)
    <3>1. /\ r' = [r EXCEPT !.step = StepCalls, !.failures = @ + 1, !.callModel = TRUE]
          /\ pc = "answer" /\ pc' = "dispatch"
      BY <2>2 DEF AnswerFailed, Recovers, At, Down
    <3>2. RunGoesOn
      BY <1>0, <3>1, ZenonT(60) DEF RunGoesOn, RunState
    <3> QED BY <1>1, <1>2, <1>3, <3>1, <3>2 DEF CancelledGoesOn, Loop, Labels, Down
  <2>3. CASE (AwaitCancellation \/ StopWhenIdle) /\ ~\E how \in Down : Exit(how)
    <3>1. UNCHANGED r /\ pc \in {"decide", "idlecheck"} /\ pc' = "select"
      BY <2>3 DEF AwaitCancellation, StopWhenIdle, At, Down
    <3>2. RunGoesOn
      BY <3>1 DEF RunGoesOn
    <3> QED BY <1>1, <1>2, <1>3, <3>1, <3>2 DEF CancelledGoesOn, Loop, Labels, Down
  <2>4. CASE Crash \/ RequestFails
    BY <2>1, <2>4 DEF Crash, RequestFails, Down
  <2> QED BY <1>14, <2>1, <2>2, <2>3, <2>4
<1>15. CASE Working
  BY <1>4, <1>6, <1>8, <1>9, <1>10, <1>11, <1>13, <1>14, <1>15, Zenon DEF Working
<1>16. CASE ModelResults
  BY <1>4, <1>5, <1>7, <1>11, <1>14, <1>16, Zenon DEF ModelResults
<1> QED BY <1>4, <1>8, <1>12, <1>13, <1>14, <1>15, <1>16, Zenon DEF Next

-----------------------------------------------------------------------------
(* What is restored, and what is left *)

LEMMA ResumedFields ==
  ASSUME NEW d \in DerivedState
  PROVE  /\ Resumed(d) \in DerivedState /\ Agrees(Resumed(d), d)
         /\ Resumed(d).ops = [o \in Ops |-> IF o \in OpenCalls(d) \/ d.ops[o] \in Unfinished
                                           THEN d.ops[o] ELSE "none"]
         /\ Resumed(d).verifications = d.verifications
         /\ Resumed(d).work = d.work /\ Resumed(d).stopped = d.stopped
<1> DEFINE ops == [o \in Ops |-> IF o \in OpenCalls(d) \/ d.ops[o] \in Unfinished
                                 THEN d.ops[o] ELSE "none"]
<1>1. Resumed(d) = [d EXCEPT !.ops = ops]
  BY Zenon DEF Resumed, DerivedState
<1>2. ops \in [Ops -> Statuses \cup {"none"}]
  <2>1. d.ops \in [Ops -> Statuses \cup {"none"}]
    BY Zenon DEF DerivedState
  <2> QED BY <2>1
<1> HIDE DEF ops
<1>3. Resumed(d) \in DerivedState
  BY <1>1, <1>2, ZenonT(60) DEF DerivedState
<1>4. /\ Agrees(Resumed(d), d) /\ Resumed(d).ops = ops
      /\ Resumed(d).verifications = d.verifications
      /\ Resumed(d).work = d.work /\ Resumed(d).stopped = d.stopped
  BY <1>1, ZenonT(60) DEF Agrees, DerivedState
<1> QED BY <1>3, <1>4 DEF ops

\* What is not restored from the store counts for nothing, wherever the run
\* was restored from.
LEMMA RestoredOps ==
  ASSUME LInv, pc = "replay", pos = Len(log), NEW o \in Ops, ~Restorable(o)
  PROVE  /\ o \in OpenCalls(Derived) => h.ops[o] = "none" /\ Derived.ops[o] = "none"
         /\ h.ops[o] \notin Unfinished /\ Derived.ops[o] \notin Unfinished
<1> USE DEF LInv
<1>1. CASE saved[o] = "none"
  <2>1. pos >= Len(Inherited)
    BY DEF WInv, InheritsPrefix
  <2>2. h.ops[o] = "none"
    BY <1>1, <2>1 DEF WInv, KnownAreRecorded, Recorded
  <2>3. Derived.ops[o] = "none"
    BY <1>1 DEF LogAndStore, DerivedAreStored
  <2> QED BY <2>2, <2>3 DEF Unfinished
<1>2. CASE Finished(o)
  <2>1. h.ops[o] \notin Unfinished /\ Derived.ops[o] \notin Unfinished
    BY <1>2 DEF EndsAreKnown, LogAndStore, KnowsEnds, Finished
  <2>2. o \notin OpenCalls(Derived)
    BY <1>2 DEF LogAndStore, FinishedAreDone, OpenCalls, Open
  <2> QED BY <2>1, <2>2
<1> QED BY <1>1, <1>2, NotRestored DEF RInv

LEMMA RestoreGivesReplay ==
  ASSUME LInv, Restore
  PROVE  Resumed(h') = Resumed(RestoreOperations(Derived))
<1> USE DEF LInv
<1> DEFINE d == RestoreOperations(h)
           e == RestoreOperations(Derived)
<1>1. /\ pc = "replay" /\ pos = Len(log) /\ h' = d
      /\ h \in DerivedState /\ Derived \in DerivedState /\ TypeOK
  BY LogReplay DEF Restore, RInv
<1>2. Agrees(h, Derived) /\ FromHistory(h) /\ FromHistory(Derived)
  <2>1. Len(log) \in 0 .. Len(log) /\ log \in Seq(Items)
    BY <1>1, LogReplay
  <2> QED BY <1>1, <2>1, ReplayFromHistory DEF RInv, ReplayIsAt, Derived
<1>3. /\ Agrees(d, h) /\ Agrees(e, Derived)
      /\ d.ops = [o \in Ops |-> IF Restorable(o) THEN saved[o] ELSE h.ops[o]]
      /\ e.ops = [o \in Ops |-> IF Restorable(o) THEN saved[o] ELSE Derived.ops[o]]
      /\ d.verifications = e.verifications /\ d.work = e.work /\ d.stopped = e.stopped
  <2>1. /\ Agrees(d, h) /\ d.verifications = h.verifications /\ d.work = h.work
        /\ d.stopped = h.stopped
        /\ d.ops = [o \in Ops |-> IF Restorable(o) THEN saved[o] ELSE h.ops[o]]
    BY <1>1, RestoreOperationsAgrees
  <2>2. /\ Agrees(e, Derived) /\ e.verifications = Derived.verifications
        /\ e.work = Derived.work /\ e.stopped = Derived.stopped
        /\ e.ops = [o \in Ops |-> IF Restorable(o) THEN saved[o] ELSE Derived.ops[o]]
    BY <1>1, RestoreOperationsAgrees
  <2>3. h.verifications = Derived.verifications /\ h.work = Derived.work /\ h.stopped = Derived.stopped
    BY <1>2 DEF FromHistory, Agrees
  <2> QED BY <2>1, <2>2, <2>3
<1>4. d \in DerivedState /\ e \in DerivedState
  BY <1>1, RestoreOperationsType
<1>5. OpenCalls(d) = OpenCalls(Derived) /\ OpenCalls(e) = OpenCalls(Derived)
  BY <1>2, <1>3 DEF Agrees, OpenCalls
<1>6. Agrees(d, e)
  BY <1>2, <1>3 DEF Agrees
<1> HIDE DEF d, e
<1>7. ASSUME NEW o \in Ops
      PROVE  (IF o \in OpenCalls(d) \/ d.ops[o] \in Unfinished THEN d.ops[o] ELSE "none")
               = (IF o \in OpenCalls(e) \/ e.ops[o] \in Unfinished THEN e.ops[o] ELSE "none")
  <2>1. CASE Restorable(o)
    BY <1>3, <1>5, <2>1
  <2>2. CASE ~Restorable(o)
    <3>1. /\ o \in OpenCalls(Derived) => h.ops[o] = "none" /\ Derived.ops[o] = "none"
          /\ h.ops[o] \notin Unfinished /\ Derived.ops[o] \notin Unfinished
      BY <1>1, <2>2, RestoredOps
    <3>2. d.ops[o] = h.ops[o] /\ e.ops[o] = Derived.ops[o]
      BY <1>3, <2>2
    <3> QED BY <1>5, <3>1, <3>2
  <2> QED BY <2>1, <2>2
<1>8. Resumed(d).ops = Resumed(e).ops
  <2>1. /\ Resumed(d).ops = [o \in Ops |-> IF o \in OpenCalls(d) \/ d.ops[o] \in Unfinished
                                            THEN d.ops[o] ELSE "none"]
        /\ Resumed(e).ops = [o \in Ops |-> IF o \in OpenCalls(e) \/ e.ops[o] \in Unfinished
                                            THEN e.ops[o] ELSE "none"]
    BY <1>4, ResumedFields, Zenon
  <2> QED BY <1>7, <2>1
<1>9. /\ Resumed(d) \in DerivedState /\ Resumed(e) \in DerivedState
      /\ Agrees(Resumed(d), d) /\ Agrees(Resumed(e), e)
      /\ Resumed(d).verifications = Resumed(e).verifications
      /\ Resumed(d).work = Resumed(e).work /\ Resumed(d).stopped = Resumed(e).stopped
  BY <1>3, <1>4, ResumedFields
<1>10. Agrees(Resumed(d), Resumed(e))
  BY <1>6, <1>9 DEF Agrees
<1>11. Resumed(d) = Resumed(e)
  BY <1>8, <1>9, <1>10, SameState
<1> QED BY <1>1, <1>11 DEF d, e

LEMMA StepKeepsRestored ==
  ASSUME LInv, TypeOK', StepKinds
  PROVE  RestoredIsReplay'
<1> USE DEF LInv
<1>0. TypeOK /\ pos \in Nat /\ Len(log) \in Nat
  BY LogReplay DEF RInv
<1>1. CASE pc' # "schedule"
  BY <1>1 DEF RestoredIsReplay
<1>2. ASSUME pc \in Loop, NEW item \in Items, log' = Append(log, item), pos' = pos
      PROVE  RestoredIsReplay'
  <2>1. pos <= Len(log)
    BY <1>2 DEF RInv, LiveIsAt, Loop, Up
  <2>2. Len(log') = Len(log) + 1
    BY <1>0, <1>2, AppendProperties DEF TypeOK
  <2> QED BY <1>0, <1>2, <2>1, <2>2 DEF RestoredIsReplay
<1>3. CASE \E item \in Items : MessageStep(item)
  BY <1>2, <1>3 DEF MessageStep
<1>4. CASE ScheduleToolCall \/ ReconcileToolCall \/ Verify
  <2>1. \E item \in Items : StatusStep(item)
    BY <1>0, <1>4, ScheduleSteps, ReconcileSteps, VerifySteps
  <2> QED BY <1>2, <2>1 DEF StatusStep
<1>5. CASE \/ QuietStep /\ ComesAlong
           \/ TakeUpdate \/ DispatchStep \/ SaveCheckpoint \/ Start \/ ReplayItem \/ EndStep
  <2>1. pc' # "schedule"
    BY <1>5 DEF ComesAlong, TakeUpdate, DispatchStep, SaveCheckpoint, Start, ReplayItem,
                EndStep, Exit
  <2> QED BY <1>1, <2>1
<1>6. CASE OperationAwaits \/ (\E o \in Ops : OperationEnds(o)) \/ Still
  <2>1. UNCHANGED <<log, saved, pc, pos, h>>
    BY <1>6 DEF OperationAwaits, OperationEnds, Still, durable
  <2>2. Derived' = Derived
    BY <2>1 DEF Derived
  <2>3. RestoreOperations(Derived)' = RestoreOperations(Derived)
    BY <2>1, <2>2 DEF RestoreOperations, Restorable
  <2> QED BY <2>1, <2>3 DEF RestoredIsReplay, Resumed, OpenCalls
<1>7. CASE Restore
  <2>1. UNCHANGED <<log, saved>>
    BY <1>7 DEF Restore, durable
  <2>2. Derived' = Derived
    BY <2>1 DEF Derived
  <2>3. RestoreOperations(Derived)' = RestoreOperations(Derived)
    BY <2>1, <2>2 DEF RestoreOperations, Restorable
  <2>4. Resumed(h') = Resumed(RestoreOperations(Derived))
    BY <1>7, RestoreGivesReplay
  <2> QED BY <2>3, <2>4 DEF RestoredIsReplay, Resumed, OpenCalls
<1> QED BY <1>3, <1>4, <1>5, <1>6, <1>7, Zenon DEF StepKinds

LEMMA StepKeepsEnded ==
  ASSUME LInv, TypeOK', StepKinds
  PROVE  EndedLeaveNothing'
<1> USE DEF LInv
<1>0. TypeOK /\ pc \in Labels
  BY DEF RInv, TypeOK
<1>1. CASE pc' \notin {"idle", "stopped"}
  BY <1>1 DEF EndedLeaveNothing
<1>2. ASSUME UNCHANGED <<log, saved, pc>> PROVE EndedLeaveNothing'
  <2>1. Derived' = Derived
    BY <1>2 DEF Derived
  <2> QED BY <1>2, <2>1 DEF EndedLeaveNothing, OpenCalls, Pending
<1>3. CASE OperationAwaits \/ (\E o \in Ops : OperationEnds(o)) \/ Still
  BY <1>2, <1>3 DEF OperationAwaits, OperationEnds, Still, durable
<1>4. CASE \/ QuietStep \/ (\E item \in Items : MessageStep(item)) \/ DispatchStep
           \/ ScheduleToolCall \/ ReconcileToolCall \/ Verify \/ TakeUpdate \/ SaveCheckpoint
           \/ Start \/ ReplayItem \/ Restore
  <2>1. pc' \notin {"idle", "stopped"}
    BY <1>4 DEF QuietStep, MessageStep, DispatchStep, ScheduleToolCall, ReconcileToolCall, Verify,
                TakeUpdate, SaveCheckpoint, Start, ReplayItem, Restore, At, Loop, Down
  <2> QED BY <1>1, <2>1
<1>5. CASE EndStep
  <2> SUFFICES ASSUME pc' \in {"idle", "stopped"} PROVE EndedLeaveNothing'
    BY <1>1
  <2>1. /\ UNCHANGED <<log, saved>> /\ pc \in {"decide", "idlecheck"}
        /\ pc' = "stopped" => pc = "decide" /\ PendingOperations = {}
        /\ pc' = "idle" => IsIdle
    BY <1>5 DEF EndStep, Exit, durable
  <2>2. /\ pc \in Loop /\ Derived' = Derived
        /\ OpenCalls(h) = OpenCalls(Derived) /\ Pending(h) = Pending(Derived)
    BY <2>1, LoopCalls DEF Derived, Loop, Labels, Down
  <2>3. PendingOperations = {}
    BY <2>1 DEF IsIdle
  <2>4. \A o \in Ops : saved[o] \notin Unfinished
    BY <2>2, <2>3 DEF PendingOperations, StoreAgrees
  <2>5. OpenCalls(h) = {}
    <3>1. CASE IsIdle
      BY <3>1 DEF IsIdle
    <3>2. CASE pc = "decide"
      <4> SUFFICES ASSUME NEW c \in Calls, h.calls[c] \in {"asked", "waiting"} PROVE FALSE
        BY DEF OpenCalls, Open
      <4>1. h.calls[c] = "waiting" /\ h.ops[c] # "none" /\ c \in Ops
        BY <2>2, <3>2 DEF CallsAreScheduled, WaitingHaveOperations, Ops
      <4>2. h.ops[c] \in Statuses \cup {"none"}
        BY <1>0, <4>1, Zenon DEF TypeOK, DerivedState
      <4>3. h.ops[c] \in Terminal
        BY <2>3, <4>1, <4>2 DEF PendingOperations, Statuses
      <4> QED BY <3>2, <4>1, <4>3 DEF ResultsAreRecorded, FinishedCalls, Open
    <3> QED BY <2>1, <3>1, <3>2
  <2>6. pc' = "idle" => Pending(Derived) = 0
    BY <2>1, <2>2 DEF IsIdle
  <2> QED BY <2>1, <2>2, <2>4, <2>5, <2>6 DEF EndedLeaveNothing, OpenCalls, Pending
<1> QED BY <1>3, <1>4, <1>5, Zenon DEF StepKinds

-----------------------------------------------------------------------------
(* The invariant *)

\* A session begins with nothing, or as a fork: without operations and with no
\* call open.
LEMMA InitialCalls ==
  ASSUME Init
  PROVE  /\ \A c \in Calls : Derived.calls[c] \in {"none", "done"}
         /\ \A o \in Ops : Derived.ops[o] = "none"
<1>1. /\ log = Inherited /\ log \in Seq(Items) /\ Len(log) \in Nat
  BY CoordinatorAssumption, LenProperties DEF Init
<1>2. CASE log = <<>>
  <2>1. Derived = Blank
    BY <1>1, <1>2, ReplaySteps DEF Derived
  <2> QED BY <2>1 DEF Blank
<1>3. CASE log # <<>>
  <2>1. Len(log) \in 1 .. Len(log) /\ Len(log) - 1 \in 0 .. Len(log) /\ log[Len(log)] = ForkItem
    BY <1>1, <1>3, EmptySeq, CoordinatorAssumption
  <2> DEFINE d == Replay(log)[Len(log) - 1]
  <2>2. Derived = AddItem(d, ForkItem) /\ d \in DerivedState
    BY <1>1, <2>1, ReplaySteps, ReplayType DEF Derived
  <2> HIDE DEF d
  <2>3. AddItem(d, ForkItem) = AddFork(d)
    BY Zenon DEF AddItem, ForkItem
  <2>4. /\ AddFork(d).calls = [c \in Calls |-> IF d.calls[c] = "none" THEN "none" ELSE "done"]
        /\ AddFork(d).ops = [o \in Ops |-> "none"]
    BY <2>2, ZenonT(60) DEF AddFork, DerivedState
  <2> QED BY <2>2, <2>3, <2>4
<1> QED BY <1>2, <1>3

LEMMA InitLife == Init => LInv
<1> SUFFICES ASSUME Init PROVE LInv
  OBVIOUS
<1>1. RInv /\ WInv
  BY InitAgrees, InitRecorded
<1>2. \A i \in DOMAIN log : ~Own(i)
  BY CoordinatorAssumption, LenProperties DEF Init, Own
<1>3. \A n, o : ~FinishedBy(n, o)
  BY <1>2 DEF FinishedBy
<1>4. LogAndStore
  <2>1. FinishedAreDone /\ NoneStartsAgain /\ KnowsEnds(Derived, Len(log))
    BY <1>2, <1>3 DEF FinishedAreDone, Finished, NoneStartsAgain, KnowsEnds
  <2>2. \A c \in Calls : saved[c] = "none"
    BY DEF Init, Ops
  <2>3. CallsHaveOperations /\ DerivedAreStored
    BY <2>2, InitialCalls DEF CallsHaveOperations, DerivedAreStored
  <2> QED BY <2>1, <2>3 DEF LogAndStore
<1>5. EndsAreKnown
  BY <1>3 DEF Init, EndsAreKnown, KnowsEnds
<1>6. /\ StoreAgrees /\ CallsAreScheduled /\ WaitingHaveOperations /\ ResultsAreRecorded
      /\ HasStarted /\ RestoredIsReplay /\ EndedLeaveNothing
  BY DEF Init, StoreAgrees, CallsAreScheduled, WaitingHaveOperations, ResultsAreRecorded,
         HasStarted, RestoredIsReplay, EndedLeaveNothing, Loop, Down
<1>7. ManagedAreUnfinished /\ UpdatesEndOnce
  BY DEF Init, ManagedAreUnfinished, UpdatesEndOnce
<1>8. CancelledRunEnds
  BY DEF Init, CancelledRunEnds, NewRun
<1> QED BY <1>1, <1>4, <1>5, <1>6, <1>7, <1>8 DEF LInv

LEMMA StepKeepsLife == LInv /\ [Next]_vars => LInv'
<1> SUFFICES ASSUME LInv, [Next]_vars PROVE LInv'
  OBVIOUS
<1>1. RInv /\ WInv
  BY DEF LInv
<1>2. RInv' /\ WInv'
  BY <1>1, StepAgrees, StepKeepsRecorded
<1>3. TypeOK' /\ StepKinds
  BY <1>1, <1>2, StepsAreOfAKind DEF RInv
<1>4. LogAndStore'
  BY <1>3, StepKeepsLog
<1>5. EndsAreKnown'
  BY <1>3, <1>4, StepKeepsEnds
<1>6. StoreAgrees' /\ ManagedAreUnfinished' /\ UpdatesEndOnce'
  BY <1>3, StepKeepsAgreement, StepKeepsManaged
<1>7. CallsAreScheduled' /\ WaitingHaveOperations' /\ ResultsAreRecorded'
  BY <1>3, StepKeepsCalls
<1>8. HasStarted' /\ CancelledRunEnds'
  BY <1>3, StepKeepsRun
<1>9. RestoredIsReplay' /\ EndedLeaveNothing'
  BY <1>3, StepKeepsRestored, StepKeepsEnded
<1> QED BY <1>2, <1>4, <1>5, <1>6, <1>7, <1>8, <1>9 DEF LInv

LEMMA LifeInvariant == Spec => []LInv
<1>1. Init => LInv
  BY InitLife
<1>2. LInv /\ [Next]_vars => LInv'
  BY StepKeepsLife
<1> QED BY <1>1, <1>2, PTL DEF Spec

-----------------------------------------------------------------------------
(* What follows *)

\* A session restored from a checkpoint and the items after it goes on exactly
\* as the session restored from all its items, whatever runs, crashes and
\* forks came before (saveCheckpoint, restoreCheckpoint).
THEOREM RestoredSessionsAgree == Spec => []RestoreIsReplay
<1>1. LInv => RestoreIsReplay
  BY DEF LInv, RestoredIsReplay, RestoreIsReplay
<1> QED BY <1>1, LifeInvariant, PTL

\* A run that went idle left nothing open (isIdle): the model read all, every
\* call has its result, every operation ended.
THEOREM IdleRunsAreDone == Spec => []IdleLeavesNothing
<1>1. LInv => IdleLeavesNothing
  BY DEF LInv, EndedLeaveNothing, IdleLeavesNothing
<1> QED BY <1>1, LifeInvariant, PTL

\* A run that a hard stop ended leaves no call open and no operation that a
\* later run would start again (handleStop waits for all it canceled).
THEOREM StoppedRunsLeaveNoWork == Spec => []StopLeavesNoWork
<1>1. LInv => StopLeavesNoWork
  BY DEF LInv, EndedLeaveNothing, StopLeavesNoWork
<1> QED BY <1>1, LifeInvariant, PTL

-----------------------------------------------------------------------------
(* A run that is being canceled *)

\* While the loop waits for what it canceled, it gets nothing new to wait for.
LEMMA CancelingGetsNothing ==
  ASSUME LInv, TypeOK', StepKinds, r.cancelled, r'.cancelled
  PROVE  PendingOperations' \subseteq PendingOperations
<1> USE DEF LInv
<1>0. TypeOK /\ pc \in Loop \ {"schedule", "verify"}
  BY DEF RInv, CancelledRunEnds, Loop, Labels, Down
<1>1. CASE h'.ops = h.ops
  BY <1>1 DEF PendingOperations
<1>2. CASE QuietStep \/ DispatchStep \/ OperationAwaits \/ (\E o \in Ops : OperationEnds(o))
           \/ SaveCheckpoint \/ Still
  <2>1. h'.ops = h.ops
    BY <1>2 DEF QuietStep, DispatchStep, OperationAwaits, OperationEnds, SaveCheckpoint, Still
  <2> QED BY <1>1, <2>1
<1>3. CASE (\E item \in Items : MessageStep(item)) \/ ReconcileToolCall
  BY <1>0, <1>1, <1>3, MessageTaken, ResultTaken
<1>4. CASE TakeUpdate
  <2> DEFINE u == Head(updates)
  <2>1. /\ u.op \in Ops /\ saved[u.op] \in Unfinished
        /\ \A o \in Ops : o # u.op => h'.ops[o] = h.ops[o]
    BY <1>4, UpdateTaken
  <2>2. h.ops[u.op] \in Unfinished
    BY <1>0, <2>1 DEF StoreAgrees
  <2> HIDE DEF u
  <2> QED BY <2>1, <2>2 DEF PendingOperations
<1>5. CASE EndStep
  BY <1>5 DEF EndStep, Exit, NewRun
<1>6. CASE ScheduleToolCall \/ Verify \/ Start \/ ReplayItem \/ Restore
  BY <1>0, <1>6 DEF ScheduleToolCall, Verify, Start, ReplayItem, Restore, At, Up, Loop
<1> QED BY <1>2, <1>3, <1>4, <1>5, <1>6, Zenon DEF StepKinds

\* Once a run cancels its operations, no operation that it has to wait for
\* enters its state, so that the wait ends (stopState.cancellationRequested).
THEOREM CancelingIsFinal == Spec => NoNewOperations
<1>1. LInv /\ LInv' /\ [Next]_vars =>
        [r.cancelled /\ r'.cancelled => PendingOperations' \subseteq PendingOperations]_vars
  BY StepsAreOfAKind, CancelingGetsNothing DEF LInv, RInv
<1> QED BY <1>1, LifeInvariant, PTL DEF Spec, NoNewOperations

-----------------------------------------------------------------------------
(* The life of an operation *)

Stage(status) == CASE status = "none"        -> "none"
                   [] status \in Unfinished -> "recorded"
                   [] status \in Terminal   -> "ended"

Stored(o) == Stage(saved[o])

Active == {o \in Ops : mgr[o] \in {"running", "canceling"}}

LEMMA Stages ==
  /\ Stage("none") = "none"
  /\ \A status \in Unfinished : Stage(status) = "recorded"
  /\ \A status \in Terminal : Stage(status) = "ended"
BY DEF Stage, Unfinished, Terminal

\* A step that keeps the store and has the manager leave operations.
LEMMA LeavingStep ==
  ASSUME LInv, TypeOK', saved' = saved, Active' \subseteq Active
  PROVE  Lifecycle!Next \/ UNCHANGED Lifecycle!vars
<1>1. [o \in Ops |-> Stored(o)]' = [o \in Ops |-> Stored(o)]
  BY DEF Stored
<1> PICK left \in SUBSET Ops : left = Active \ Active'
  BY DEF Active
<1>2. Active' = Active \ left
  OBVIOUS
<1>3. Lifecycle!Leave(left)
  BY <1>1, <1>2 DEF Lifecycle!Leave, Stored, Stage, Active
<1> QED BY <1>2, <1>3, Zenon DEF Lifecycle!Next

\* A step that keeps the manager and the operations of the store but for one.
LEMMA StoringStep ==
  ASSUME LInv, TypeOK', mgr' = mgr, NEW o \in Ops,
         \A x \in Ops : x # o => saved'[x] = saved[x],
         \/ saved[o] = "none" /\ saved'[o] \in Unfinished
         \/ saved[o] \in Unfinished /\ saved'[o] \in Terminal /\ o \notin Active
         \/ saved[o] \in Unfinished /\ saved'[o] \in Unfinished
  PROVE  Lifecycle!Next \/ UNCHANGED Lifecycle!vars
<1>1. Active' = Active
  BY DEF Active
<1>2. \A x \in Ops : x # o => Stored(x)' = Stored(x)
  BY DEF Stored
<1> DEFINE st == [x \in Ops |-> Stored(x)]
<1>3. ASSUME NEW s, Stored(o)' = s PROVE st' = [st EXCEPT ![o] = s]
  BY <1>2, <1>3
<1>4. CASE saved[o] = "none" /\ saved'[o] \in Unfinished
  <2>1. Stored(o) = "none" /\ Stored(o)' = "recorded"
    BY <1>4, Stages DEF Stored
  <2>2. st' = [st EXCEPT ![o] = "recorded"] /\ st[o] = "none"
    BY <1>3, <2>1
  <2>3. Lifecycle!Record(o)
    BY <1>1, <2>2 DEF Lifecycle!Record, Stored, Stage, Active
  <2> QED BY <2>3 DEF Lifecycle!Next
<1>5. CASE saved[o] \in Unfinished /\ saved'[o] \in Terminal /\ o \notin Active
  <2>1. Stored(o) = "recorded" /\ Stored(o)' = "ended"
    BY <1>5, Stages DEF Stored
  <2>2. st' = [st EXCEPT ![o] = "ended"] /\ st[o] = "recorded"
    BY <1>3, <2>1
  <2>3. Lifecycle!End(o)
    BY <1>1, <1>5, <2>2 DEF Lifecycle!End, Stored, Stage, Active
  <2> QED BY <2>3 DEF Lifecycle!Next
<1>6. CASE saved[o] \in Unfinished /\ saved'[o] \in Unfinished
  <2>1. Stored(o) = "recorded" /\ Stored(o)' = "recorded"
    BY <1>6, Stages DEF Stored
  <2>2. st' = st
    BY <1>2, <2>1
  <2> QED BY <1>1, <2>2 DEF Lifecycle!vars, Stored, Stage, Active
<1> QED BY <1>4, <1>5, <1>6

\* A step that has the manager work on operations that have not ended.
LEMMA WorkingStep ==
  ASSUME LInv, TypeOK', DispatchStep
  PROVE  Lifecycle!Next \/ UNCHANGED Lifecycle!vars
<1> PICK started \in SUBSET Ops : started = Active' \ Active
  BY DEF Active
<1>1. /\ saved' = saved
      /\ \A o \in Ops :
           \/ mgr'[o] = mgr[o]
           \/ /\ mgr[o] \in {"absent", "running"} /\ mgr'[o] \in {"running", "canceling"}
              /\ saved[o] \in Unfinished
  BY DispatchedAreUnfinished
<1>2. Active' = Active \cup started
  BY <1>1 DEF Active
<1>3. \A o \in started : Stored(o) = "recorded"
  <2>1. \A o \in started : o \in Ops /\ saved[o] \in Unfinished
    BY <1>1 DEF Active
  <2> QED BY <2>1, Stages DEF Stored
<1>4. [o \in Ops |-> Stored(o)]' = [o \in Ops |-> Stored(o)]
  BY <1>1 DEF Stored
<1>5. Lifecycle!Work(started)
  BY <1>2, <1>3, <1>4 DEF Lifecycle!Work, Stored, Stage, Active
<1> QED BY <1>2, <1>5, Zenon DEF Lifecycle!Next

LEMMA StepsImplement ==
  ASSUME LInv, TypeOK', StepKinds
  PROVE  Lifecycle!Next \/ UNCHANGED Lifecycle!vars
<1> USE DEF LInv
<1>0. TypeOK /\ Fresh
  BY DEF RInv
<1>1. CASE DispatchStep
  BY <1>1, WorkingStep
<1>2. CASE saved' = saved /\ mgr' = mgr
  BY <1>2, LeavingStep DEF Active
<1>3. CASE QuietStep \/ SaveCheckpoint \/ Start \/ ReplayItem \/ Restore \/ Still \/ OperationAwaits
  <2>1. saved' = saved /\ mgr' = mgr
    BY <1>3 DEF QuietStep, SaveCheckpoint, Start, ReplayItem, Restore, Still, OperationAwaits,
                durable, manager
  <2> QED BY <1>2, <2>1
<1>4. CASE (\E item \in Items : MessageStep(item)) \/ ReconcileToolCall
  BY <1>0, <1>2, <1>4, MessageTaken, ResultTaken
<1>5. CASE ScheduleToolCall \/ Verify
  <2>1. CASE saved' = saved
    BY <1>2, <1>5, <2>1, FirstStatusTaken
  <2>2. ASSUME NEW o \in Ops, mgr' = mgr, Store(o, "ready"), saved[o] = "none"
        PROVE  Lifecycle!Next \/ UNCHANGED Lifecycle!vars
    <3>1. /\ saved'[o] \in Unfinished
          /\ \A x \in Ops : x # o => saved'[x] = saved[x]
      BY <1>0, <2>2, StoredTypes DEF Store, Unfinished
    <3> QED BY <2>2, <3>1, StoringStep
  <2>3. CASE ScheduleToolCall
    <3> PICK c \in Calls, status \in {"ready", "none"} :
          h.calls[c] = "asked" /\ Store(c, status) /\ pc \in Loop
      BY <1>0, <2>3, ScheduleSteps, Zenon DEF StatusStep
    <3>1. Derived.calls = h.calls
      BY LoopCalls
    <3>2. c \in Ops /\ saved[c] = "none" /\ mgr' = mgr
      BY <1>5, <3>1, FirstStatusTaken DEF LogAndStore, CallsHaveOperations, Ops
    <3> QED BY <2>1, <2>2, <3>2 DEF Store
  <2>4. CASE Verify
    <3> PICK k \in UnusedChecks : Store(k, "ready")
      BY <1>0, <2>4, VerifySteps, Zenon
    <3> QED BY <1>5, <2>2, UnusedAreNew, FirstStatusTaken
  <2> QED BY <1>5, <2>3, <2>4
<1>6. CASE TakeUpdate
  <2> DEFINE u == Head(updates)
  <2>1. /\ u.op \in Ops /\ u.status \in Unfinished \cup Terminal /\ saved[u.op] \in Unfinished
        /\ u.status \in Terminal => mgr[u.op] = "gone"
        /\ saved'[u.op] = u.status
        /\ \A o \in Ops : o # u.op => saved'[o] = saved[o]
        /\ mgr' = mgr
    BY <1>6, UpdateTaken DEF Statuses
  <2> HIDE DEF u
  <2> QED BY <2>1, StoringStep DEF Active
<1>7. CASE \E o \in Ops : OperationEnds(o)
  <2> PICK o \in Ops : OperationEnds(o)
    BY <1>7
  <2>1. saved' = saved /\ \A x \in Ops : mgr'[x] = mgr[x] \/ mgr'[x] = "gone"
    BY <1>0, StoredTypes DEF OperationEnds, durable
  <2>2. Active' \subseteq Active
    BY <2>1 DEF Active
  <2> QED BY <2>1, <2>2, LeavingStep
<1>8. CASE EndStep
  <2>1. saved' = saved /\ mgr' = [o \in Ops |-> "absent"]
    BY <1>8 DEF EndStep, Exit, durable
  <2>2. Active' \subseteq Active
    BY <2>1 DEF Active
  <2> QED BY <2>1, <2>2, LeavingStep
<1> QED BY <1>1, <1>3, <1>4, <1>5, <1>6, <1>7, <1>8, Zenon DEF StepKinds

\* The coordinator, its store and its manager give every operation the life
\* that OperationLifecycle states: recorded, then worked on, in as many runs
\* as it takes, then ended for good.
THEOREM OperationsLiveOnce == Spec => ImplementsLifecycle
<1>1. Init => Lifecycle!Init
  BY DEF Init, Lifecycle!Init, Unfinished, Terminal
<1>2. LInv /\ LInv' /\ [Next]_vars => [Lifecycle!Next]_Lifecycle!vars
  BY StepsAreOfAKind, StepsImplement DEF LInv, RInv
<1> QED BY <1>1, <1>2, LifeInvariant, PTL DEF Spec, ImplementsLifecycle, Lifecycle!Spec
=============================================================================
