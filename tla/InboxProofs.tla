---------------------------- MODULE InboxProofs ----------------------------
(***************************************************************************)
(* The inbox keeps its promise for any IDs, any senders and any IDs the    *)
(* session recorded before.                                                *)
(***************************************************************************)
EXTENDS Inbox, SequenceTheorems, TLAPS

\* What the reader had or will get, in order.
All == received \o queued

\* What run has marked covers what it handed over or queued.
Marked ==
  /\ SeenIDs \subseteq seen
  /\ Elements(All) \subseteq seen

\* The inductive invariant: without Marked, a submission could repeat an ID
\* that is in the queue.
IInv == TypeOK /\ AtMostOnce /\ Marked

\* The queue's head moving to the reader leaves their concatenation as it is.
LEMMA OutputKeepsAll ==
  ASSUME NEW S, NEW r \in Seq(S), NEW q \in Seq(S), q # <<>>
  PROVE  Append(r, Head(q)) \o Tail(q) = r \o q
<1> DEFINE left == Append(r, Head(q)) \o Tail(q)
           right == r \o q
<1>1. /\ Head(q) \in S /\ Tail(q) \in Seq(S)
      /\ Head(q) = q[1]
      /\ Len(Tail(q)) = Len(q) - 1
      /\ \A i \in 1 .. Len(Tail(q)) : Tail(q)[i] = q[i + 1]
  BY HeadTailProperties
<1>2. /\ Append(r, Head(q)) \in Seq(S)
      /\ Len(Append(r, Head(q))) = Len(r) + 1
      /\ \A i \in 1 .. Len(r) + 1 : Append(r, Head(q))[i] = IF i <= Len(r) THEN r[i] ELSE q[1]
  BY <1>1
<1>3. /\ left \in Seq(S) /\ right \in Seq(S)
      /\ Len(left) = Len(r) + Len(q) /\ Len(right) = Len(r) + Len(q)
  BY <1>1, <1>2, ConcatProperties
<1>4. \A i \in 1 .. Len(r) + Len(q) : left[i] = right[i]
  BY <1>1, <1>2, ConcatProperties
<1> QED BY <1>3, <1>4, SeqEqual

\* An input that enters the queue comes last.
LEMMA EnqueueAppends ==
  ASSUME NEW S, NEW r \in Seq(S), NEW q \in Seq(S), NEW x \in S
  PROVE  r \o Append(q, x) = Append(r \o q, x)
<1> DEFINE left == r \o Append(q, x)
           right == Append(r \o q, x)
<1>1. /\ r \o q \in Seq(S) /\ Len(r \o q) = Len(r) + Len(q)
      /\ \A i \in 1 .. Len(r) + Len(q) : (r \o q)[i] = IF i <= Len(r) THEN r[i] ELSE q[i - Len(r)]
  BY ConcatProperties
<1>2. /\ left \in Seq(S) /\ right \in Seq(S)
      /\ Len(left) = Len(r) + Len(q) + 1 /\ Len(right) = Len(r) + Len(q) + 1
  BY <1>1, ConcatProperties
<1>3. \A i \in 1 .. Len(r) + Len(q) + 1 : left[i] = right[i]
  BY <1>1, ConcatProperties
<1> QED BY <1>2, <1>3, SeqEqual

-----------------------------------------------------------------------------
(* The invariant *)

LEMMA Initially == Init => IInv /\ NothingSwallowed
<1> SUFFICES ASSUME Init PROVE IInv /\ NothingSwallowed
  OBVIOUS
<1>1. TypeOK
  BY InboxAssumption DEF Init, TypeOK
<1>2. All = <<>>
  BY DEF Init, All
<1>3. AtMostOnce /\ Marked /\ NothingSwallowed
  BY <1>2 DEF Init, AtMostOnce, Marked, NothingSwallowed, Elements, All
<1> QED BY <1>1, <1>3 DEF IInv

LEMMA TypesKept == TypeOK /\ [Next]_vars => TypeOK'
<1> SUFFICES ASSUME TypeOK, [Next]_vars PROVE TypeOK'
  OBVIOUS
<1> USE InboxAssumption DEF TypeOK
<1>1. ASSUME NEW s \in Senders, NEW id \in IDs, Submit(s, id) PROVE TypeOK'
  BY <1>1 DEF Submit
<1>2. ASSUME NEW s \in Senders, GiveUp(s) PROVE TypeOK'
  BY <1>2 DEF GiveUp
<1>3. ASSUME NEW s \in Senders, Take(s) PROVE TypeOK'
  <2>1. submitting[s] \in IDs
    BY <1>3 DEF Take
  <2>2. UNCHANGED <<open, running, received>>
    BY <1>3, Zenon DEF Take, Receive
  <2>3. seen' \subseteq IDs /\ queued' \in Seq(IDs)
    <3>1. CASE Duplicate(submitting[s])
      BY <1>3, <3>1 DEF Take, Receive
    <3>2. CASE ~Duplicate(submitting[s])
      <4>1. seen' = seen \cup {submitting[s]} /\ queued' = Append(queued, submitting[s])
        BY <1>3, <3>2 DEF Take, Receive, Enqueue
      <4> QED BY <2>1, <4>1
    <3> QED BY <3>1, <3>2
  <2>4. submitting' \in [Senders -> IDs \cup {Nobody}]
    BY <1>3 DEF Take, Receive
  <2> QED BY <2>2, <2>3, <2>4
<1>4. CASE Output
  BY <1>4, HeadTailProperties DEF Output
<1>5. CASE Cancel \/ UNCHANGED vars
  BY <1>5 DEF Cancel, vars
<1>6. CASE Return
  BY <1>6, EmptySeq DEF Return
<1> QED BY <1>1, <1>2, <1>3, <1>4, <1>5, <1>6 DEF Next

\* What one step does to All and to what is marked.
LEMMA Steps ==
  ASSUME TypeOK, [Next]_vars
  PROVE  \/ All' = All /\ seen' = seen
         \/ \E id \in IDs \ seen : All' = Append(All, id) /\ seen' = seen \cup {id}
         \/ queued' = <<>> /\ ~running' /\ received' = received /\ seen' = seen
<1> USE DEF All
<1>1. ASSUME NEW s \in Senders, NEW id \in IDs, Submit(s, id) PROVE All' = All /\ seen' = seen
  BY <1>1 DEF Submit
<1>2. ASSUME NEW s \in Senders, GiveUp(s) PROVE All' = All /\ seen' = seen
  BY <1>2 DEF GiveUp
<1>3. ASSUME NEW s \in Senders, Take(s)
      PROVE  \/ All' = All /\ seen' = seen
             \/ \E id \in IDs \ seen : All' = Append(All, id) /\ seen' = seen \cup {id}
  <2> DEFINE id == submitting[s]
  <2>1. CASE Duplicate(id)
    BY <1>3, <2>1 DEF Take, Receive
  <2>2. CASE ~Duplicate(id)
    <3>1. id \in IDs \ seen
      BY <1>3, <2>2 DEF Take, Duplicate, TypeOK
    <3>2. queued' = Append(queued, id) /\ received' = received /\ seen' = seen \cup {id}
      BY <1>3, <2>2 DEF Take, Receive, Enqueue
    <3>3. All' = Append(All, id)
      BY <3>1, <3>2, EnqueueAppends DEF TypeOK
    <3> QED BY <3>1, <3>2, <3>3
  <2> QED BY <2>1, <2>2
<1>4. CASE Output
  BY <1>4, OutputKeepsAll DEF Output, TypeOK
<1>5. CASE Cancel \/ UNCHANGED vars
  BY <1>5 DEF Cancel, vars
<1>6. CASE Return
  BY <1>6 DEF Return
<1> QED BY <1>1, <1>2, <1>3, <1>4, <1>5, <1>6 DEF Next

LEMMA InvariantKept == IInv /\ [Next]_vars => IInv'
<1> SUFFICES ASSUME IInv, [Next]_vars PROVE IInv'
  OBVIOUS
<1>1. TypeOK'
  BY TypesKept DEF IInv
<1>2. /\ All \in Seq(IDs) /\ All' \in Seq(IDs)
      /\ DOMAIN All = 1 .. Len(All) /\ Len(All) \in Nat
  BY <1>1, ConcatProperties, LenProperties DEF IInv, TypeOK, All
<1>3. CASE All' = All /\ seen' = seen
  BY <1>1, <1>3 DEF IInv, AtMostOnce, Marked, Elements, All
<1>4. ASSUME NEW id \in IDs \ seen, All' = Append(All, id), seen' = seen \cup {id}
      PROVE  IInv'
  <2>1. /\ DOMAIN All' = 1 .. Len(All) + 1
        /\ \A i \in 1 .. Len(All) : All'[i] = All[i]
        /\ All'[Len(All) + 1] = id
    BY <1>2, <1>4
  <2>2. Elements(All') = Elements(All) \cup {id}
    BY <1>2, <2>1 DEF Elements
  <2>3. \A i \in DOMAIN All : All[i] # id
    BY <1>4 DEF IInv, Marked, Elements
  <2>4. \A i, j \in DOMAIN All' : All'[i] = All'[j] => i = j
    <3>1. \A i, j \in DOMAIN All : All[i] = All[j] => i = j
      BY DEF IInv, AtMostOnce, All
    <3> QED BY <1>2, <2>1, <2>3, <3>1
  <2>5. Elements(All') \cap SeenIDs = {}
    BY <1>4, <2>2 DEF IInv, AtMostOnce, Marked, All
  <2>6. Marked'
    BY <1>4, <2>2 DEF IInv, Marked, Elements
  <2> QED BY <1>1, <2>4, <2>5, <2>6 DEF IInv, AtMostOnce, All, Elements
<1>5. CASE queued' = <<>> /\ ~running' /\ received' = received /\ seen' = seen
  <2>1. All' = received
    BY <1>5, ConcatEmptySeq DEF IInv, TypeOK, All
  <2>2. /\ DOMAIN received \subseteq DOMAIN All
        /\ \A i \in DOMAIN received : received[i] = All[i]
    BY ConcatProperties, LenProperties DEF IInv, TypeOK, All
  <2>3. Elements(received) \subseteq Elements(All)
    BY <2>2 DEF Elements
  <2>4. AtMostOnce'
    BY <2>1, <2>2, <2>3 DEF IInv, AtMostOnce, Elements, All
  <2>5. Marked'
    BY <1>5, <2>1, <2>3 DEF IInv, Marked, Elements
  <2> QED BY <1>1, <2>4, <2>5 DEF IInv
<1> QED BY <1>3, <1>4, <1>5, Steps DEF IInv

\* The invariant holds throughout.
LEMMA Invariance == Spec => []IInv
<1>1. Init => IInv
  BY Initially
<1> QED BY <1>1, InvariantKept, PTL DEF Spec

\* The variables of the inbox keep their types (inbox/local.go).
THEOREM TypeCorrect == Spec => []TypeOK
<1>1. IInv => TypeOK
  BY DEF IInv
<1> QED BY <1>1, Invariance, PTL

\* No input is handed over twice, nor one the session recorded before,
\* whoever submits it again (run checks and marks in one step).
THEOREM DeliveredAtMostOnce == Spec => []AtMostOnce
<1>1. IInv => AtMostOnce
  BY DEF IInv
<1> QED BY <1>1, Invariance, PTL

\* No input is marked seen and lost while the goroutine runs: a duplicate
\* that run drops is one the reader had or will get.
THEOREM MarkedIsKept == Spec => []NothingSwallowed
<1>1. Init => NothingSwallowed
  BY Initially
<1>2. TypeOK /\ NothingSwallowed /\ [Next]_vars => NothingSwallowed'
  <2> SUFFICES ASSUME TypeOK, NothingSwallowed, [Next]_vars, running'
               PROVE  seen' \subseteq SeenIDs \cup Elements(All')
    BY DEF NothingSwallowed, All, Elements
  <2>1. running
    BY DEF Next, Submit, GiveUp, Take, Receive, Output, Cancel, Return, vars
  <2>2. seen \subseteq SeenIDs \cup Elements(All)
    BY <2>1 DEF NothingSwallowed, All
  <2>3. CASE All' = All /\ seen' = seen
    BY <2>2, <2>3
  <2>4. ASSUME NEW id \in IDs \ seen, All' = Append(All, id), seen' = seen \cup {id}
        PROVE  seen' \subseteq SeenIDs \cup Elements(All')
    <3>1. All \in Seq(IDs)
      BY ConcatProperties DEF TypeOK, All
    <3>2. Elements(All') = Elements(All) \cup {id}
      BY <2>4, <3>1, LenProperties DEF Elements
    <3> QED BY <2>2, <2>4, <3>2
  <2> QED BY <2>3, <2>4, Steps
<1> QED BY <1>1, <1>2, TypeCorrect, PTL DEF Spec

-----------------------------------------------------------------------------
(* The promise *)

\* The inbox implements the once-only delivery of OnceDelivery: every step
\* accepts one new input, hands over one that was accepted and not handed
\* over yet, or changes neither.
THEOREM KeepsPromise == Spec => ImplementsOnceDelivery
<1>1. Init => Promise!Init
  BY DEF Init, Promise!Init
<1>2. IInv /\ [Next]_vars => [Promise!Next]_Promise!vars
  <2> SUFFICES ASSUME IInv, [Next]_vars
               PROVE  Promise!Next \/ UNCHANGED <<seen, received>>
    BY DEF Promise!vars
  <2>1. ASSUME NEW s \in Senders, NEW id \in IDs, Submit(s, id)
        PROVE  UNCHANGED <<seen, received>>
    BY <2>1 DEF Submit
  <2>2. ASSUME NEW s \in Senders, GiveUp(s) PROVE UNCHANGED <<seen, received>>
    BY <2>2 DEF GiveUp
  <2>3. ASSUME NEW s \in Senders, Take(s) PROVE Promise!Next \/ UNCHANGED <<seen, received>>
    <3>1. CASE Duplicate(submitting[s])
      BY <2>3, <3>1 DEF Take, Receive
    <3>2. CASE ~Duplicate(submitting[s])
      <4>1. submitting[s] \in IDs
        BY <2>3 DEF Take, IInv, TypeOK
      <4>2. Promise!Accept(submitting[s])
        BY <2>3, <3>2 DEF Take, Receive, Duplicate, Promise!Accept
      <4> QED BY <4>1, <4>2 DEF Promise!Next
    <3> QED BY <3>1, <3>2
  <2>4. CASE Output
    <3> DEFINE id == Head(queued)
               n == Len(received)
    <3>1. /\ queued # <<>> /\ received' = Append(received, id) /\ seen' = seen
          /\ queued \in Seq(IDs) /\ received \in Seq(IDs)
      BY <2>4 DEF Output, IInv, TypeOK
    <3>2. /\ id \in IDs /\ n \in Nat /\ Len(queued) \in Nat \ {0}
          /\ DOMAIN received = 1 .. n
      BY <3>1, HeadTailProperties, LenProperties, EmptySeq
    <3>3. /\ \A i \in 1 .. n : All[i] = received[i]
          /\ All[n + 1] = id
          /\ DOMAIN All = 1 .. n + Len(queued)
      BY <3>1, <3>2, ConcatProperties, LenProperties DEF All
    <3>4. \A i \in DOMAIN received : received[i] # id
      BY <3>2, <3>3 DEF IInv, AtMostOnce, All
    <3>5. id \in seen \ SeenIDs
      BY <3>2, <3>3 DEF IInv, AtMostOnce, Marked, Elements, All
    <3>6. Promise!HandOver(id)
      BY <3>1, <3>4, <3>5 DEF Promise!HandOver
    <3> QED BY <3>2, <3>6 DEF Promise!Next
  <2>5. CASE Cancel \/ Return \/ UNCHANGED vars
    BY <2>5 DEF Cancel, Return, vars
  <2> QED BY <2>1, <2>2, <2>3, <2>4, <2>5 DEF Next
<1> QED BY <1>1, <1>2, Invariance, PTL DEF Spec, ImplementsOnceDelivery, Promise!Spec
=============================================================================
