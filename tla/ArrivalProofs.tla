---------------------------- MODULE ArrivalProofs ----------------------------
(***************************************************************************)
(* Each external input reaches the log once, in the order it came, over    *)
(* any number of runs.                                                     *)
(*                                                                         *)
(* The external inputs among items are a fold over them (Externals); the   *)
(* first part proves what it gives for an item more and for two sequences  *)
(* put together.  Then every step either leaves the line of inputs as it   *)
(* is, adds one that was not seen at its end, or cuts off what no log      *)
(* holds.                                                                  *)
(*                                                                         *)
(* The second part counts the verifications of one prompt: replay counts   *)
(* them by the prompts it meets, and the loop starts one only when what it *)
(* counted leaves room for it.                                             *)
(***************************************************************************)
EXTENDS LifecycleProofs, FiniteSetTheorems

-----------------------------------------------------------------------------
(* Induction over sequences, for a set that holds them *)

LEMMA SequenceSetInduction ==
  ASSUME NEW A, NEW P, <<>> \in P,
         \A s \in Seq(A), x \in A : s \in P => Append(s, x) \in P
  PROVE  Seq(A) \subseteq P
<1> DEFINE N == {n \in Nat : \A s \in Seq(A) : Len(s) = n => s \in P}
<1>1. 0 \in N
  BY EmptySeq
<1>2. ASSUME NEW n \in Nat, n \in N PROVE n + 1 \in N
  <2> SUFFICES ASSUME NEW s \in Seq(A), Len(s) = n + 1 PROVE s \in P
    OBVIOUS
  <2> DEFINE t == [i \in 1 .. n |-> s[i]]
  <2>1. DOMAIN s = 1 .. n + 1 /\ \A i \in 1 .. n + 1 : s[i] \in A
    BY LenProperties, ElementOfSeq
  <2>2. t \in Seq(A) /\ Len(t) = n
    BY <2>1, IsASeq
  <2>3. s = Append(t, s[n + 1])
    <3>1. /\ Append(t, s[n + 1]) \in Seq(A) /\ Len(Append(t, s[n + 1])) = n + 1
          /\ \A i \in 1 .. n : Append(t, s[n + 1])[i] = t[i]
          /\ Append(t, s[n + 1])[n + 1] = s[n + 1]
      BY <2>1, <2>2, AppendProperties
    <3>2. \A i \in 1 .. n + 1 : s[i] = Append(t, s[n + 1])[i]
      <4> SUFFICES ASSUME NEW i \in 1 .. n + 1 PROVE s[i] = Append(t, s[n + 1])[i]
        OBVIOUS
      <4>1. CASE i = n + 1
        BY <3>1, <4>1
      <4>2. CASE i \in 1 .. n
        <5>1. t[i] = s[i]
          BY <4>2
        <5> QED BY <3>1, <4>2, <5>1
      <4> QED BY <4>1, <4>2
    <3> HIDE DEF t
    <3> QED BY <3>1, <3>2, SeqEqual
  <2>4. t \in P
    BY <1>2, <2>2
  <2>5. s[n + 1] \in A
    BY <2>1
  <2> HIDE DEF t
  <2> QED BY <2>2, <2>3, <2>4, <2>5
<1> HIDE DEF N
<1>3. Nat \subseteq N
  BY <1>1, <1>2, NatSetInduction
<1> QED BY <1>3, LenProperties DEF N

-----------------------------------------------------------------------------
(* The external inputs among items *)

\* The external inputs among the first n items, for every n, are a function
\* that begins with none and adds those of item after item.
Collects(f, items, n) ==
  f = [k \in 0 .. n |->
         IF k = 0 THEN <<>>
         ELSE IF IsExternal(items[k]) THEN Append(f[k - 1], items[k].id)
         ELSE f[k - 1]]

LEMMA CollectionExists ==
  ASSUME NEW items, NEW n \in Nat
  PROVE  \E f : Collects(f, items, n)
<1> DEFINE S == {m \in Nat : \E f : Collects(f, items, m)}
           With(e, k) == IF IsExternal(items[k]) THEN Append(e, items[k].id) ELSE e
<1>0. ASSUME NEW f, NEW m \in Nat
      PROVE  Collects(f, items, m) <=>
               f = [k \in 0 .. m |-> IF k = 0 THEN <<>> ELSE With(f[k - 1], k)]
  BY Zenon DEF Collects
<1> HIDE DEF With
<1>1. 0 \in S
  <2> DEFINE f == [k \in 0 .. 0 |-> <<>>]
  <2>1. f = [k \in 0 .. 0 |-> IF k = 0 THEN <<>> ELSE With(f[k - 1], k)]
    OBVIOUS
  <2> HIDE DEF f
  <2> QED BY <1>0, <2>1
<1>2. ASSUME NEW m \in Nat, m \in S PROVE m + 1 \in S
  <2> PICK f : Collects(f, items, m)
    BY <1>2
  <2> DEFINE g == [k \in 0 .. m + 1 |-> IF k = m + 1 THEN With(f[m], k) ELSE f[k]]
  <2>0. f = [k \in 0 .. m |-> IF k = 0 THEN <<>> ELSE With(f[k - 1], k)]
    BY <1>0
  <2>1. \A k \in 0 .. m : f[k] = IF k = 0 THEN <<>> ELSE With(f[k - 1], k)
    BY <2>0
  <2>2. \A k \in 0 .. m : g[k] = f[k]
    OBVIOUS
  <2>3. \A k \in 0 .. m + 1 : g[k] = IF k = 0 THEN <<>> ELSE With(g[k - 1], k)
    <3> SUFFICES ASSUME NEW k \in 0 .. m + 1
                 PROVE  g[k] = IF k = 0 THEN <<>> ELSE With(g[k - 1], k)
      OBVIOUS
    <3>1. CASE k = m + 1
      <4>1. k # 0 /\ k - 1 = m /\ m \in 0 .. m
        BY <3>1
      <4> QED BY <2>2, <3>1, <4>1
    <3>2. CASE k \in 0 .. m
      <4>1. k = 0 \/ k - 1 \in 0 .. m
        BY <3>2
      <4>2. g[k] = f[k] /\ (k # 0 => g[k - 1] = f[k - 1])
        BY <2>2, <3>2, <4>1
      <4> HIDE DEF g
      <4> QED BY <2>1, <3>2, <4>2
    <3> QED BY <3>1, <3>2
  <2>4. g = [k \in 0 .. m + 1 |-> IF k = 0 THEN <<>> ELSE With(g[k - 1], k)]
    <3>1. g = [k \in 0 .. m + 1 |-> g[k]]
      OBVIOUS
    <3> HIDE DEF g
    <3> QED BY <2>3, <3>1
  <2> HIDE DEF g
  <2>5. m + 1 \in Nat
    OBVIOUS
  <2>6. Collects(g, items, m + 1)
    BY <1>0, <2>4, <2>5
  <2> QED BY <2>5, <2>6
<1> HIDE DEF S
<1>3. Nat \subseteq S
  BY <1>1, <1>2, NatSetInduction
<1> QED BY <1>3 DEF S

\* One collection of the items, and what it ends in.
Collection(items) == CHOOSE f : Collects(f, items, Len(items))

LEMMA CollectionSteps ==
  ASSUME NEW items \in Seq(Items)
  PROVE  /\ Len(items) \in Nat
         /\ Externals(items) = Collection(items)[Len(items)]
         /\ Collection(items)[0] = <<>>
         /\ \A k \in 1 .. Len(items) :
              Collection(items)[k] =
                IF IsExternal(items[k]) THEN Append(Collection(items)[k - 1], items[k].id)
                ELSE Collection(items)[k - 1]
<1>1. Len(items) \in Nat
  BY LenProperties
<1> DEFINE f == Collection(items)
<1>2. Collects(f, items, Len(items))
  BY <1>1, CollectionExists DEF Collection
<1>3. Externals(items) = f[Len(items)]
  BY Zenon DEF Externals, Collection, Collects
<1> HIDE DEF f
<1>4. \A k \in 0 .. Len(items) :
        f[k] = IF k = 0 THEN <<>>
               ELSE IF IsExternal(items[k]) THEN Append(f[k - 1], items[k].id)
               ELSE f[k - 1]
  BY <1>2 DEF Collects
<1>5. f[0] = <<>>
  BY <1>1, <1>4
<1>6. \A k \in 1 .. Len(items) :
        f[k] = IF IsExternal(items[k]) THEN Append(f[k - 1], items[k].id) ELSE f[k - 1]
  BY <1>1, <1>4
<1> QED BY <1>1, <1>3, <1>5, <1>6 DEF f

LEMMA ExternalsOfNothing == Externals(<<>>) = <<>>
BY CollectionSteps, EmptySeq

\* One more item adds its external input, if it is one.
LEMMA ExternalsAppend ==
  ASSUME NEW items \in Seq(Items), NEW item \in Items
  PROVE  Externals(Append(items, item)) =
           IF IsExternal(item) THEN Append(Externals(items), item.id) ELSE Externals(items)
<1> DEFINE more == Append(items, item)
           f == Collection(items)
           g == Collection(more)
           n == Len(items)
           S == {m \in Nat : m <= n => g[m] = f[m]}
<1>1. /\ more \in Seq(Items) /\ Len(more) = n + 1 /\ n \in Nat
      /\ \A i \in 1 .. n : more[i] = items[i]
      /\ more[n + 1] = item
  BY AppendProperties, LenProperties
<1>2. /\ Externals(items) = f[n] /\ f[0] = <<>>
      /\ \A k \in 1 .. n :
           f[k] = IF IsExternal(items[k]) THEN Append(f[k - 1], items[k].id) ELSE f[k - 1]
  BY CollectionSteps
<1> HIDE DEF more
<1>3. /\ Externals(more) = g[n + 1] /\ g[0] = <<>>
      /\ \A k \in 1 .. n + 1 :
           g[k] = IF IsExternal(more[k]) THEN Append(g[k - 1], more[k].id) ELSE g[k - 1]
  BY <1>1, CollectionSteps
<1> HIDE DEF f, g, n
<1>4. 0 \in S
  BY <1>2, <1>3
<1>5. ASSUME NEW m \in Nat, m \in S PROVE m + 1 \in S
  <2> SUFFICES ASSUME m + 1 <= n PROVE g[m + 1] = f[m + 1]
    OBVIOUS
  <2>1. g[m] = f[m]
    BY <1>1, <1>5
  <2>2. m + 1 \in 1 .. n /\ m + 1 \in 1 .. n + 1 /\ (m + 1) - 1 = m
    BY <1>1
  <2> QED BY <1>1, <1>2, <1>3, <2>1, <2>2
<1> HIDE DEF S
<1>6. n \in S
  BY <1>1, <1>4, <1>5, NatSetInduction
<1>7. g[n] = f[n]
  BY <1>1, <1>6 DEF S
<1>8. n + 1 \in 1 .. n + 1 /\ (n + 1) - 1 = n
  BY <1>1
<1>9. g[n + 1] = IF IsExternal(item) THEN Append(g[n], item.id) ELSE g[n]
  BY <1>1, <1>3, <1>8
<1> QED BY <1>2, <1>3, <1>7, <1>9 DEF more

\* They are external inputs the items hold.
LEMMA ExternalsAreThere ==
  ASSUME NEW items \in Seq(Items)
  PROVE  /\ Externals(items) \in Seq(External)
         /\ \A k \in DOMAIN Externals(items) :
              \E i \in DOMAIN items : items[i] = InputItem(Externals(items)[k])
<1> DEFINE There(t) == /\ Externals(t) \in Seq(External)
                       /\ \A k \in DOMAIN Externals(t) :
                            \E i \in DOMAIN t : t[i] = InputItem(Externals(t)[k])
           P == {t \in Seq(Items) : There(t)}
<1>1. <<>> \in P
  <2>1. <<>> \in Seq(Items) /\ <<>> \in Seq(External) /\ DOMAIN <<>> = {}
    BY EmptySeq
  <2>2. There(<<>>)
    BY <2>1, ExternalsOfNothing
  <2> HIDE DEF There
  <2> QED BY <2>1, <2>2
<1>2. ASSUME NEW t \in Seq(Items), NEW item \in Items, t \in P
      PROVE  Append(t, item) \in P
  <2> DEFINE more == Append(t, item)
  <2>1. /\ more \in Seq(Items) /\ Len(t) \in Nat
        /\ DOMAIN more = 1 .. Len(t) + 1 /\ DOMAIN t = 1 .. Len(t)
        /\ \A i \in 1 .. Len(t) : more[i] = t[i]
        /\ more[Len(t) + 1] = item
    BY AppendProperties, LenProperties
  <2>2. Externals(more) = IF IsExternal(item) THEN Append(Externals(t), item.id)
                          ELSE Externals(t)
    BY ExternalsAppend
  <2>3. There(t)
    BY <1>2
  <2> HIDE DEF more
  <2>4. ASSUME ~IsExternal(item) PROVE There(more)
    <3>1. Externals(more) = Externals(t)
      BY <2>2, <2>4
    <3>2. DOMAIN t \subseteq DOMAIN more /\ \A i \in DOMAIN t : more[i] = t[i]
      BY <2>1
    <3> QED BY <2>1, <2>3, <3>1, <3>2
  <2>5. ASSUME IsExternal(item) PROVE There(more)
    <3> DEFINE e == Externals(t)
               f == Externals(more)
    <3>1. PICK id \in External : item = InputItem(id)
      BY <2>5 DEF IsExternal
    <3>2. item.id = id
      BY <3>1 DEF InputItem
    <3>3. e \in Seq(External) /\ f = Append(e, id)
      BY <2>2, <2>3, <2>5, <3>2
    <3>4. /\ f \in Seq(External) /\ DOMAIN f = 1 .. Len(e) + 1 /\ DOMAIN e = 1 .. Len(e)
          /\ \A k \in 1 .. Len(e) : f[k] = e[k]
          /\ f[Len(e) + 1] = id /\ Len(e) \in Nat
      BY <3>3, AppendProperties, LenProperties
    <3>5. ASSUME NEW k \in DOMAIN f
          PROVE  \E i \in DOMAIN more : more[i] = InputItem(f[k])
      <4>1. CASE k = Len(e) + 1
        BY <2>1, <3>1, <3>4, <4>1
      <4>2. CASE k \in 1 .. Len(e)
        <5>1. PICK i \in DOMAIN t : t[i] = InputItem(e[k])
          BY <2>3, <3>4, <4>2
        <5> QED BY <2>1, <3>4, <4>2, <5>1
      <4> QED BY <3>4, <3>5, <4>1, <4>2
    <3> QED BY <2>1, <3>4, <3>5
  <2> HIDE DEF There
  <2> QED BY <2>1, <2>4, <2>5 DEF more
<1>3. Seq(Items) \subseteq P
  <2> HIDE DEF P
  <2> QED BY <1>1, <1>2, SequenceSetInduction
<1> QED BY <1>3

LEMMA ConcatAppend ==
  ASSUME NEW A, NEW s \in Seq(A), NEW t \in Seq(A), NEW x \in A
  PROVE  s \o Append(t, x) = Append(s \o t, x)
<1>1. <<x>> \in Seq(A) /\ s \o t \in Seq(A)
  BY ConcatProperties
<1>2. Append(t, x) = t \o <<x>> /\ Append(s \o t, x) = (s \o t) \o <<x>>
  BY <1>1, AppendIsConcat
<1> QED BY <1>1, <1>2, ConcatAssociative

\* The external inputs of two sequences of items are put together, too.
LEMMA ExternalsConcat ==
  ASSUME NEW items \in Seq(Items), NEW others \in Seq(Items)
  PROVE  Externals(items \o others) = Externals(items) \o Externals(others)
<1> DEFINE P == {t \in Seq(Items) : Externals(items \o t) = Externals(items) \o Externals(t)}
<1>1. <<>> \in P
  <2>1. items \o <<>> = items /\ Externals(items) \o <<>> = Externals(items)
    BY ConcatEmptySeq, ExternalsAreThere
  <2> QED BY <2>1, ExternalsOfNothing, EmptySeq
<1>2. ASSUME NEW t \in Seq(Items), NEW item \in Items, t \in P
      PROVE  Append(t, item) \in P
  <2>1. items \o t \in Seq(Items) /\ Append(t, item) \in Seq(Items)
    BY ConcatProperties, AppendProperties
  <2>2. items \o Append(t, item) = Append(items \o t, item)
    BY ConcatAppend
  <2>3. Externals(items \o t) = Externals(items) \o Externals(t)
    BY <1>2
  <2>4. CASE ~IsExternal(item)
    BY <2>1, <2>2, <2>3, <2>4, ExternalsAppend
  <2>5. CASE IsExternal(item)
    <3>1. item.id \in External
      BY <2>5 DEF IsExternal, InputItem
    <3>2. Externals(items) \o Append(Externals(t), item.id)
            = Append(Externals(items) \o Externals(t), item.id)
      BY <3>1, ExternalsAreThere, ConcatAppend
    <3> QED BY <2>1, <2>2, <2>3, <2>5, <3>2, ExternalsAppend
  <2> QED BY <2>4, <2>5
<1>3. Seq(Items) \subseteq P
  <2> HIDE DEF P
  <2> QED BY <1>1, <1>2, SequenceSetInduction
<1> QED BY <1>3

-----------------------------------------------------------------------------
(* The external inputs among inputs that wait *)

Waiting(ids) == Externals(AsItems(ids))

LEMMA AsItemsType ==
  ASSUME NEW ids \in Seq(Inputs)
  PROVE  AsItems(ids) \in Seq(Items) /\ Len(AsItems(ids)) = Len(ids)
         /\ \A i \in 1 .. Len(ids) : AsItems(ids)[i] = InputItem(ids[i])
<1>1. Len(ids) \in Nat /\ DOMAIN ids = 1 .. Len(ids) /\ \A i \in 1 .. Len(ids) : ids[i] \in Inputs
  BY LenProperties, ElementOfSeq
<1>2. \A i \in 1 .. Len(ids) : InputItem(ids[i]) \in Items
  BY <1>1, ItemTypes
<1> QED BY <1>1, <1>2, IsASeq DEF AsItems

LEMMA AsItemsAppend ==
  ASSUME NEW ids \in Seq(Inputs), NEW id \in Inputs
  PROVE  AsItems(Append(ids, id)) = Append(AsItems(ids), InputItem(id))
<1> DEFINE n == Len(ids)
           s == AsItems(Append(ids, id))
           t == Append(AsItems(ids), InputItem(id))
<1>1. /\ Append(ids, id) \in Seq(Inputs) /\ n \in Nat /\ Len(Append(ids, id)) = n + 1
      /\ \A i \in 1 .. n : Append(ids, id)[i] = ids[i]
      /\ Append(ids, id)[n + 1] = id
  BY AppendProperties, LenProperties
<1>2. /\ s \in Seq(Items) /\ Len(s) = n + 1
      /\ \A i \in 1 .. n + 1 : s[i] = InputItem(Append(ids, id)[i])
  BY <1>1, AsItemsType
<1>3. /\ t \in Seq(Items) /\ Len(t) = n + 1
      /\ \A i \in 1 .. n : t[i] = InputItem(ids[i])
      /\ t[n + 1] = InputItem(id)
  BY <1>1, AsItemsType, ItemTypes, AppendProperties
<1>4. \A i \in 1 .. n + 1 : s[i] = t[i]
  <2> SUFFICES ASSUME NEW i \in 1 .. n + 1 PROVE s[i] = t[i]
    OBVIOUS
  <2>1. CASE i = n + 1
    BY <1>1, <1>2, <1>3, <2>1
  <2>2. CASE i \in 1 .. n
    BY <1>1, <1>2, <1>3, <2>2
  <2>3. i = n + 1 \/ i \in 1 .. n
    BY <1>1
  <2> HIDE DEF s, t, n
  <2> QED BY <2>1, <2>2, <2>3
<1> HIDE DEF s, t
<1>5. s = t
  BY <1>2, <1>3, <1>4, SeqEqual
<1> QED BY <1>5 DEF s, t

LEMMA AsItemsOfNothing == AsItems(<<>>) = <<>>
<1>1. AsItems(<<>>) \in Seq(Items) /\ Len(AsItems(<<>>)) = 0
  BY AsItemsType, EmptySeq
<1> QED BY <1>1, EmptySeq

LEMMA AsItemsConcat ==
  ASSUME NEW ids \in Seq(Inputs), NEW others \in Seq(Inputs)
  PROVE  AsItems(ids \o others) = AsItems(ids) \o AsItems(others)
<1> DEFINE P == {t \in Seq(Inputs) : AsItems(ids \o t) = AsItems(ids) \o AsItems(t)}
<1>1. <<>> \in P
  <2>1. ids \o <<>> = ids /\ AsItems(ids) \o <<>> = AsItems(ids)
    BY ConcatEmptySeq, AsItemsType
  <2> QED BY <2>1, AsItemsOfNothing, EmptySeq
<1>2. ASSUME NEW t \in Seq(Inputs), NEW id \in Inputs, t \in P
      PROVE  Append(t, id) \in P
  <2>1. ids \o t \in Seq(Inputs) /\ Append(t, id) \in Seq(Inputs) /\ InputItem(id) \in Items
    BY ConcatProperties, AppendProperties, ItemTypes
  <2>2. ids \o Append(t, id) = Append(ids \o t, id)
    BY ConcatAppend
  <2>3. AsItems(ids \o t) = AsItems(ids) \o AsItems(t)
    BY <1>2
  <2>4. AsItems(ids) \o Append(AsItems(t), InputItem(id))
          = Append(AsItems(ids) \o AsItems(t), InputItem(id))
    BY <2>1, AsItemsType, ConcatAppend
  <2>5. AsItems(Append(ids \o t, id)) = AsItems(ids) \o AsItems(Append(t, id))
    BY <2>1, <2>3, <2>4, AsItemsAppend
  <2> QED BY <2>1, <2>2, <2>5
<1>3. Seq(Inputs) \subseteq P
  <2> HIDE DEF P
  <2> QED BY <1>1, <1>2, SequenceSetInduction
<1> QED BY <1>3

LEMMA WaitingConcat ==
  ASSUME NEW ids \in Seq(Inputs), NEW others \in Seq(Inputs)
  PROVE  Waiting(ids \o others) = Waiting(ids) \o Waiting(others)
BY AsItemsConcat, AsItemsType, ExternalsConcat DEF Waiting

LEMMA WaitingAppend ==
  ASSUME NEW ids \in Seq(Inputs), NEW id \in Inputs
  PROVE  /\ Waiting(ids) \in Seq(External)
         /\ Waiting(Append(ids, id)) =
              IF id \in External THEN Append(Waiting(ids), id) ELSE Waiting(ids)
<1>1. InputItem(id) \in Items /\ InputItem(id).id = id /\ AsItems(ids) \in Seq(Items)
  BY ItemTypes, AsItemsType DEF InputItem
<1>2. IsExternal(InputItem(id)) <=> id \in External
  BY DEF IsExternal, InputItem
<1> QED BY <1>1, <1>2, AsItemsAppend, ExternalsAppend, ExternalsAreThere DEF Waiting

LEMMA WaitingOfNothing == Waiting(<<>>) = <<>>
BY AsItemsOfNothing, ExternalsOfNothing DEF Waiting

\* Controls hold none, external inputs only such.
LEMMA WaitingControls ==
  ASSUME NEW ids \in Seq(Controls)
  PROVE  Waiting(ids) = <<>> /\ ids \in Seq(Inputs)
<1> DEFINE P == {t \in Seq(Inputs) : Waiting(t) = <<>>}
<1>1. <<>> \in P
  BY WaitingOfNothing, EmptySeq
<1>2. ASSUME NEW t \in Seq(Controls), NEW id \in Controls, t \in P
      PROVE  Append(t, id) \in P
  <2>1. id \in Inputs /\ id \notin External
    BY ItemsAssumption DEF Inputs, Controls, Heartbeats
  <2> QED BY <1>2, <2>1, WaitingAppend, AppendProperties
<1>3. Seq(Controls) \subseteq P
  <2> HIDE DEF P
  <2> QED BY <1>1, <1>2, SequenceSetInduction
<1> QED BY <1>3

LEMMA WaitingExternals ==
  ASSUME NEW ids \in Seq(External)
  PROVE  Waiting(ids) = ids /\ ids \in Seq(Inputs)
<1> DEFINE P == {t \in Seq(Inputs) : Waiting(t) = t}
<1>1. <<>> \in P
  BY WaitingOfNothing, EmptySeq
<1>2. ASSUME NEW t \in Seq(External), NEW id \in External, t \in P
      PROVE  Append(t, id) \in P
  <2>1. id \in Inputs
    BY DEF Inputs
  <2> QED BY <1>2, <2>1, WaitingAppend, AppendProperties
<1>3. Seq(External) \subseteq P
  <2> HIDE DEF P
  <2> QED BY <1>1, <1>2, SequenceSetInduction
<1> QED BY <1>3

-----------------------------------------------------------------------------
(* The input that waits for tools, and the verification that runs, stay with *)
(* most steps.                                                               *)

Keeps == r'.deferred = r.deferred /\ r'.verifying = r.verifying

LEMMA EventsKeep ==
  ASSUME TypeOK,
         \/ ScheduledAll \/ ReconciledAll \/ InputsSlurped \/ UpdatesSlurped \/ DropResult
         \/ Timers \/ QuotaRefuses \/ SummaryOverflows \/ AnswerOverflows \/ RecordInput
         \/ AnswerArrives \/ SummaryArrives \/ SaveCheckpoint
  PROVE  Keeps
<1>0. r \in RunState
  BY DEF TypeOK
<1>1. CASE ScheduledAll \/ ReconciledAll \/ InputsSlurped \/ UpdatesSlurped \/ DropResult
  BY <1>1 DEF Keeps, ScheduledAll, ReconciledAll, InputsSlurped, UpdatesSlurped, DropResult
<1>2. CASE Timers
  <2>1. CASE DeadlinePasses
    BY <1>0, <2>1, ZenonT(60) DEF DeadlinePasses, Keeps, RunState
  <2>2. CASE ReportDue
    BY <1>0, <2>2, ZenonT(60) DEF ReportDue, Keeps, RunState
  <2>3. CASE QuotaLifts
    BY <1>0, <2>3, ZenonT(60) DEF QuotaLifts, Keeps, RunState
  <2>4. CASE GraceEnds
    BY <1>0, <2>4, ZenonT(60) DEF GraceEnds, Keeps, RunState
  <2>5. CASE ToolWaitEnds
    BY <1>0, <2>5, ZenonT(60) DEF ToolWaitEnds, Keeps, RunState
  <2>6. CASE PostHeartbeat
    BY <2>6 DEF PostHeartbeat, Keeps
  <2> QED BY <1>2, <2>1, <2>2, <2>3, <2>4, <2>5, <2>6, Zenon DEF Timers
<1>3. CASE QuotaRefuses
  <2> PICK n \in flying :
        r' = [r EXCEPT !.live = FALSE, !.quotaWaits = @ + 1, !.quota = TRUE,
                       !.compact = @ \/ n \in h.compactionTurns,
                       !.callModel = @ \/ n \notin h.compactionTurns]
    BY <1>3, Zenon DEF QuotaRefuses
  <2> QED BY <1>0, ZenonT(60) DEF Keeps, RunState
<1>4. CASE SummaryOverflows
  BY <1>0, <1>4, ZenonT(60) DEF SummaryOverflows, Keeps, RunState
<1>5. CASE AnswerOverflows
  <2>1. r' = [Send(r) EXCEPT !.compact = FALSE, !.callModel = TRUE]
    BY <1>5, Zenon DEF AnswerOverflows
  <2> QED BY <1>0, <2>1, ZenonT(60) DEF Send, Keeps, RunState
<1>6. CASE RecordInput
  <2> DEFINE id == Head(todo)
             calls == r.callModel \/ id \in External
             compact == r.compact \/ id = "compact"
             stop == AcceptStop(r.stop, id)
             fresh == r.freshStop \/ id = "stop_hard"
             wrapUp == IF id = "budget" THEN h'.available ELSE r.wrapUp
             grace == IF id \in {"settings", "compact"} THEN r.grace ELSE {}
  <2>1. r' = [r EXCEPT !.callModel = calls, !.compact = compact, !.stop = stop,
                       !.freshStop = fresh, !.wrapUp = wrapUp, !.grace = grace]
    BY <1>6, Zenon DEF RecordInput
  <2> HIDE DEF id, calls, compact, stop, fresh, wrapUp, grace
  <2> QED BY <1>0, <2>1, ZenonT(60) DEF Keeps, RunState
<1>7. CASE AnswerArrives
  <2> PICK ending \in {"whole", "empty", "cut", "refused", "failed"} :
        r' = [r EXCEPT !.live = FALSE, !.quotaWaits = 0, !.ending = ending,
                       !.statuses = {}, !.due = FALSE]
    BY <1>7, Zenon DEF AnswerArrives
  <2> QED BY <1>0, ZenonT(60) DEF Keeps, RunState
<1>8. CASE SummaryArrives
  <2>1. r' = [r EXCEPT !.live = FALSE, !.quotaWaits = 0]
    BY <1>8, Zenon DEF SummaryArrives
  <2> QED BY <1>0, <2>1, ZenonT(60) DEF Keeps, RunState
<1>9. CASE SaveCheckpoint
  <2>1. r' = [r EXCEPT !.compactions = @ + 1]
    BY <1>9, Zenon DEF SaveCheckpoint
  <2> QED BY <1>0, <2>1, ZenonT(60) DEF Keeps, RunState
<1> QED BY <1>1, <1>2, <1>3, <1>4, <1>5, <1>6, <1>7, <1>8, <1>9, Zenon

LEMMA WorkKeeps ==
  ASSUME TypeOK,
         \/ ScheduleToolCall \/ ReconcileToolCall \/ StartLoop \/ DispatchCalls
         \/ CountTurn \/ AnswerStands \/ AnswerCut \/ AnswerRefused \/ AnswerWhole
         \/ CancelOperations \/ Decide
         \/ BeginCompaction \/ DropCompaction \/ TellFirst \/ BeginTurn
  PROVE  Keeps
<1>0. r \in RunState
  BY DEF TypeOK
<1>1. CASE ScheduleToolCall
  <2> PICK c \in Calls, status \in {"ready", "none"} :
        r' = [WithOpenCalls(r, h') EXCEPT !.statuses = @ \cup {c},
                                          !.due = @ \/ status = "none"]
    BY <1>1, Zenon DEF ScheduleToolCall
  <2> QED BY <1>0, ZenonT(60) DEF WithOpenCalls, Keeps, RunState
<1>2. CASE ReconcileToolCall
  <2>1. r' = WithOpenCalls(r, h')
    BY <1>2, Zenon DEF ReconcileToolCall
  <2> QED BY <1>0, <2>1, ZenonT(60) DEF WithOpenCalls, Keeps, RunState
<1>3. CASE StartLoop
  <2> PICK call : r' = [r EXCEPT !.started = TRUE, !.due = FALSE, !.statuses = {},
                                 !.ordinary = call]
    BY <1>3, Zenon DEF StartLoop
  <2> QED BY <1>0, ZenonT(60) DEF Keeps, RunState
<1>4. CASE DispatchCalls
  <2> DEFINE grace == IF r.callModel THEN r.grace ELSE r.grace \cup r.statuses
  <2>1. r' = [r EXCEPT !.grace = grace, !.statuses = {}]
    BY <1>4, Zenon DEF DispatchCalls
  <2> HIDE DEF grace
  <2> QED BY <1>0, <2>1, ZenonT(60) DEF Keeps, RunState
<1>5. CASE CountTurn
  <2> DEFINE stop == IF FinalReport THEN "hard" ELSE r.stop
             turns == r.turns + 1
  <2>1. r' = [r EXCEPT !.turns = turns, !.callModel = r.due, !.due = FALSE, !.stop = stop]
    BY <1>5, Zenon DEF CountTurn
  <2> HIDE DEF stop, turns
  <2> QED BY <1>0, <2>1, ZenonT(60) DEF Keeps, RunState
<1>6. CASE AnswerStands
  BY <1>0, <1>6, ZenonT(60) DEF AnswerStands, Keeps, RunState
<1>7. CASE AnswerCut
  BY <1>0, <1>7, ZenonT(60) DEF AnswerCut, Keeps, RunState
<1>8. CASE AnswerRefused
  BY <1>0, <1>8, ZenonT(60) DEF AnswerRefused, Keeps, RunState
<1>9. CASE AnswerWhole
  BY <1>0, <1>9, ZenonT(60) DEF AnswerWhole, Keeps, RunState
<1>10. CASE CancelOperations
  BY <1>0, <1>10, ZenonT(60) DEF CancelOperations, Keeps, RunState
<1>11. CASE Decide
  BY <1>0, <1>11, ZenonT(60) DEF Decide, Keeps, RunState
<1>12. CASE BeginCompaction
  <2> DEFINE calls == r.callModel \/ r.ordinary
             grace == IF r.ordinary THEN {} ELSE r.grace
  <2>1. r' = [[r EXCEPT !.live = TRUE, !.cutdowns = 0]
                EXCEPT !.compact = FALSE, !.callModel = calls, !.grace = grace]
    <3>1. r' = [Send(r) EXCEPT !.compact = FALSE, !.callModel = @ \/ r.ordinary,
                               !.grace = IF r.ordinary THEN {} ELSE @]
      BY <1>12, Zenon DEF BeginCompaction
    <3> QED BY <1>0, <3>1, ZenonT(60) DEF Send, RunState
  <2> HIDE DEF calls, grace
  <2> QED BY <1>0, <2>1, ZenonT(60) DEF Keeps, RunState
<1>13. CASE DropCompaction
  BY <1>0, <1>13, ZenonT(60) DEF DropCompaction, Keeps, RunState
<1>14. CASE TellFirst
  <2>1. r' = [r EXCEPT !.live = FALSE, !.compact = FALSE, !.notesChecked = TRUE]
    BY <1>14, Zenon DEF TellFirst
  <2> QED BY <1>0, <2>1, ZenonT(60) DEF Keeps, RunState
<1>15. CASE BeginTurn
  <2>1. r' = [Send(r) EXCEPT !.callModel = FALSE, !.grace = {}, !.freshStop = FALSE]
    BY <1>15, Zenon DEF BeginTurn
  <2> QED BY <1>0, <2>1, ZenonT(60) DEF Send, Keeps, RunState
<1> QED
  BY <1>1, <1>2, <1>3, <1>4, <1>5, <1>6, <1>7, <1>8, <1>9, <1>10, <1>11, <1>12, <1>13,
     <1>14, <1>15, Zenon

\* The other steps of a run change one of the two.
LEMMA OthersKeep ==
  ASSUME TypeOK
  PROVE  /\ Verify \/ TakeUpdate \/ Restore => r'.deferred = r.deferred
         /\ TakeInput \/ ProcessDue => r'.verifying = r.verifying
<1>0. r \in RunState
  BY DEF TypeOK
<1>1. ASSUME NEW k, r' = [r EXCEPT !.verifying = k] PROVE r'.deferred = r.deferred
  BY <1>0, <1>1, ZenonT(60) DEF RunState
<1>2. ASSUME Verify \/ TakeUpdate \/ Restore PROVE \E k : r' = [r EXCEPT !.verifying = k]
  <2>1. CASE Verify
    BY <2>1, Zenon DEF Verify
  <2>2. CASE TakeUpdate
    BY <2>2, Zenon DEF TakeUpdate
  <2>3. CASE Restore
    BY <2>3, Zenon DEF Restore
  <2> QED BY <1>2, <2>1, <2>2, <2>3
<1>3. ASSUME TakeInput PROVE r'.verifying = r.verifying
  <2>1. \/ UNCHANGED r
        \/ r' = [r EXCEPT !.deferred = Append(@, Head(queued))]
        \/ r' = [r EXCEPT !.deferred = <<>>, !.timer = FALSE, !.waited = FALSE]
    BY <1>3, Zenon DEF TakeInput
  <2> QED BY <1>0, <2>1, ZenonT(60) DEF RunState
<1>4. ASSUME ProcessDue PROVE r'.verifying = r.verifying
  <2> DEFINE timer == r.timer \/ ((r.deferred # <<>> /\ r.stop # "hard" /\ ~Compacting)
                                  /\ ~r.live /\ LimitsToolWait)
             due == TurnIsAsked
  <2>1. \/ r' = [r EXCEPT !.due = TRUE, !.deferred = <<>>, !.timer = FALSE, !.waited = FALSE]
        \/ r' = [r EXCEPT !.due = due, !.timer = timer]
    BY <1>4, Zenon DEF ProcessDue
  <2> HIDE DEF timer, due
  <2> QED BY <1>0, <2>1, ZenonT(60) DEF RunState
<1> QED BY <1>1, <1>2, <1>3, <1>4

-----------------------------------------------------------------------------
(* The line of external inputs *)

LEMMA Associates ==
  \A s, t, u \in Seq(External) : (s \o t) \o u = s \o (t \o u)
BY ConcatAssociative

\* The line is that of the log, then what is being recorded, what waits for
\* tools and what is in the inbox.
LEMMA LineParts ==
  ASSUME NEW items \in Seq(Items), NEW ids \in Seq(Inputs), NEW aside \in Seq(External),
         NEW box \in Seq(Inputs)
  PROVE  /\ Externals(items \o AsItems(ids \o aside \o box))
              = Externals(items) \o (Waiting(ids) \o (aside \o Waiting(box)))
         /\ Externals(items) \in Seq(External) /\ Waiting(ids) \in Seq(External)
         /\ Waiting(box) \in Seq(External)
         /\ Externals(items \o AsItems(ids \o aside \o box)) \in Seq(External)
<1>1. aside \in Seq(Inputs) /\ Waiting(aside) = aside
  BY WaitingExternals
<1>2. ids \o aside \in Seq(Inputs) /\ (ids \o aside) \o box \in Seq(Inputs)
  BY <1>1, ConcatProperties
<1>3. \A s \in Seq(Inputs) : AsItems(s) \in Seq(Items) /\ Waiting(s) \in Seq(External)
  BY AsItemsType, ExternalsAreThere DEF Waiting
<1>4. Waiting((ids \o aside) \o box) = (Waiting(ids) \o aside) \o Waiting(box)
  <2>1. Waiting(ids \o aside) = Waiting(ids) \o aside
    BY <1>1, WaitingConcat
  <2>2. Waiting((ids \o aside) \o box) = Waiting(ids \o aside) \o Waiting(box)
    BY <1>2, WaitingConcat
  <2> QED BY <2>1, <2>2
<1>5. (Waiting(ids) \o aside) \o Waiting(box) = Waiting(ids) \o (aside \o Waiting(box))
  <2>1. Waiting(ids) \in Seq(External) /\ Waiting(box) \in Seq(External)
    BY <1>3
  <2> QED BY <2>1, Associates, Zenon
<1>6. items \o AsItems((ids \o aside) \o box) \in Seq(Items)
  BY <1>2, <1>3, ConcatProperties
<1>7. Externals(items \o AsItems((ids \o aside) \o box))
        = Externals(items) \o Waiting((ids \o aside) \o box)
  BY <1>2, <1>3, ExternalsConcat DEF Waiting
<1> QED BY <1>3, <1>4, <1>5, <1>6, <1>7, ExternalsAreThere

LEMMA LineIs ==
  ASSUME TypeOK
  PROVE  /\ Line = Externals(log) \o (Waiting(todo) \o (r.deferred \o Waiting(queued)))
         /\ log \in Seq(Items) /\ todo \in Seq(Inputs) /\ queued \in Seq(Inputs)
         /\ r.deferred \in Seq(External) /\ Line \in Seq(External)
         /\ Externals(log) \in Seq(External) /\ Waiting(todo) \in Seq(External)
         /\ Waiting(queued) \in Seq(External)
<1>1. log \in Seq(Items) /\ todo \in Seq(Inputs) /\ queued \in Seq(Inputs)
  BY DEF TypeOK
<1>2. r.deferred \in Seq(External)
  BY Zenon DEF TypeOK, RunState
<1> QED BY <1>1, <1>2, LineParts DEF Line, Arrived

LEMMA NextLineIs ==
  ASSUME TypeOK'
  PROVE  /\ Line' = Externals(log') \o (Waiting(todo') \o (r'.deferred \o Waiting(queued')))
         /\ log' \in Seq(Items) /\ todo' \in Seq(Inputs) /\ queued' \in Seq(Inputs)
         /\ r'.deferred \in Seq(External) /\ Line' \in Seq(External)
<1>1. log' \in Seq(Items) /\ todo' \in Seq(Inputs) /\ queued' \in Seq(Inputs)
  BY DEF TypeOK
<1>2. r'.deferred \in Seq(External)
  BY Zenon DEF TypeOK, RunState
<1> QED BY <1>1, <1>2, LineParts DEF Line, Arrived

\* The first of the waiting inputs.
LEMMA WaitingHead ==
  ASSUME NEW ids \in Seq(Inputs), ids # <<>>
  PROVE  /\ Head(ids) \in Inputs /\ Tail(ids) \in Seq(Inputs) /\ <<Head(ids)>> \in Seq(Inputs)
         /\ ids = <<Head(ids)>> \o Tail(ids)
         /\ Waiting(ids) = Waiting(<<Head(ids)>>) \o Waiting(Tail(ids))
         /\ Waiting(<<Head(ids)>>) = IF Head(ids) \in External THEN <<Head(ids)>> ELSE <<>>
<1>1. Head(ids) \in Inputs /\ Tail(ids) \in Seq(Inputs)
  BY HeadTailProperties
<1>2. <<Head(ids)>> \in Seq(Inputs) /\ <<Head(ids)>> = Append(<<>>, Head(ids))
  BY <1>1
<1>3. ids = <<Head(ids)>> \o Tail(ids)
  BY <1>1
<1>4. Waiting(<<Head(ids)>>) = IF Head(ids) \in External THEN <<Head(ids)>> ELSE <<>>
  <2>1. <<>> \in Seq(Inputs)
    BY EmptySeq
  <2>2. Waiting(Append(<<>>, Head(ids)))
          = IF Head(ids) \in External THEN Append(Waiting(<<>>), Head(ids)) ELSE Waiting(<<>>)
    BY <1>1, <2>1, WaitingAppend
  <2>3. <<Head(ids)>> = Append(<<>>, Head(ids))
    BY <1>2
  <2> HIDE <1>2
  <2> QED BY <2>2, <2>3, WaitingOfNothing
<1> QED BY <1>1, <1>2, <1>3, <1>4, WaitingConcat

-----------------------------------------------------------------------------
(* Steps that leave the line as it is *)

\* No input moves, but controls.
KeepStep ==
  /\ Externals(log') = Externals(log) /\ Waiting(todo') = Waiting(todo)
  /\ r'.deferred = r.deferred /\ Waiting(queued') = Waiting(queued)

LEMMA StillSteps ==
  ASSUME TypeOK,
         \/ ScheduledAll \/ ReconciledAll \/ InputsSlurped \/ UpdatesSlurped \/ DropResult
         \/ QuotaLifts \/ GraceEnds \/ ToolWaitEnds \/ QuotaRefuses \/ SummaryOverflows
         \/ StartLoop \/ DispatchCalls \/ AnswerStands \/ AnswerWhole \/ CancelOperations
         \/ Decide \/ DropCompaction \/ Start \/ ReplayItem \/ Restore
         \/ OperationAwaits \/ (\E o \in Ops : OperationEnds(o)) \/ UNCHANGED vars
  PROVE  KeepStep
<1>1. UNCHANGED <<log, todo, queued>>
  BY Zenon DEF ScheduledAll, ReconciledAll, InputsSlurped, UpdatesSlurped, DropResult,
         QuotaLifts, GraceEnds, ToolWaitEnds, QuotaRefuses, SummaryOverflows, StartLoop,
         DispatchCalls, AnswerStands, AnswerWhole, CancelOperations, Decide, DropCompaction,
         Start, ReplayItem, Restore, OperationAwaits, OperationEnds, vars, durable, mail
<1>2. r'.deferred = r.deferred
  <2>1. CASE Start \/ ReplayItem \/ OperationAwaits \/ (\E o \in Ops : OperationEnds(o))
             \/ UNCHANGED vars
    BY <2>1, Zenon DEF Start, ReplayItem, OperationAwaits, OperationEnds, vars
  <2>2. CASE Restore
    BY <2>2, OthersKeep
  <2>3. CASE \/ ScheduledAll \/ ReconciledAll \/ InputsSlurped \/ UpdatesSlurped \/ DropResult
             \/ QuotaLifts \/ GraceEnds \/ ToolWaitEnds \/ QuotaRefuses \/ SummaryOverflows
    BY <2>3, EventsKeep, Zenon DEF Keeps, Timers
  <2>4. CASE \/ StartLoop \/ DispatchCalls \/ AnswerStands \/ AnswerWhole \/ CancelOperations
             \/ Decide \/ DropCompaction
    BY <2>4, WorkKeeps, Zenon DEF Keeps
  <2> QED BY <2>1, <2>2, <2>3, <2>4, Zenon
<1> QED BY <1>1, <1>2, Zenon DEF KeepStep

\* What is recorded is no input.
LEMMA RecordsNoInput ==
  ASSUME TypeOK,
         \/ AnswerArrives \/ SummaryArrives \/ AnswerOverflows \/ ScheduleToolCall
         \/ ReconcileToolCall \/ Verify \/ BeginCompaction \/ BeginTurn
  PROVE  \E item \in Items :
           /\ item.kind # "input" /\ log' = Append(log, item)
           /\ h' = AddItem(h, item) \/ h' = [AddItem(h, item) EXCEPT !.work = FALSE]
<1>0. h.turn + 1 \in Nat
  <2>1. h.turn \in Nat
    BY Zenon DEF TypeOK, DerivedState
  <2> QED BY <2>1
<1>1. CASE AnswerArrives
  <2> PICK n \in flying, calls \in SUBSET {c \in Calls : h.calls[c] = "none"},
           ending \in {"whole", "empty", "cut", "refused", "failed"} :
             Record(ResponseItem(n, calls, ending))
    BY <1>1, Zenon DEF AnswerArrives
  <2>1. n \in Nat /\ calls \in SUBSET Calls /\ ending \in Endings
    BY DEF TypeOK, Endings
  <2>2. ResponseItem(n, calls, ending) \in Items /\ ResponseItem(n, calls, ending).kind # "input"
    BY <2>1, ItemTypes DEF ResponseItem
  <2> QED BY <2>2 DEF Record
<1>2. CASE SummaryArrives
  <2> PICK n \in flying, ending \in {"summary", "nosummary"} : Record(ResponseItem(n, {}, ending))
    BY <1>2, Zenon DEF SummaryArrives
  <2>1. n \in Nat /\ {} \in SUBSET Calls /\ ending \in Endings
    BY DEF TypeOK, Endings
  <2>2. ResponseItem(n, {}, ending) \in Items /\ ResponseItem(n, {}, ending).kind # "input"
    BY <2>1, ItemTypes DEF ResponseItem
  <2> QED BY <2>2 DEF Record
<1>3. CASE AnswerOverflows \/ BeginCompaction \/ BeginTurn
  <2>1. \A b \in BOOLEAN : TurnItem(h.turn + 1, b) \in Items
                          /\ TurnItem(h.turn + 1, b).kind # "input"
    BY <1>0, ItemTypes DEF TurnItem
  <2> QED BY <1>3, <2>1 DEF AnswerOverflows, BeginCompaction, BeginTurn, Record
<1>4. CASE ScheduleToolCall \/ ReconcileToolCall \/ Verify
  <2>1. \A o \in Ops, status \in Statuses \cup {"none"} :
          StatusItem(o, status) \in Items /\ StatusItem(o, status).kind # "input"
    BY ItemTypes DEF StatusItem
  <2>2. Calls \subseteq Ops /\ UnusedChecks \subseteq Ops /\ FinishedCalls \subseteq Calls
    BY DEF Ops, UnusedChecks, FinishedCalls
  <2>3. \A c \in FinishedCalls : h.ops[c] \in Statuses
    BY DEF FinishedCalls, Statuses
  <2>4. "ready" \in Statuses
    BY DEF Statuses, Unfinished
  <2> DEFINE Records(item) ==
               /\ log' = Append(log, item)
               /\ h' = AddItem(h, item) \/ h' = [AddItem(h, item) EXCEPT !.work = FALSE]
  <2>5. \E o \in Ops, status \in Statuses \cup {"none"} : Records(StatusItem(o, status))
    <3>1. CASE ScheduleToolCall
      <4>1. \E c \in Calls, status \in {"ready", "none"} : Records(StatusItem(c, status))
        BY <3>1, Zenon DEF ScheduleToolCall, Record
      <4> HIDE DEF Records
      <4> QED BY <2>2, <2>4, <4>1
    <3>2. CASE ReconcileToolCall
      <4>1. \E c \in FinishedCalls : Records(StatusItem(c, h.ops[c]))
        BY <3>2, Zenon DEF ReconcileToolCall, Record
      <4> HIDE DEF Records
      <4> QED BY <2>2, <2>3, <4>1
    <3>3. CASE Verify
      <4>1. \E k \in UnusedChecks : Records(StatusItem(k, "ready"))
        BY <3>3, Zenon DEF Verify
      <4> HIDE DEF Records
      <4> QED BY <2>2, <2>4, <4>1
    <3> QED BY <1>4, <3>1, <3>2, <3>3
  <2> HIDE DEF Records
  <2>6. \E item \in Items : item.kind # "input" /\ Records(item)
    BY <2>1, <2>5
  <2> QED BY <2>6, Zenon DEF Records
<1> QED BY <1>1, <1>2, <1>3, <1>4

LEMMA RecordSteps ==
  ASSUME TypeOK,
         \/ AnswerArrives \/ SummaryArrives \/ AnswerOverflows \/ ScheduleToolCall
         \/ ReconcileToolCall \/ Verify \/ BeginCompaction \/ BeginTurn
  PROVE  KeepStep
<1>1. \E item \in Items : item.kind # "input" /\ log' = Append(log, item)
  BY RecordsNoInput, Zenon
<1> PICK item \in Items : item.kind # "input" /\ log' = Append(log, item)
  BY <1>1
<1>2. ~IsExternal(item)
  BY DEF IsExternal, InputItem
<1>3. Externals(log') = Externals(log)
  BY <1>2, ExternalsAppend DEF TypeOK
<1>4. UNCHANGED <<todo, queued>>
  BY Zenon DEF AnswerArrives, SummaryArrives, AnswerOverflows, ScheduleToolCall,
         ReconcileToolCall, Verify, BeginCompaction, BeginTurn, mail
<1>5. r'.deferred = r.deferred
  BY EventsKeep, WorkKeeps, OthersKeep, Zenon DEF Keeps
<1> HIDE <1>1
<1> QED BY <1>3, <1>4, <1>5, Zenon DEF KeepStep

\* What is about to be recorded are controls; that a verification failed only
\* an update says.
Remarks == Controls \ {"verification"}

LEMMA SaysRemarks ==
  ASSUME TypeOK,
         \/ DeadlinePasses \/ ReportDue \/ SaveCheckpoint \/ CountTurn \/ AnswerCut
         \/ AnswerRefused \/ TellFirst
  PROVE  todo' \in Seq(Remarks)
<1>1. /\ <<>> \in Seq(Remarks) /\ <<"budget">> \in Seq(Remarks)
      /\ <<"report">> \in Seq(Remarks) /\ <<"nudge">> \in Seq(Remarks)
      /\ <<"note">> \in Seq(Remarks) /\ <<"resume">> \in Seq(Remarks)
      /\ <<"reminder">> \in Seq(Remarks)
  BY DEF Remarks, Controls, Heartbeats
<1>2. BudgetSpent \in Seq(Remarks) /\ CompactionNote \in Seq(Remarks)
  BY <1>1 DEF BudgetSpent, CompactionNote
<1>3. CASE DeadlinePasses \/ ReportDue
  BY <1>1, <1>2, <1>3, Zenon DEF DeadlinePasses, ReportDue
<1>4. CASE SaveCheckpoint
  <2>1. \E s \in {BudgetSpent, <<>>} : todo' = CompactionNote \o s
    BY <1>4, Zenon DEF SaveCheckpoint
  <2> QED BY <1>1, <1>2, <2>1, ConcatProperties
<1>5. CASE CountTurn
  <2>1. todo' \in {BudgetSpent, <<>>}
    BY <1>5, Zenon DEF CountTurn
  <2> QED BY <1>1, <1>2, <2>1
<1>6. CASE AnswerCut \/ AnswerRefused
  <2>1. todo' \in {<<"nudge">>, <<>>}
    BY <1>6, Zenon DEF AnswerCut, AnswerRefused
  <2> QED BY <1>1, <2>1
<1>7. CASE TellFirst
  <2>1. \E stop \in {<<"resume">>, <<>>}, notes \in {<<"note">>, <<>>},
           reminder \in {<<>>, <<"reminder">>} : todo' = stop \o notes \o reminder
    BY <1>7, Zenon DEF TellFirst
  <2> PICK stop \in Seq(Remarks), notes \in Seq(Remarks), reminder \in Seq(Remarks) :
        todo' = stop \o notes \o reminder
    BY <1>1, <2>1
  <2>2. stop \o notes \in Seq(Remarks)
    BY ConcatProperties
  <2> QED BY <2>2, ConcatProperties
<1> QED BY <1>3, <1>4, <1>5, <1>6, <1>7

LEMMA SaySteps ==
  ASSUME TypeOK,
         \/ DeadlinePasses \/ ReportDue \/ SaveCheckpoint \/ CountTurn \/ AnswerCut
         \/ AnswerRefused \/ TellFirst \/ TakeUpdate
  PROVE  KeepStep /\ todo = <<>>
<1>1. UNCHANGED <<log, queued>> /\ todo = <<>>
  BY Zenon DEF DeadlinePasses, ReportDue, SaveCheckpoint, CountTurn, AnswerCut, AnswerRefused,
         TellFirst, TakeUpdate, Recovers, At, durable, mail
<1>2. r'.deferred = r.deferred
  BY EventsKeep, WorkKeeps, OthersKeep, Zenon DEF Keeps, Timers
<1>3. todo' \in Seq(Controls)
  <2>1. CASE TakeUpdate
    <3>1. todo' \in {<<"verification">>, <<>>}
      BY <2>1, Zenon DEF TakeUpdate
    <3>2. <<"verification">> \in Seq(Controls) /\ <<>> \in Seq(Controls)
      BY DEF Controls, Heartbeats
    <3> QED BY <3>1, <3>2
  <2>2. CASE ~TakeUpdate
    <3>1. todo' \in Seq(Remarks)
      BY <2>2, SaysRemarks
    <3> QED BY <3>1 DEF Remarks
  <2> QED BY <2>1, <2>2
<1>4. Waiting(todo') = Waiting(todo)
  BY <1>1, <1>3, WaitingControls, WaitingOfNothing
<1> QED BY <1>1, <1>2, <1>4, Zenon DEF KeepStep

LEMMA KeptLine ==
  ASSUME TypeOK, TypeOK', KeepStep
  PROVE  Line' = Line
BY LineIs, NextLineIs, Zenon DEF KeepStep

-----------------------------------------------------------------------------
(* Steps that move an input along *)

LEMMA InputSteps ==
  ASSUME TypeOK, Fresh, RecordInput
  PROVE  /\ pc \in Loop /\ pc' = pc /\ todo # <<>> /\ Head(todo) \in Inputs /\ todo' = Tail(todo)
         /\ InputItem(Head(todo)) \in Items /\ InputItem(Head(todo)).kind = "input"
         /\ log' = Append(log, InputItem(Head(todo)))
         /\ h' = AddItem(h, InputItem(Head(todo)))
<1>1. Head(todo) \in Inputs
  BY HeadTailProperties DEF RecordInput, TypeOK
<1>2. pc \in Loop /\ pc' = pc
  BY DEF RecordInput, TypeOK, Fresh, Loop
<1> QED BY <1>1, <1>2, ItemTypes DEF RecordInput, Record, InputItem

\* The input that is recorded was the first to be.
LEMMA RecordInputLine ==
  ASSUME TypeOK, TypeOK', RecordInput
  PROVE  Line' = Line
<1> DEFINE id == Head(todo)
           first == Waiting(<<id>>)
           rest == r.deferred \o Waiting(queued)
<1>1. todo # <<>> /\ todo' = Tail(todo) /\ log' = Append(log, InputItem(id)) /\ queued' = queued
  BY Zenon DEF RecordInput, Record, mail
<1>2. r'.deferred = r.deferred
  BY EventsKeep DEF Keeps
<1>3. /\ id \in Inputs /\ <<id>> \in Seq(Inputs) /\ Tail(todo) \in Seq(Inputs)
      /\ Waiting(todo) = first \o Waiting(Tail(todo))
      /\ first = IF id \in External THEN <<id>> ELSE <<>>
  BY <1>1, LineIs, WaitingHead
<1>4. /\ InputItem(id) \in Items /\ InputItem(id).id = id
      /\ IsExternal(InputItem(id)) <=> id \in External
  BY <1>3, ItemTypes DEF InputItem, IsExternal
<1>5. /\ Externals(log) \in Seq(External) /\ Waiting(Tail(todo)) \in Seq(External)
      /\ rest \in Seq(External) /\ first \in Seq(External)
  <2>1. Waiting(Tail(todo)) \in Seq(External) /\ first \in Seq(External)
    BY <1>3, AsItemsType, ExternalsAreThere DEF Waiting
  <2> QED BY <2>1, LineIs, ConcatProperties
<1>6. Externals(log') = Externals(log) \o first
  <2>1. Externals(Append(log, InputItem(id)))
          = IF id \in External THEN Append(Externals(log), id) ELSE Externals(log)
    BY <1>4, LineIs, ExternalsAppend
  <2>2. CASE id \in External
    <3>1. Append(Externals(log), id) = Externals(log) \o <<id>>
      BY <1>5, <2>2, AppendIsConcat
    <3> QED BY <1>1, <1>3, <2>1, <2>2, <3>1
  <2>3. CASE id \notin External
    <3>1. Externals(log) \o <<>> = Externals(log)
      BY <1>5, ConcatEmptySeq
    <3> QED BY <1>1, <1>3, <2>1, <2>3, <3>1
  <2> QED BY <2>2, <2>3
<1>7. Line = Externals(log) \o (Waiting(todo) \o rest)
  BY LineIs
<1>8. Line' = Externals(log') \o (Waiting(Tail(todo)) \o rest)
  BY <1>1, <1>2, NextLineIs
<1> HIDE DEF first, rest, id
<1>9. (first \o Waiting(Tail(todo))) \o rest = first \o (Waiting(Tail(todo)) \o rest)
  BY <1>5, Associates, Zenon
<1>10. (Externals(log) \o first) \o (Waiting(Tail(todo)) \o rest)
         = Externals(log) \o (first \o (Waiting(Tail(todo)) \o rest))
  <2>1. Waiting(Tail(todo)) \o rest \in Seq(External)
    BY <1>5, ConcatProperties
  <2> QED BY <1>5, <2>1, Associates, Zenon
<1> QED BY <1>3, <1>6, <1>7, <1>8, <1>9, <1>10, Zenon

\* An input out of the inbox waits aside, goes out after those that do, or is
\* a control.
LEMMA TakeInputLine ==
  ASSUME TypeOK, TypeOK', TakeInput
  PROVE  Line' = Line
<1> DEFINE id == Head(queued)
           first == Waiting(<<id>>)
           tail == Waiting(Tail(queued))
<1>1. todo = <<>> /\ queued # <<>> /\ queued' = Tail(queued) /\ log' = log
  BY Zenon DEF TakeInput, At, durable
<1>2. /\ id \in Inputs /\ <<id>> \in Seq(Inputs) /\ Tail(queued) \in Seq(Inputs)
      /\ Waiting(queued) = first \o tail
      /\ first = IF id \in External THEN <<id>> ELSE <<>>
  BY <1>1, LineIs, WaitingHead
<1>3. /\ Externals(log) \in Seq(External) /\ r.deferred \in Seq(External)
      /\ tail \in Seq(External) /\ first \in Seq(External)
  <2>1. tail \in Seq(External) /\ first \in Seq(External)
    BY <1>2, AsItemsType, ExternalsAreThere DEF Waiting
  <2> QED BY <2>1, LineIs
<1>4. Line = Externals(log) \o (r.deferred \o (first \o tail))
  <2>1. <<>> \o (r.deferred \o (first \o tail)) = r.deferred \o (first \o tail)
    BY <1>3, ConcatProperties, ConcatEmptySeq
  <2> QED BY <1>1, <1>2, <2>1, LineIs, WaitingOfNothing
<1>5. Line' = Externals(log) \o (Waiting(todo') \o (r'.deferred \o tail))
  BY <1>1, NextLineIs
<1>6. r.deferred \o (first \o tail) = (r.deferred \o first) \o tail
  BY <1>3, Associates, Zenon
<1>7. r.deferred \o first \in Seq(External) /\ (r.deferred \o first) \o tail \in Seq(External)
  BY <1>3, ConcatProperties
<1>8. id \in External => Append(r.deferred, id) = r.deferred \o first
  BY <1>2, <1>3, AppendIsConcat
<1>9. r \in RunState
  BY DEF TypeOK
<1> HIDE DEF first, tail
<1>10. CASE Defers(id) /\ r' = [r EXCEPT !.deferred = Append(@, id)] /\ UNCHANGED todo
  <2>1. r'.deferred = Append(r.deferred, id)
    BY <1>9, <1>10, ZenonT(60) DEF RunState
  <2>2. id \in External
    BY <1>10, CoordinatorAssumption DEF Defers
  <2>3. <<>> \o ((r.deferred \o first) \o tail) = (r.deferred \o first) \o tail
    BY <1>7, ConcatEmptySeq
  <2> QED BY <1>1, <1>4, <1>5, <1>6, <1>8, <1>10, <2>1, <2>2, <2>3, WaitingOfNothing, Zenon
<1>11. CASE /\ id \in External /\ todo' = GoesOut(id)
            /\ r' = [r EXCEPT !.deferred = <<>>, !.timer = FALSE, !.waited = FALSE]
  <2>1. r'.deferred = <<>>
    BY <1>9, <1>11, ZenonT(60) DEF RunState
  <2>2. todo' = r.deferred \o first
    BY <1>8, <1>11 DEF GoesOut
  <2>3. Waiting(todo') = r.deferred \o first
    BY <1>7, <2>2, WaitingExternals
  <2>4. <<>> \o tail = tail
    BY <1>3, ConcatEmptySeq
  <2> QED BY <1>4, <1>5, <1>6, <2>1, <2>3, <2>4, Zenon
<1>12. CASE id \notin External /\ todo' = <<id>> /\ UNCHANGED r
  <2>1. first = <<>> /\ Waiting(todo') = <<>>
    BY <1>2, <1>12 DEF first
  <2>2. <<>> \o tail = tail /\ <<>> \o (r.deferred \o tail) = r.deferred \o tail
    BY <1>3, ConcatProperties, ConcatEmptySeq
  <2> QED BY <1>4, <1>5, <1>12, <2>1, <2>2, Zenon
<1> QED BY <1>10, <1>11, <1>12, Zenon DEF TakeInput

\* What waits for tools goes out, or still waits.
LEMMA ProcessDueLine ==
  ASSUME TypeOK, TypeOK', ProcessDue
  PROVE  Line' = Line
<1>1. todo = <<>> /\ UNCHANGED <<log, queued>>
  BY Zenon DEF ProcessDue, At, durable, mail
<1>2. \/ todo' = r.deferred /\ r'.deferred = <<>>
      \/ todo' = todo /\ r'.deferred = r.deferred
  <2> DEFINE timer == r.timer \/ ((r.deferred # <<>> /\ r.stop # "hard" /\ ~Compacting)
                                  /\ ~r.live /\ LimitsToolWait)
             due == TurnIsAsked
  <2>1. \/ /\ todo' = r.deferred
           /\ r' = [r EXCEPT !.due = TRUE, !.deferred = <<>>, !.timer = FALSE, !.waited = FALSE]
        \/ todo' = todo /\ r' = [r EXCEPT !.due = due, !.timer = timer]
    BY Zenon DEF ProcessDue
  <2> HIDE DEF timer, due
  <2>2. r \in RunState
    BY DEF TypeOK
  <2> QED BY <2>1, <2>2, ZenonT(60) DEF RunState
<1>3. Line = Externals(log) \o (<<>> \o (r.deferred \o Waiting(queued)))
  BY <1>1, LineIs, WaitingOfNothing
<1>4. CASE todo' = r.deferred /\ r'.deferred = <<>>
  <2>1. Line' = Externals(log) \o (r.deferred \o (<<>> \o Waiting(queued)))
    BY <1>1, <1>4, NextLineIs, LineIs, WaitingExternals
  <2>2. /\ <<>> \o Waiting(queued) = Waiting(queued)
        /\ <<>> \o (r.deferred \o Waiting(queued)) = r.deferred \o Waiting(queued)
    BY LineIs, ConcatProperties, ConcatEmptySeq
  <2> QED BY <1>3, <2>1, <2>2, Zenon
<1>5. CASE todo' = todo /\ r'.deferred = r.deferred
  BY <1>1, <1>5, LineIs, NextLineIs, Zenon
<1> QED BY <1>2, <1>4, <1>5

\* What is submitted comes last, if it counts.
LEMMA QueuedLine ==
  ASSUME TypeOK, TypeOK', NEW id \in Inputs, queued' = Append(queued, id),
         UNCHANGED <<log, todo>>, r'.deferred = r.deferred
  PROVE  Line' = IF id \in External THEN Append(Line, id) ELSE Line
<1> DEFINE all == Waiting(queued)
           d == r.deferred
           t == Waiting(todo)
           e == Externals(log)
<1>1. Line = e \o (t \o (d \o all)) /\ Line' = e \o (t \o (d \o Waiting(queued')))
  BY LineIs, NextLineIs
<1>2. Waiting(queued') = IF id \in External THEN Append(all, id) ELSE all
  BY LineIs, WaitingAppend
<1>3. e \in Seq(External) /\ t \in Seq(External) /\ d \in Seq(External) /\ all \in Seq(External)
  BY LineIs
<1> HIDE DEF all, d, t, e
<1>4. CASE id \notin External
  BY <1>1, <1>2, <1>4
<1>5. CASE id \in External
  <2>1. d \o all \in Seq(External) /\ t \o (d \o all) \in Seq(External)
    BY <1>3, ConcatProperties
  <2>2. d \o Append(all, id) = Append(d \o all, id)
    BY <1>3, <1>5, ConcatAppend
  <2>3. t \o Append(d \o all, id) = Append(t \o (d \o all), id)
    BY <1>3, <1>5, <2>1, ConcatAppend
  <2>4. e \o Append(t \o (d \o all), id) = Append(e \o (t \o (d \o all)), id)
    BY <1>3, <1>5, <2>1, ConcatAppend
  <2> QED BY <1>1, <1>2, <1>5, <2>2, <2>3, <2>4, Zenon
<1> QED BY <1>4, <1>5

-----------------------------------------------------------------------------
(* Every step *)

LEMMA EmptyLine ==
  ASSUME TypeOK'
  PROVE  todo' = <<>> /\ r' = NewRun /\ queued' = <<>> => Line' = Externals(log')
<1> SUFFICES ASSUME todo' = <<>>, r' = NewRun, queued' = <<>> PROVE Line' = Externals(log')
  OBVIOUS
<1>1. r'.deferred = <<>>
  BY Zenon DEF NewRun
<1>2. Line' = Externals(log') \o (<<>> \o (<<>> \o <<>>))
  BY <1>1, NextLineIs, WaitingOfNothing
<1>3. <<>> \o (<<>> \o <<>>) = <<>>
  BY EmptySeq, ConcatEmptySeq
<1>4. Externals(log') \o <<>> = Externals(log')
  BY NextLineIs, ExternalsAreThere, ConcatEmptySeq
<1> QED BY <1>2, <1>3, <1>4, Zenon

LEMMA SubmitLine ==
  ASSUME TypeOK, TypeOK', Submit
  PROVE  /\ Up /\ Up'
         /\ \/ Line' = Line /\ seen' = seen
            \/ \E id \in External \ seen : Line' = Append(Line, id) /\ seen' = seen \cup {id}
<1> PICK id \in (External \ seen) \cup offered :
      /\ seen' = IF id \in External THEN seen \cup {id} ELSE seen
      /\ queued' = Append(queued, id)
  BY Zenon DEF Submit
<1>1. Up /\ Up' /\ UNCHANGED <<log, todo, r>>
  BY DEF Submit, Up, durable
<1>2. id \in Inputs /\ (id \in External => id \notin seen)
  <2>1. offered \subseteq Controls
    BY DEF TypeOK
  <2> QED BY <2>1, ItemsAssumption DEF Inputs, Controls, Heartbeats
<1>3. Line' = IF id \in External THEN Append(Line, id) ELSE Line
  BY <1>1, <1>2, QueuedLine
<1> QED BY <1>1, <1>2, <1>3

LEMMA EndingLine ==
  ASSUME TypeOK, TypeOK',
         Crash \/ RequestFails \/ AnswerFailed \/ AwaitCancellation \/ StopWhenIdle
  PROVE  \/ Line' = Line /\ seen' = seen /\ Up /\ Up'
         \/ Up /\ ~Up' /\ log' = log /\ Line' = Externals(log')
<1>0. Up
  BY DEF Crash, RequestFails, AnswerFailed, AwaitCancellation, StopWhenIdle, Recovers, At, Up, Down
<1>1. CASE \E how \in Down : Exit(how)
  <2>1. ~Up' /\ log' = log /\ todo' = <<>> /\ r' = NewRun /\ queued' = <<>>
    BY <1>1 DEF Exit, Up, durable
  <2> QED BY <1>0, <2>1, EmptyLine
<1>2. CASE ~ \E how \in Down : Exit(how)
  <2>1. \A how \in {"crashed", "failed", "stopped", "idle"} : ~Exit(how)
    BY <1>2 DEF Down
  <2>2. /\ UNCHANGED <<log, todo, queued, seen>> /\ pc' \in {"dispatch", "select"}
        /\ UNCHANGED r \/ r' = [r EXCEPT !.step = StepCalls, !.failures = @ + 1, !.callModel = TRUE]
    BY <2>1, Zenon DEF Crash, RequestFails, AnswerFailed, AwaitCancellation, StopWhenIdle, durable,
                mail
  <2>3. r'.deferred = r.deferred
    <3>1. r \in RunState
      BY DEF TypeOK
    <3> QED BY <2>2, <3>1, ZenonT(60) DEF RunState
  <2>4. KeepStep
    BY <2>2, <2>3, Zenon DEF KeepStep
  <2>5. Up'
    BY <2>2 DEF Up, Down
  <2> QED BY <1>0, <2>2, <2>4, <2>5, KeptLine
<1> QED BY <1>1, <1>2

\* The steps of the loop, but for its end, leave the inbox's memory alone.
LEMMA LoopSteps ==
  ASSUME RInv,
         \/ ScheduledAll \/ ReconciledAll \/ InputsSlurped \/ UpdatesSlurped \/ TakeInput
         \/ Timers \/ DropResult \/ QuotaRefuses \/ SummaryOverflows
         \/ CountTurn \/ AnswerStands \/ AnswerCut \/ AnswerRefused \/ AnswerWhole
         \/ ProcessDue \/ Decide \/ DropCompaction \/ TellFirst
         \/ RecordInput \/ AnswerArrives \/ SummaryArrives \/ AnswerOverflows
         \/ BeginCompaction \/ BeginTurn \/ ScheduleToolCall \/ ReconcileToolCall \/ Verify
         \/ StartLoop \/ DispatchCalls \/ CancelOperations \/ TakeUpdate \/ SaveCheckpoint
         \/ ReplayItem \/ Restore
  PROVE  Up /\ Up' /\ seen' = seen
<1>0. TypeOK /\ Fresh
  BY DEF RInv
<1>1. seen' = seen
  BY Zenon DEF ScheduledAll, ReconciledAll, InputsSlurped, UpdatesSlurped, TakeInput, Timers,
         DeadlinePasses, ReportDue, QuotaLifts, GraceEnds, ToolWaitEnds, PostHeartbeat,
         DropResult, QuotaRefuses, SummaryOverflows, CountTurn, AnswerStands, AnswerCut,
         AnswerRefused, AnswerWhole, Recovers, ProcessDue, Decide, DropCompaction, TellFirst,
         RecordInput, AnswerArrives, SummaryArrives, AnswerOverflows, BeginCompaction, BeginTurn,
         ScheduleToolCall, ReconcileToolCall, Verify, StartLoop, DispatchCalls,
         CancelOperations, TakeUpdate, SaveCheckpoint, ReplayItem, Restore, mail
<1>2. ASSUME pc \in Loop, pc' \in Loop PROVE Up /\ Up'
  BY <1>2 DEF Loop, Up
<1>3. CASE \/ ScheduledAll \/ ReconciledAll \/ InputsSlurped \/ UpdatesSlurped \/ TakeInput
           \/ Timers \/ DropResult \/ QuotaRefuses \/ SummaryOverflows
           \/ CountTurn \/ AnswerStands \/ AnswerCut \/ AnswerRefused \/ AnswerWhole
           \/ ProcessDue \/ Decide \/ DropCompaction \/ TellFirst
  BY <1>0, <1>1, <1>2, <1>3, QuietSteps, Zenon DEF QuietStep
<1>4. CASE \/ RecordInput \/ AnswerArrives \/ SummaryArrives \/ AnswerOverflows
           \/ BeginCompaction \/ BeginTurn
  <2>1. \E item \in Items : MessageStep(item)
    BY <1>0, <1>4, MessageSteps, Zenon
  <2> QED BY <1>1, <1>2, <2>1, Zenon DEF MessageStep
<1>5. CASE ScheduleToolCall \/ ReconcileToolCall \/ Verify
  BY <1>1, <1>5 DEF ScheduleToolCall, ReconcileToolCall, Verify, At, Up, Down
<1>6. CASE StartLoop \/ DispatchCalls \/ CancelOperations
  BY <1>1, <1>6 DEF StartLoop, DispatchCalls, CancelOperations, At, Up, Down
<1>7. CASE TakeUpdate \/ SaveCheckpoint \/ ReplayItem \/ Restore
  BY <1>1, <1>7 DEF TakeUpdate, SaveCheckpoint, ReplayItem, Restore, At, Up, Down
<1> QED BY <1>3, <1>4, <1>5, <1>6, <1>7, Zenon

LEMMA PostHeartbeatLine ==
  ASSUME TypeOK, TypeOK', PostHeartbeat
  PROVE  Line' = Line
<1>1. /\ queued' = Append(queued, "heartbeat") /\ UNCHANGED <<log, todo>>
      /\ r'.deferred = r.deferred
  BY Zenon DEF PostHeartbeat, durable
<1>2. "heartbeat" \in Inputs /\ "heartbeat" \notin External
  BY ItemsAssumption DEF Inputs, Controls, Heartbeats
<1> QED BY <1>1, <1>2, QueuedLine

\* A step leaves the line as it is, adds an input that was not seen, or ends
\* the run, which leaves what the log holds.
LEMMA LineMoves ==
  ASSUME RInv, TypeOK', [Next]_vars
  PROVE  \/ Line' = Line /\ seen' = seen /\ Up /\ Up'
         \/ UNCHANGED <<seen, pc, log>> /\ Line' = Line
         \/ Start /\ Line' = Line /\ log' = log
         \/ /\ Up /\ Up'
            /\ \E id \in External \ seen : Line' = Append(Line, id) /\ seen' = seen \cup {id}
         \/ Up /\ ~Up' /\ log' = log /\ Line' = Externals(log')
<1>0. TypeOK
  BY DEF RInv
<1>1. CASE Start
  BY <1>0, <1>1, StillSteps, KeptLine DEF Start, durable
<1>2. CASE Submit
  BY <1>0, <1>2, SubmitLine
<1>3. CASE Crash \/ RequestFails \/ AnswerFailed \/ AwaitCancellation \/ StopWhenIdle
  BY <1>0, <1>3, EndingLine
<1>4. CASE OperationAwaits \/ (\E o \in Ops : OperationEnds(o)) \/ UNCHANGED vars
  <2>1. UNCHANGED <<seen, pc, log>>
    BY <1>4 DEF OperationAwaits, OperationEnds, vars, durable, mail
  <2>2. KeepStep
    BY <1>0, <1>4, StillSteps, Zenon
  <2> QED BY <1>0, <2>1, <2>2, KeptLine
<1>5. CASE RecordInput \/ TakeInput \/ ProcessDue \/ PostHeartbeat
  <2>1. Up /\ Up' /\ seen' = seen
    BY <1>5, LoopSteps, Zenon DEF Timers
  <2>2. Line' = Line
    BY <1>0, <1>5, RecordInputLine, TakeInputLine, ProcessDueLine, PostHeartbeatLine, Zenon
  <2> QED BY <2>1, <2>2
<1>6. CASE \/ ScheduledAll \/ ReconciledAll \/ InputsSlurped \/ UpdatesSlurped \/ DropResult
           \/ QuotaLifts \/ GraceEnds \/ ToolWaitEnds \/ QuotaRefuses \/ SummaryOverflows
           \/ StartLoop \/ DispatchCalls \/ AnswerStands \/ AnswerWhole \/ CancelOperations
           \/ Decide \/ DropCompaction \/ ReplayItem \/ Restore
  <2>1. Up /\ Up' /\ seen' = seen
    BY <1>6, LoopSteps, Zenon DEF Timers
  <2>2. KeepStep
    BY <1>0, <1>6, StillSteps, Zenon
  <2> QED BY <1>0, <2>1, <2>2, KeptLine
<1>7. CASE \/ AnswerArrives \/ SummaryArrives \/ AnswerOverflows \/ ScheduleToolCall
           \/ ReconcileToolCall \/ Verify \/ BeginCompaction \/ BeginTurn
  <2>1. Up /\ Up' /\ seen' = seen
    BY <1>7, LoopSteps, Zenon
  <2>2. KeepStep
    BY <1>0, <1>7, RecordSteps, Zenon
  <2> QED BY <1>0, <2>1, <2>2, KeptLine
<1>8. CASE \/ DeadlinePasses \/ ReportDue \/ SaveCheckpoint \/ CountTurn \/ AnswerCut
           \/ AnswerRefused \/ TellFirst \/ TakeUpdate
  <2>1. Up /\ Up' /\ seen' = seen
    BY <1>8, LoopSteps, Zenon DEF Timers
  <2>2. KeepStep
    BY <1>0, <1>8, SaySteps, Zenon
  <2> QED BY <1>0, <2>1, <2>2, KeptLine
<1> QED
  BY <1>1, <1>2, <1>3, <1>4, <1>5, <1>6, <1>7, <1>8, ZenonT(60)
     DEF Next, Working, Timers, ModelResults

-----------------------------------------------------------------------------
(* Items that hold each external input once *)

\* What comes first of items that hold each input once holds each once, too.
LEMMA OnceOfFirst ==
  ASSUME NEW items \in Seq(Items), NEW rest \in Seq(External),
         NEW line, line = Externals(items) \o rest,
         \A i, j \in DOMAIN line : line[i] = line[j] => i = j
  PROVE  EachOnce(items)
<1> DEFINE e == Externals(items)
<1>1. e \in Seq(External)
  BY ExternalsAreThere
<1> HIDE DEF e
<1>2. line = e \o rest
  BY DEF e
<1>3. /\ DOMAIN e = 1 .. Len(e) /\ Len(e) \in Nat /\ Len(rest) \in Nat
      /\ DOMAIN line = 1 .. Len(e) + Len(rest)
      /\ \A k \in 1 .. Len(e) : line[k] = e[k]
  BY <1>1, <1>2, ConcatProperties, LenProperties
<1>4. \A i, j \in DOMAIN e : e[i] = e[j] => i = j
  BY <1>3
<1> QED BY <1>4 DEF EachOnce, e

LEMMA OnceOfPrefix ==
  ASSUME NEW items \in Seq(Items), EachOnce(items), NEW n \in 0 .. Len(items)
  PROVE  EachOnce(SubSeq(items, 1, n))
<1> DEFINE kept == SubSeq(items, 1, n)
           rest == SubSeq(items, n + 1, Len(items))
<1>1. Len(items) \in Nat /\ \A i \in 1 .. Len(items) : items[i] \in Items
  BY LenProperties, ElementOfSeq
<1>2. /\ kept \in Seq(Items) /\ Len(kept) = n /\ DOMAIN kept = 1 .. n
      /\ \A i \in 1 .. n : kept[i] = items[i]
  BY <1>1, SubSeqProperties
<1>3. /\ rest \in Seq(Items) /\ Len(rest) = Len(items) - n
      /\ \A i \in 1 .. Len(items) - n : rest[i] = items[n + i]
  BY <1>1, SubSeqProperties
<1>4. items = kept \o rest
  <2> HIDE DEF kept, rest
  <2>1. /\ kept \o rest \in Seq(Items) /\ Len(kept \o rest) = Len(items)
        /\ \A i \in 1 .. Len(items) :
             (kept \o rest)[i] = IF i <= n THEN kept[i] ELSE rest[i - n]
    BY <1>1, <1>2, <1>3, ConcatProperties
  <2>2. \A i \in 1 .. Len(items) : (kept \o rest)[i] = items[i]
    BY <1>1, <1>2, <1>3, <2>1
  <2> QED BY <2>1, <2>2, SeqEqual
<1> HIDE DEF kept, rest
<1>5. Externals(items) = Externals(kept) \o Externals(rest) /\ Externals(rest) \in Seq(External)
  BY <1>2, <1>3, <1>4, ExternalsConcat, ExternalsAreThere
<1>6. \A i, j \in DOMAIN Externals(items) : Externals(items)[i] = Externals(items)[j] => i = j
  BY Zenon DEF EachOnce
<1>7. EachOnce(kept)
  BY <1>2, <1>5, <1>6, OnceOfFirst
<1> QED BY <1>7 DEF kept

\* An item that is no external input takes nothing from that.
LEMMA OnceOfAppend ==
  ASSUME NEW items \in Seq(Items), EachOnce(items), NEW item \in Items, ~IsExternal(item)
  PROVE  EachOnce(Append(items, item))
<1>1. Externals(Append(items, item)) = Externals(items)
  BY ExternalsAppend
<1> QED BY <1>1, Zenon DEF EachOnce

\* So the log alone does, when the line does.
LEMMA OnceOfLog ==
  ASSUME TypeOK, \A i, j \in DOMAIN Line : Line[i] = Line[j] => i = j
  PROVE  EachOnce(log)
<1> DEFINE rest == Waiting(todo) \o (r.deferred \o Waiting(queued))
           line == Line
<1>1. log \in Seq(Items) /\ rest \in Seq(External) /\ line = Externals(log) \o rest
  BY LineIs, ConcatProperties
<1>2. \A i, j \in DOMAIN line : line[i] = line[j] => i = j
  OBVIOUS
<1> HIDE DEF rest, line
<1> QED BY <1>1, <1>2, OnceOfFirst

-----------------------------------------------------------------------------
(* The invariant *)

SeenLine == Up => \A k \in DOMAIN Line : Line[k] \in seen
DownLine == ~Up => Line = Externals(log)

AInv == RInv /\ RecordedOnce /\ SeenLine /\ DownLine

LEMMA InitArrival == Init => AInv
<1> SUFFICES ASSUME Init PROVE AInv
  OBVIOUS
<1>1. RInv /\ TypeOK
  BY InitAgrees DEF RInv
<1>2. /\ log = Inherited /\ todo = <<>> /\ r = NewRun /\ queued = <<>> /\ ~Up
  BY DEF Init, Up, Down
<1>3. Line = Externals(log)
  <2>1. r.deferred = <<>>
    BY <1>2, Zenon DEF NewRun
  <2>2. <<>> \o (<<>> \o <<>>) = <<>> /\ Externals(log) \o <<>> = Externals(log)
    BY <1>1, LineIs, EmptySeq, ConcatEmptySeq
  <2> QED BY <1>1, <1>2, <2>1, <2>2, LineIs, WaitingOfNothing, Zenon
<1>4. EachOnce(log)
  BY <1>2, InheritedAssumption DEF LeftBySession
<1>5. RecordedOnce
  BY <1>3, <1>4, Zenon DEF RecordedOnce, EachOnce, Line
<1> QED BY <1>1, <1>2, <1>3, <1>5 DEF AInv, SeenLine, DownLine

LEMMA StepKeepsArrival == AInv /\ [Next]_vars => AInv'
<1> SUFFICES ASSUME AInv, [Next]_vars PROVE AInv'
  OBVIOUS
<1>0. RInv /\ RInv' /\ TypeOK /\ TypeOK'
  BY StepAgrees DEF AInv, RInv
<1>1. /\ \A i, j \in DOMAIN Line : Line[i] = Line[j] => i = j
      /\ SeenLine /\ DownLine
      /\ Line \in Seq(External) /\ DOMAIN Line = 1 .. Len(Line) /\ Len(Line) \in Nat
  BY <1>0, LineIs, LenProperties, Zenon DEF AInv, RecordedOnce, EachOnce, Line
<1>2. ASSUME \A i, j \in DOMAIN Line' : Line'[i] = Line'[j] => i = j
      PROVE  RecordedOnce'
  BY <1>2, Zenon DEF RecordedOnce, EachOnce, Line
<1>3. CASE Line' = Line /\ seen' = seen /\ Up /\ Up'
  BY <1>0, <1>1, <1>2, <1>3 DEF AInv, SeenLine, DownLine
<1>4. CASE UNCHANGED <<seen, pc, log>> /\ Line' = Line
  BY <1>0, <1>1, <1>2, <1>4 DEF AInv, SeenLine, DownLine, Up
<1>5. CASE Start /\ Line' = Line /\ log' = log
  <2>1. seen' = KnownInputs /\ ~Up /\ Up'
    BY <1>5, Zenon DEF Start, Up, Down
  <2>2. Line' = Externals(log)
    BY <1>1, <1>5, <2>1 DEF DownLine
  <2>3. \A k \in DOMAIN Line' : Line'[k] \in seen'
    <3> SUFFICES ASSUME NEW k \in DOMAIN Externals(log) PROVE Externals(log)[k] \in KnownInputs
      BY <2>1, <2>2
    <3>1. PICK i \in DOMAIN log : log[i] = InputItem(Externals(log)[k])
      BY <1>0, LineIs, ExternalsAreThere
    <3>2. Externals(log)[k] \in External
      BY <1>0, LineIs, ElementOfSeq, LenProperties
    <3> QED BY <3>1, <3>2 DEF KnownInputs
  <2> QED BY <1>0, <1>1, <1>2, <1>5, <2>1, <2>3 DEF AInv, SeenLine, DownLine
<1>6. CASE /\ Up /\ Up'
           /\ \E id \in External \ seen : Line' = Append(Line, id) /\ seen' = seen \cup {id}
  <2> PICK id \in External \ seen : Line' = Append(Line, id) /\ seen' = seen \cup {id}
    BY <1>6
  <2>1. /\ DOMAIN Line' = 1 .. Len(Line) + 1
        /\ \A k \in 1 .. Len(Line) : Line'[k] = Line[k]
        /\ Line'[Len(Line) + 1] = id
    BY <1>1, AppendProperties, LenProperties
  <2>2. \A k \in 1 .. Len(Line) : Line[k] \in seen
    BY <1>1, <1>6 DEF SeenLine
  <2> HIDE <1>6
  <2>3. \A i, j \in DOMAIN Line' : Line'[i] = Line'[j] => i = j
    BY <1>1, <2>1, <2>2
  <2>4. \A k \in DOMAIN Line' : Line'[k] \in seen'
    BY <1>1, <2>1, <2>2
  <2> QED BY <1>0, <1>2, <1>6, <2>3, <2>4 DEF AInv, SeenLine, DownLine
<1>7. CASE Up /\ ~Up' /\ log' = log /\ Line' = Externals(log')
  <2>1. Line' = Externals(log)
    BY <1>7
  <2>2. \A i, j \in DOMAIN Externals(log) : Externals(log)[i] = Externals(log)[j] => i = j
    BY <1>0, <1>1, OnceOfLog, Zenon DEF EachOnce
  <2> QED BY <1>0, <1>2, <1>7, <2>1, <2>2 DEF AInv, SeenLine, DownLine
<1> QED BY <1>0, <1>3, <1>4, <1>5, <1>6, <1>7, LineMoves, Zenon

LEMMA ArrivalInvariant == Spec => []AInv
<1>1. Init => AInv
  BY InitArrival
<1>2. AInv /\ [Next]_vars => AInv'
  BY StepKeepsArrival
<1> QED BY <1>1, <1>2, PTL DEF Spec

-----------------------------------------------------------------------------
(* The theorems *)

\* However often a sender repeats an external input, in one run or after a
\* crash, the log holds it once, and not also while it waits (the inbox's
\* dedup by the recorded IDs, loop.go's handleInboxInputs).
THEOREM InputsRecordedOnce == Spec => []RecordedOnce
<1>1. AInv => RecordedOnce
  BY DEF AInv
<1> QED BY <1>1, ArrivalInvariant, PTL

\* While a run lasts no external input overtakes another on its way to the log,
\* nor is lost (handleInboxInputs, deliverDeferred).
THEOREM InputsKeepTheirOrder == Spec => ArrivalOrder
<1>1. AInv /\ AInv' /\ [Next]_vars
        => [Up /\ Up' => \/ Line' = Line
                        \/ \E id \in External : Line' = Append(Line, id)]_vars
  <2> SUFFICES ASSUME AInv, AInv', [Next]_vars, Up, Up'
               PROVE  Line' = Line \/ \E id \in External : Line' = Append(Line, id)
    OBVIOUS
  <2>1. RInv /\ TypeOK'
    BY DEF AInv, RInv
  <2> QED BY <2>1, LineMoves
<1> QED BY <1>1, ArrivalInvariant, PTL DEF Spec, ArrivalOrder

-----------------------------------------------------------------------------
(* The verifications of a prompt: how replay counts them *)

\* A count of verifications after an item: a prompt begins it anew.
CountedBy(item, n) ==
  IF IsExternal(item) THEN 0 ELSE IF item = InputItem("verification") THEN n + 1 ELSE n

LEMMA ItemCounts ==
  ASSUME NEW d \in DerivedState, NEW item \in Items
  PROVE  LET e == AddItem(d, item) IN
           /\ e.verifications = CountedBy(item, d.verifications)
           /\ e.history.verifications = CountedBy(item, d.history.verifications)
<1>0. d.verifications \in Nat /\ d.history.verifications \in Nat
  BY Zenon DEF DerivedState
<1>1. CASE item.kind = "input"
  <2> DEFINE e == AddInput(d, item.id)
             Count(n) == CountVerifications(n, item.id)
  <2>1. /\ e.verifications = Count(d.verifications)
        /\ e.history.verifications = Count(d.history.verifications)
    BY ZenonT(60) DEF AddInput, DerivedState
  <2>2. AddItem(d, item) = e
    BY <1>1, Zenon DEF AddItem
  <2>3. item.id \in Inputs /\ item = InputItem(item.id)
    BY <1>1 DEF Items, InputItem, ForkItem
  <2>4. /\ IsExternal(item) <=> item.id \in External
        /\ item = InputItem("verification") <=> item.id = "verification"
    BY <2>3 DEF IsExternal, InputItem
  <2>5. "verification" \notin External
    BY ItemsAssumption
  <2>6. \A n : Count(n) = CountedBy(item, n)
    <3> TAKE n
    <3>1. CASE item.id \in External
      BY <2>4, <2>5, <3>1 DEF CountVerifications, CountedBy
    <3>2. CASE item.id = "verification"
      BY <2>4, <2>5, <3>2 DEF CountVerifications, CountedBy
    <3>3. CASE item.id \notin External /\ item.id # "verification"
      BY <2>4, <2>5, <3>3 DEF CountVerifications, CountedBy
    <3> QED BY <3>1, <3>2, <3>3
  <2> HIDE DEF e, Count
  <2> QED BY <2>1, <2>2, <2>6
<1>2. CASE item.kind # "input"
  <2>1. ~IsExternal(item) /\ item # InputItem("verification")
    BY <1>2 DEF IsExternal, InputItem
  <2> DEFINE Same(e) == /\ e.verifications = d.verifications
                        /\ e.history.verifications = d.history.verifications
  <2>2. \A n, compaction : Same(AddTurn(d, n, compaction))
    BY ZenonT(60) DEF AddTurn, DerivedState
  <2>3. \A n, compacted : Same(AddSummary(d, n, compacted))
    <3> TAKE n, compacted
    <3> DEFINE failed == IF compacted THEN 0 ELSE d.failed + 1
               since == IF compacted THEN 0 ELSE d.since
               reminded == d.reminded /\ ~compacted
               e == [d EXCEPT !.compacted = TRUE, !.failed = failed, !.since = since,
                              !.reminded = reminded]
    <3>1. AddSummary(d, n, compacted) \in {d, e}
      BY Zenon DEF AddSummary
    <3> HIDE DEF failed, since, reminded
    <3>2. e.verifications = d.verifications /\ e.history = d.history
      BY ZenonT(60) DEF DerivedState
    <3> HIDE DEF e
    <3> QED BY <3>1, <3>2
  <2>4. \A n, calls : Same(AddAnswer(d, n, calls))
    BY ZenonT(60) DEF AddAnswer, DerivedState
  <2>5. \A o, status : Same(AddStatus(d, o, status))
    BY ZenonT(60) DEF AddStatus, DerivedState
  <2>6. Same(AddFork(d))
    BY ZenonT(60) DEF AddFork, DerivedState
  <2>7. \/ AddItem(d, item) = AddTurn(d, item.turn, item.compaction)
        \/ AddItem(d, item) = AddSummary(d, item.turn, item.ending = "summary")
        \/ AddItem(d, item) = AddAnswer(d, item.turn, item.calls)
        \/ AddItem(d, item) = AddStatus(d, item.op, item.status)
        \/ AddItem(d, item) = AddFork(d)
    BY <1>2, ItemFields, Zenon DEF AddItem
  <2> HIDE DEF Same
  <2>8. Same(AddItem(d, item))
    BY <2>2, <2>3, <2>4, <2>5, <2>6, <2>7
  <2> QED BY <2>1, <2>8 DEF CountedBy, Same
<1> QED BY <1>1, <1>2

\* The failed checks that replay counts are those of the log.
LEMMA FailedChecksSteps ==
  ASSUME NEW items \in Seq(Items), NEW n \in 1 .. Len(items)
  PROVE  FailedChecks(items, n) =
           IF IsExternal(items[n]) THEN {}
           ELSE IF items[n] = InputItem("verification") THEN FailedChecks(items, n - 1) \cup {n}
           ELSE FailedChecks(items, n - 1)
<1>0. Len(items) \in Nat
  BY LenProperties
<1>1. CASE IsExternal(items[n])
  BY <1>0, <1>1 DEF FailedChecks, SincePrompt
<1>2. CASE ~IsExternal(items[n])
  <2>1. SincePrompt(items, n) = SincePrompt(items, n - 1) \cup {n}
    BY <1>0, <1>2 DEF SincePrompt
  <2> QED BY <1>2, <2>1 DEF FailedChecks
<1> QED BY <1>1, <1>2

LEMMA ChecksAreCounted ==
  ASSUME NEW items \in Seq(Items), NEW n \in 0 .. Len(items)
  PROVE  Cardinality(FailedChecks(items, n)) = Replay(items)[n].history.verifications
<1> DEFINE Set(k) == FailedChecks(items, k)
           Counted(k) ==
             /\ IsFiniteSet(Set(k)) /\ Set(k) \subseteq 1 .. k
             /\ Cardinality(Set(k)) = Replay(items)[k].history.verifications
           S == {k \in Nat : k <= Len(items) => Counted(k)}
<1>0. Len(items) \in Nat
  BY LenProperties
<1>1. 0 \in S
  <2>1. Set(0) = {}
    BY DEF FailedChecks, SincePrompt
  <2>2. Replay(items)[0].history.verifications = 0
    BY ReplaySteps DEF Blank
  <2> HIDE DEF Set
  <2> QED BY <2>1, <2>2, FS_EmptySet
<1>2. ASSUME NEW k \in Nat, k \in S PROVE k + 1 \in S
  <2> SUFFICES ASSUME k + 1 <= Len(items) PROVE Counted(k + 1)
    OBVIOUS
  <2> DEFINE m == k + 1
  <2>1. Counted(k) /\ m \in 1 .. Len(items) /\ m - 1 = k /\ k \in 0 .. Len(items)
    BY <1>0, <1>2
  <2>2. /\ items[m] \in Items /\ Replay(items)[k] \in DerivedState
        /\ Replay(items)[m] = AddItem(Replay(items)[k], items[m])
    BY <2>1, ElementOfSeq, ReplayType, ReplaySteps
  <2>3. Replay(items)[m].history.verifications
          = CountedBy(items[m], Replay(items)[k].history.verifications)
    BY <2>2, ItemCounts
  <2>4. Set(m) = IF IsExternal(items[m]) THEN {}
                 ELSE IF items[m] = InputItem("verification") THEN Set(k) \cup {m}
                 ELSE Set(k)
    BY <2>1, FailedChecksSteps
  <2>5. Set(m) \subseteq 1 .. m /\ m \notin Set(k)
    <3>1. Set(k) \subseteq 1 .. k /\ 1 .. k \subseteq 1 .. m /\ m \in 1 .. m /\ m \notin 1 .. k
      BY <2>1
    <3> HIDE DEF Set, m
    <3> QED BY <2>4, <3>1
  <2> HIDE DEF Set, m
  <2>6. /\ IsFiniteSet(Set(k) \cup {m})
        /\ Cardinality(Set(k) \cup {m}) = Cardinality(Set(k)) + 1
    BY <2>1, <2>5, FS_AddElement
  <2>7. Counted(m)
    <3>1. CASE IsExternal(items[m])
      BY <2>3, <2>4, <2>5, <3>1, FS_EmptySet DEF CountedBy
    <3>2. CASE ~IsExternal(items[m]) /\ items[m] = InputItem("verification")
      BY <2>1, <2>3, <2>4, <2>5, <2>6, <3>2 DEF CountedBy
    <3>3. CASE ~IsExternal(items[m]) /\ items[m] # InputItem("verification")
      BY <2>1, <2>3, <2>4, <2>5, <3>3 DEF CountedBy
    <3> QED BY <3>1, <3>2, <3>3
  <2> QED BY <2>7 DEF m
<1> HIDE DEF S
<1>3. n \in S
  BY <1>0, <1>1, <1>2, NatSetInduction
<1> QED BY <1>0, <1>3 DEF S

LEMMA BoundIsOfReplay ==
  ASSUME NEW items \in Seq(Items)
  PROVE  ChecksBounded(items) <=>
           \A n \in 0 .. Len(items) : Replay(items)[n].history.verifications <= MaxVerifications
BY ChecksAreCounted DEF ChecksBounded

\* A log stays within the bound with an item that replay counts within it.
LEMMA BoundOfAppend ==
  ASSUME NEW items \in Seq(Items), NEW item \in Items, ChecksBounded(items),
         CountedBy(item, Replay(items)[Len(items)].history.verifications) <= MaxVerifications
  PROVE  ChecksBounded(Append(items, item))
<1> DEFINE more == Append(items, item)
<1>1. /\ more \in Seq(Items) /\ Len(more) = Len(items) + 1 /\ Len(items) \in Nat
      /\ Len(items) \in 0 .. Len(items)
  BY AppendProperties, LenProperties
<1>2. /\ Replay(more)[Len(more)] = AddItem(Replay(items)[Len(items)], item)
      /\ \A n \in 0 .. Len(items) : Replay(more)[n] = Replay(items)[n]
  BY ReplayAppend
<1>3. Replay(items)[Len(items)] \in DerivedState
  BY <1>1, ReplayType
<1>4. Replay(more)[Len(more)].history.verifications <= MaxVerifications
  BY <1>2, <1>3, ItemCounts
<1>5. \A n \in 0 .. Len(items) : Replay(items)[n].history.verifications <= MaxVerifications
  BY BoundIsOfReplay
<1> HIDE DEF more
<1>6. \A n \in 0 .. Len(more) : Replay(more)[n].history.verifications <= MaxVerifications
  BY <1>1, <1>2, <1>4, <1>5
<1>7. ChecksBounded(more)
  BY <1>1, <1>6, BoundIsOfReplay
<1> QED BY <1>7 DEF more

LEMMA BoundOfPrefix ==
  ASSUME NEW items \in Seq(Items), NEW more \in Seq(Items), Len(items) <= Len(more),
         \A i \in 1 .. Len(items) : more[i] = items[i], ChecksBounded(more)
  PROVE  ChecksBounded(items)
<1>1. Len(items) \in Nat /\ Len(more) \in Nat
  BY LenProperties
<1>2. \A n \in 0 .. Len(items) : Replay(more)[n] = Replay(items)[n]
  BY ReplayOfPrefix
<1>3. \A n \in 0 .. Len(more) : Replay(more)[n].history.verifications <= MaxVerifications
  BY BoundIsOfReplay
<1>4. \A n \in 0 .. Len(items) : Replay(items)[n].history.verifications <= MaxVerifications
  BY <1>1, <1>2, <1>3
<1> QED BY <1>4, BoundIsOfReplay

-----------------------------------------------------------------------------
(* The verifications of a prompt: the invariant *)

RunningChecks == {k \in Checks : saved[k] \in Unfinished}

\* One verification runs at a time, and the loop knows which.
VerifyingRuns ==
  /\ \A j, k \in RunningChecks : j = k
  /\ pc \in Loop => \A k \in Checks : k \in RunningChecks <=> r.verifying = k
  /\ ~Verifies => RunningChecks = {}

\* The next one starts while the prompt may have another.
ReadyToVerify ==
  pc = "verify" =>
    Verifies /\ r.verifying = Nothing /\ todo = <<>> /\ h.verifications < MaxVerifications

\* That one failed is recorded at once, and when none runs.
ToldAlone ==
  \A i \in DOMAIN todo : todo[i] = "verification" =>
    pc \in Loop /\ todo = <<"verification">> /\ RunningChecks = {}

\* The bound has room for the one that runs, or failed and is not recorded.
LeavesRoom ==
  RunningChecks # {} \/ todo = <<"verification">> =>
    Derived.history.verifications < MaxVerifications

\* The live count is ahead of the one that replay gives.
CountsAhead == pc \in Loop => h.history.verifications <= h.verifications

VerificationsInv ==
  ChecksBounded(log) /\ VerifyingRuns /\ ReadyToVerify /\ ToldAlone /\ LeavesRoom /\ CountsAhead

\* Nobody submits what only the loop says.
NotSubmitted == "verification" \notin offered /\ \A i \in DOMAIN queued : queued[i] # "verification"

VInv == LInv /\ VerificationsInv /\ NotSubmitted

LEMMA LoopCounts ==
  ASSUME RInv, pc \in Loop
  PROVE  /\ Derived.history.verifications = h.history.verifications
         /\ Derived.history.verifications \in Nat /\ h.verifications \in Nat
<1>1. Agrees(h, Derived)
  BY DEF RInv, LiveIsAt, Loop, Up
<1>2. Derived \in DerivedState /\ h \in DerivedState
  BY LogReplay DEF RInv
<1>3. Derived.history.verifications = h.history.verifications
  BY <1>1, Zenon DEF Agrees
<1>4. Derived.history.verifications \in Nat /\ h.verifications \in Nat
  BY <1>2, Zenon DEF DerivedState
<1> QED BY <1>3, <1>4

\* The verifications do not change: no input is recorded, nor that one failed
\* about to be.
CalmStep ==
  /\ pc \in Loop /\ pc' \in Loop
  /\ UNCHANGED log \/ \E item \in Items : item.kind # "input" /\ log' = Append(log, item)
  /\ \A k \in Checks : saved'[k] = saved[k]
  /\ h'.verifications = h.verifications
  /\ h'.history.verifications = h.history.verifications
  /\ r'.verifying = r.verifying
  /\ UNCHANGED todo \/ \A i \in DOMAIN todo' : todo'[i] # "verification"
  /\ pc' = "verify" =>
       Verifies /\ r.verifying = Nothing /\ todo' = <<>> /\ h.verifications < MaxVerifications

LEMMA SameChecks ==
  ASSUME \A k \in Checks : saved'[k] = saved[k]
  PROVE  RunningChecks' = RunningChecks
BY DEF RunningChecks

\* What is recorded is no input.
LEMMA CountOfOthers ==
  ASSUME TypeOK, ChecksBounded(log),
         UNCHANGED log \/ \E item \in Items : item.kind # "input" /\ log' = Append(log, item)
  PROVE  /\ ChecksBounded(log)'
         /\ Derived'.history.verifications = Derived.history.verifications
<1>1. CASE UNCHANGED log
  BY <1>1 DEF Derived
<1>2. CASE \E item \in Items : item.kind # "input" /\ log' = Append(log, item)
  <2> PICK item \in Items : item.kind # "input" /\ log' = Append(log, item)
    BY <1>2
  <2>1. ~IsExternal(item) /\ item # InputItem("verification")
    BY DEF IsExternal, InputItem
  <2>2. \A n : CountedBy(item, n) = n
    BY <2>1 DEF CountedBy
  <2>3. /\ log \in Seq(Items) /\ Len(log) \in Nat /\ Derived \in DerivedState
        /\ Derived' = AddItem(Derived, item)
    BY LogReplay, DerivedAppend DEF TypeOK
  <2>4. Derived'.history.verifications = Derived.history.verifications
    BY <2>2, <2>3, ItemCounts
  <2>5. Derived.history.verifications <= MaxVerifications
    BY <2>3, BoundIsOfReplay DEF Derived
  <2>6. ChecksBounded(Append(log, item))
    BY <2>2, <2>3, <2>5, BoundOfAppend DEF Derived
  <2> QED BY <2>4, <2>6
<1> QED BY <1>1, <1>2

LEMMA CalmKeeps ==
  ASSUME RInv, VerificationsInv, TypeOK', CalmStep
  PROVE  VerificationsInv'
<1> USE DEF VerificationsInv, CalmStep
<1>0. TypeOK
  BY DEF RInv
<1>1. RunningChecks' = RunningChecks
  BY SameChecks
<1>2. ChecksBounded(log)' /\ Derived'.history.verifications = Derived.history.verifications
  BY <1>0, CountOfOthers
<1>3. VerifyingRuns'
  BY <1>1 DEF VerifyingRuns
<1>4. ReadyToVerify'
  BY DEF ReadyToVerify
<1>5. todo' = <<"verification">> => UNCHANGED todo
  OBVIOUS
<1>6. ToldAlone'
  BY <1>1 DEF ToldAlone
<1>7. LeavesRoom'
  BY <1>1, <1>2, <1>5 DEF LeavesRoom
<1>8. CountsAhead'
  BY DEF CountsAhead
<1> QED BY <1>2, <1>3, <1>4, <1>6, <1>7, <1>8

LEMMA RecordInputKeeps ==
  ASSUME RInv, VerificationsInv, TypeOK', RecordInput
  PROVE  VerificationsInv'
<1> DEFINE id == Head(todo)
           item == InputItem(id)
           counted(n) == CountedBy(item, n)
<1>0. TypeOK /\ Fresh /\ log \in Seq(Items) /\ h \in DerivedState
  BY DEF RInv, TypeOK
<1>1. /\ pc \in Loop /\ pc' = pc /\ todo # <<>> /\ id \in Inputs /\ todo' = Tail(todo)
      /\ item \in Items /\ log' = Append(log, item) /\ h' = AddItem(h, item)
  BY <1>0, InputSteps
<1>2. UNCHANGED saved /\ r'.verifying = r.verifying
  BY <1>0, EventsKeep DEF RecordInput, Keeps
<1>3. RunningChecks' = RunningChecks
  BY <1>2, SameChecks
<1>4. /\ 1 \in DOMAIN todo /\ id = todo[1] /\ Len(todo) \in Nat
      /\ \A i \in DOMAIN todo' : i + 1 \in DOMAIN todo /\ todo'[i] = todo[i + 1]
  BY <1>0, <1>1, HeadTailProperties, LenProperties, EmptySeq DEF TypeOK
<1>5. id = "verification" => todo = <<"verification">> /\ RunningChecks = {}
  BY <1>4 DEF VerificationsInv, ToldAlone
<1>6. \A i \in DOMAIN todo' : todo'[i] # "verification"
  <2> SUFFICES ASSUME NEW i \in DOMAIN todo', todo'[i] = "verification" PROVE FALSE
    OBVIOUS
  <2>1. todo = <<"verification">>
    BY <1>4 DEF VerificationsInv, ToldAlone
  <2> QED BY <1>1, <2>1
<1>7. /\ item = InputItem("verification") <=> id = "verification"
      /\ IsExternal(item) => id # "verification"
  BY ItemsAssumption DEF InputItem, IsExternal
<1> HIDE DEF id, item
<1>8. /\ Derived' = AddItem(Derived, item) /\ Derived \in DerivedState
      /\ Derived.history.verifications \in Nat
  BY <1>0, <1>1, LogReplay, DerivedAppend, LoopCounts
<1>9. /\ Derived'.history.verifications = counted(Derived.history.verifications)
      /\ h'.verifications = counted(h.verifications)
      /\ h'.history.verifications = counted(h.history.verifications)
  BY <1>0, <1>1, <1>8, ItemCounts
<1>10. Derived.history.verifications <= MaxVerifications
  <2>1. Len(log) \in 0 .. Len(log)
    BY <1>0, LenProperties
  <2> QED BY <1>0, <2>1, BoundIsOfReplay DEF VerificationsInv, Derived
<1>11. MaxVerifications \in Nat
  BY CoordinatorAssumption
<1>12. id = "verification" => Derived.history.verifications < MaxVerifications
  BY <1>5 DEF VerificationsInv, LeavesRoom
<1>13. /\ Derived'.history.verifications <= MaxVerifications
       /\ id # "verification" => Derived'.history.verifications <= Derived.history.verifications
  BY <1>7, <1>8, <1>9, <1>10, <1>11, <1>12 DEF CountedBy
<1>14. ChecksBounded(log)'
  <2>1. Derived = Replay(log)[Len(log)]
    BY DEF Derived
  <2>2. ChecksBounded(Append(log, item))
    BY <1>0, <1>1, <1>9, <1>13, <2>1, BoundOfAppend DEF VerificationsInv
  <2> QED BY <1>1, <2>2
<1>15. CountsAhead'
  <2>1. h.history.verifications <= h.verifications /\ h.history.verifications \in Nat
        /\ h.verifications \in Nat
    BY <1>1, LoopCounts DEF VerificationsInv, CountsAhead
  <2>2. counted(h.history.verifications) <= counted(h.verifications)
    BY <2>1 DEF CountedBy
  <2> QED BY <1>9, <2>2 DEF CountsAhead
<1>16. LeavesRoom'
  <2> SUFFICES ASSUME RunningChecks # {}
               PROVE  Derived'.history.verifications < MaxVerifications
    BY <1>3, <1>6 DEF LeavesRoom
  <2>1. Derived.history.verifications < MaxVerifications /\ id # "verification"
    BY <1>5 DEF VerificationsInv, LeavesRoom
  <2> QED BY <1>8, <1>9, <1>11, <1>13, <2>1 DEF CountedBy
<1>17. VerifyingRuns'
  BY <1>1, <1>2, <1>3 DEF VerificationsInv, VerifyingRuns
<1>18. ReadyToVerify'
  BY <1>1 DEF VerificationsInv, ReadyToVerify
<1>19. ToldAlone'
  BY <1>6 DEF ToldAlone
<1> QED BY <1>14, <1>15, <1>16, <1>17, <1>18, <1>19 DEF VerificationsInv

\* An update ends the verification that runs, and may have it told that it
\* failed.
LEMMA TakeUpdateCounts ==
  ASSUME LInv, VerificationsInv, TypeOK', TakeUpdate
  PROVE  VerificationsInv'
<1> DEFINE u == Head(updates)
           verified == Verifies /\ u.op = r.verifying /\ u.status \in Terminal
<1>0. TypeOK /\ RInv
  BY DEF LInv, RInv
<1>1. /\ pc \in Loop \ {"verify"} /\ pc' \in Loop \ {"verify"}
      /\ updates # <<>> /\ u \in [op : Ops, status : Statuses]
      /\ saved' = [saved EXCEPT ![u.op] = u.status] /\ UNCHANGED log /\ Agrees(h', h)
  BY <1>0, UpdateSteps DEF Loop, Labels, Down
<1>2. saved[u.op] \in Unfinished
  <2>1. 1 \in DOMAIN updates /\ u = updates[1]
    BY <1>0, <1>1, LenProperties, EmptySeq DEF TypeOK
  <2> QED BY <2>1 DEF LInv, UpdatesEndOnce
<1>3. /\ h'.verifications = IF verified THEN h.verifications + 1 ELSE h.verifications
      /\ r'.verifying = IF verified THEN Nothing ELSE r.verifying
      /\ todo' \in IF verified THEN {<<>>, <<"verification">>} ELSE {<<>>}
  <2> DEFINE n == IF verified THEN h.verifications + 1 ELSE h.verifications
             k == IF verified THEN Nothing ELSE r.verifying
             ops == [h.ops EXCEPT ![u.op] = u.status]
  <2>1. r' = [r EXCEPT !.verifying = k]
    BY Zenon DEF TakeUpdate
  <2>2. h' = [h EXCEPT !.ops[u.op] = u.status, !.verifications = n]
    BY Zenon DEF TakeUpdate
  <2>3. \/ verified /\ todo' \in {<<>>, <<"verification">>}
        \/ todo' = <<>>
    BY Zenon DEF TakeUpdate
  <2> HIDE DEF n, k, verified, u
  <2>4. r'.verifying = k
    BY <1>0, <2>1, ZenonT(60) DEF TypeOK, RunState
  <2>5. h'.verifications = n
    BY <1>0, <2>2, ZenonT(60) DEF TypeOK, DerivedState
  <2> QED BY <2>3, <2>4, <2>5 DEF n, k
<1> HIDE DEF u
<1>4. /\ saved \in [Ops -> Statuses \cup {"none"}] /\ Unfinished \cap Terminal = {}
      /\ Checks \subseteq Ops /\ Statuses = Unfinished \cup Terminal
  BY <1>0, StoredTypes
<1>5. \A k \in Checks : k # u.op => saved'[k] = saved[k]
  BY <1>1, <1>4
<1>6. saved'[u.op] = u.status
  BY <1>1, <1>4
<1>7. Nothing \notin Ops /\ Nothing \notin Checks
  BY CoordinatorAssumption DEF Ops
<1>8. u.op \in Checks => r.verifying = u.op /\ Verifies /\ RunningChecks = {u.op}
  BY <1>1, <1>2 DEF VerificationsInv, VerifyingRuns, RunningChecks
<1>9. r \in RunState /\ r.verifying \in Checks \cup {Nothing}
  <2>1. r \in RunState
    BY <1>0 DEF TypeOK
  <2> QED BY <2>1, Zenon DEF RunState
<1>10. verified => u.op \in Checks
  BY <1>1, <1>7, <1>9
<1>11. \/ verified /\ RunningChecks' = {} /\ RunningChecks # {}
       \/ ~verified /\ RunningChecks' = RunningChecks
  <2>1. CASE verified
    <3>1. u.op \in Checks /\ RunningChecks = {u.op} /\ u.status \in Terminal
      BY <1>8, <1>10, <2>1
    <3>2. \A k \in Checks : saved'[k] \notin Unfinished
      BY <1>4, <1>5, <1>6, <3>1 DEF RunningChecks
    <3> QED BY <2>1, <3>1, <3>2 DEF RunningChecks
  <2>2. CASE ~verified
    <3>1. u.op \in Checks => u.status \in Unfinished
      BY <1>1, <1>4, <1>8, <2>2
    <3> QED BY <1>2, <1>5, <1>6, <2>2, <3>1 DEF RunningChecks
  <2> QED BY <2>1, <2>2
<1> HIDE DEF verified
<1>12. ChecksBounded(log)' /\ Derived'.history.verifications = Derived.history.verifications
  BY <1>0, <1>1, CountOfOthers DEF VerificationsInv
<1>13. VerifyingRuns'
  <2>1. CASE verified
    BY <1>3, <1>7, <1>11, <2>1 DEF VerifyingRuns
  <2>2. CASE ~verified
    BY <1>1, <1>3, <1>11, <2>2 DEF VerificationsInv, VerifyingRuns
  <2> QED BY <2>1, <2>2
<1>14. ReadyToVerify'
  BY <1>1 DEF ReadyToVerify
<1>15. ToldAlone'
  <2>1. CASE verified
    BY <1>1, <1>3, <1>11, <2>1 DEF ToldAlone
  <2>2. CASE ~verified
    BY <1>3, <2>2 DEF ToldAlone
  <2> QED BY <2>1, <2>2
<1>16. LeavesRoom'
  <2>1. CASE verified
    <3>1. Derived.history.verifications < MaxVerifications
      BY <1>11, <2>1 DEF VerificationsInv, LeavesRoom
    <3> QED BY <1>12, <3>1 DEF LeavesRoom
  <2>2. CASE ~verified
    <3>1. todo' # <<"verification">>
      BY <1>3, <2>2
    <3> QED BY <1>11, <1>12, <2>2, <3>1 DEF VerificationsInv, LeavesRoom
  <2> QED BY <2>1, <2>2
<1>17. CountsAhead'
  <2>1. h'.history.verifications = h.history.verifications
    BY <1>1, Zenon DEF Agrees
  <2>2. h.history.verifications <= h.verifications
        /\ h.history.verifications \in Nat /\ h.verifications \in Nat
    BY <1>0, <1>1, LoopCounts DEF VerificationsInv, CountsAhead
  <2> QED BY <1>3, <2>1, <2>2 DEF CountsAhead
<1> QED BY <1>12, <1>13, <1>14, <1>15, <1>16, <1>17 DEF VerificationsInv

\* A verification starts.
LEMMA VerifyCounts ==
  ASSUME LInv, VerificationsInv, TypeOK', Verify
  PROVE  VerificationsInv'
<1>0. TypeOK /\ RInv
  BY DEF LInv, RInv
<1> PICK k \in UnusedChecks :
      /\ log' = Append(log, StatusItem(k, "ready"))
      /\ h' = [AddItem(h, StatusItem(k, "ready")) EXCEPT !.work = FALSE]
      /\ Store(k, "ready")
      /\ r' = [r EXCEPT !.verifying = k]
  BY Zenon DEF Verify
<1> DEFINE item == StatusItem(k, "ready")
           added == AddItem(h, item)
<1>1. pc = "verify" /\ pc' = "dispatch" /\ pc \in Loop /\ UNCHANGED todo /\ todo = <<>>
  BY DEF Verify, At, Loop, Labels, Down
<1>2. /\ saved[k] = "none" /\ k \in Ops /\ k \in Checks /\ k # Nothing
      /\ saved' = [saved EXCEPT ![k] = "ready"]
  BY UnusedAreNew, CoordinatorAssumption DEF Store
<1>3. item \in Items /\ item.kind # "input"
  BY <1>2, ItemTypes DEF StatusItem, Statuses, Unfinished
<1>4. added \in DerivedState
  BY <1>0, <1>3, AddItemType DEF TypeOK
<1>5. h'.verifications = added.verifications /\ h'.history = added.history
  <2>1. h' = [added EXCEPT !.work = FALSE]
    OBVIOUS
  <2> HIDE DEF added
  <2> QED BY <1>4, <2>1, ZenonT(60) DEF DerivedState
<1>6. r'.verifying = k
  <2>1. r \in RunState /\ r' = [r EXCEPT !.verifying = k]
    BY <1>0 DEF TypeOK
  <2> QED BY <2>1, ZenonT(60) DEF RunState
<1>7. Verifies /\ r.verifying = Nothing /\ h.verifications < MaxVerifications
  BY <1>1 DEF VerificationsInv, ReadyToVerify
<1>8. ~IsExternal(item) /\ item # InputItem("verification")
  BY <1>3 DEF IsExternal, InputItem
<1>9. added.verifications = h.verifications
      /\ added.history.verifications = h.history.verifications
  BY <1>0, <1>3, <1>8, ItemCounts DEF CountedBy, TypeOK
<1>10. ChecksBounded(log)' /\ Derived'.history.verifications = Derived.history.verifications
  BY <1>0, <1>3, CountOfOthers DEF VerificationsInv
<1> HIDE DEF item, added
<1>11. RunningChecks = {}
  BY <1>1, <1>2, <1>7, CoordinatorAssumption DEF VerificationsInv, VerifyingRuns, RunningChecks, Ops
<1>12. saved \in [Ops -> Statuses \cup {"none"}] /\ Checks \subseteq Ops /\ "ready" \in Unfinished
  BY <1>0, StoredTypes DEF Unfinished
<1>13. RunningChecks' = {k}
  BY <1>2, <1>11, <1>12 DEF RunningChecks
<1>14. VerifyingRuns'
  BY <1>2, <1>6, <1>7, <1>13 DEF VerifyingRuns
<1>15. ReadyToVerify' /\ ToldAlone'
  BY <1>1 DEF ReadyToVerify, ToldAlone
<1>16. h.history.verifications <= h.verifications
       /\ Derived.history.verifications = h.history.verifications
       /\ Derived.history.verifications \in Nat /\ h.verifications \in Nat
  BY <1>0, <1>1, LoopCounts DEF VerificationsInv, CountsAhead
<1>17. LeavesRoom'
  BY <1>7, <1>10, <1>16, CoordinatorAssumption DEF LeavesRoom
<1>18. CountsAhead'
  BY <1>5, <1>9, <1>16 DEF CountsAhead
<1> QED BY <1>10, <1>14, <1>15, <1>17, <1>18 DEF VerificationsInv

\* A run goes on with the verification that was running.
LEMMA RestoreCounts ==
  ASSUME RInv, VerificationsInv, TypeOK', Restore
  PROVE  VerificationsInv'
<1>0. TypeOK /\ Fresh /\ h \in DerivedState /\ r \in RunState
  BY DEF RInv, TypeOK
<1>1. /\ pc = "replay" /\ pc' = "schedule" /\ UNCHANGED <<log, saved, todo>>
      /\ h' = RestoreOperations(h)
  BY DEF Restore, durable
<1>2. todo = <<>>
  BY <1>0, <1>1 DEF Fresh
<1> PICK k \in Checks \cup {Nothing} :
      /\ IF \E x \in Checks : saved[x] \in Unfinished
           THEN k \in Checks /\ saved[k] \in Unfinished
           ELSE k = Nothing
      /\ r' = [r EXCEPT !.verifying = k]
  BY Zenon DEF Restore
<1>3. r'.verifying = k
  <2>1. r' = [r EXCEPT !.verifying = k]
    OBVIOUS
  <2> QED BY <1>0, <2>1, ZenonT(60) DEF RunState
<1>4. RunningChecks' = RunningChecks
  BY <1>1, SameChecks
<1>5. \A x \in Checks : x \in RunningChecks <=> x = k
  <2>1. Nothing \notin Checks
    BY CoordinatorAssumption DEF Ops
  <2> QED BY <2>1 DEF RunningChecks, VerificationsInv, VerifyingRuns
<1>6. VerifyingRuns'
  BY <1>3, <1>4, <1>5 DEF VerificationsInv, VerifyingRuns
<1>7. ReadyToVerify' /\ ToldAlone'
  BY <1>1, <1>2 DEF ReadyToVerify, ToldAlone
<1>8. ChecksBounded(log)' /\ LeavesRoom'
  BY <1>1, <1>4 DEF VerificationsInv, LeavesRoom, Derived
<1>9. CountsAhead'
  <2>1. FromHistory(h)
    BY <1>1 DEF RInv, ReplayIsAt
  <2>2. h.verifications = h.history.verifications /\ h.verifications \in Nat
    BY <1>0, <2>1, Zenon DEF FromHistory, DerivedState
  <2>3. Agrees(h', h) /\ h'.verifications = h.verifications
    BY <1>0, <1>1, RestoreOperationsAgrees
  <2>4. h'.history.verifications = h.history.verifications
    BY <2>3, Zenon DEF Agrees
  <2> QED BY <2>2, <2>3, <2>4 DEF CountsAhead
<1> QED BY <1>6, <1>7, <1>8, <1>9 DEF VerificationsInv

\* No loop runs after the step, or nothing changes that counts.
LEMMA AwayKeeps ==
  ASSUME VerificationsInv,
         \/ UNCHANGED <<log, saved>> /\ pc' \notin Loop /\ todo' = <<>>
         \/ UNCHANGED <<log, saved, pc, h, r, todo>>
  PROVE  VerificationsInv'
<1>1. RunningChecks' = RunningChecks /\ Derived' = Derived
  BY DEF RunningChecks, Derived
<1>2. "verify" \in Loop
  BY DEF Loop, Labels, Down
<1>3. CASE UNCHANGED <<log, saved>> /\ pc' \notin Loop /\ todo' = <<>>
  BY <1>1, <1>2, <1>3 DEF VerificationsInv, VerifyingRuns, ReadyToVerify, ToldAlone, LeavesRoom,
                         CountsAhead
<1>4. CASE UNCHANGED <<log, saved, pc, h, r, todo>>
  BY <1>1, <1>4 DEF VerificationsInv, VerifyingRuns, ReadyToVerify, ToldAlone, LeavesRoom,
                    CountsAhead
<1> QED BY <1>3, <1>4

-----------------------------------------------------------------------------
(* The steps that leave the verifications alone *)

LEMMA CalmByDefault ==
  ASSUME pc \in Loop, pc' \in Loop \ {"verify"}, UNCHANGED <<log, saved>>,
         h'.verifications = h.verifications, Agrees(h', h), r'.verifying = r.verifying,
         UNCHANGED todo \/ \A i \in DOMAIN todo' : todo'[i] # "verification"
  PROVE  CalmStep
<1>1. h'.history.verifications = h.history.verifications
  BY Zenon DEF Agrees
<1> QED BY <1>1 DEF CalmStep

LEMMA SilentIsCalm ==
  ASSUME TypeOK,
         \/ ScheduledAll \/ ReconciledAll \/ InputsSlurped \/ UpdatesSlurped \/ DropResult
         \/ QuotaLifts \/ GraceEnds \/ ToolWaitEnds \/ PostHeartbeat \/ QuotaRefuses
         \/ SummaryOverflows \/ AnswerStands \/ Decide \/ DropCompaction
         \/ StartLoop \/ DispatchCalls \/ CancelOperations
  PROVE  CalmStep
<1>1. /\ pc \in Loop /\ pc' \in Loop \ {"verify"} /\ UNCHANGED <<log, saved, h, todo>>
  BY DEF ScheduledAll, ReconciledAll, InputsSlurped, UpdatesSlurped, DropResult, QuotaLifts,
         GraceEnds, ToolWaitEnds, PostHeartbeat, QuotaRefuses, SummaryOverflows, AnswerStands,
         Decide, DropCompaction, StartLoop, DispatchCalls, CancelOperations, durable, At, Loop,
         Labels, Down
<1>2. r'.verifying = r.verifying
  BY EventsKeep, WorkKeeps, Zenon DEF Keeps, Timers
<1> QED BY <1>1, <1>2, AgreesRefl, CalmByDefault

LEMMA SpeakingIsCalm ==
  ASSUME TypeOK,
         \/ DeadlinePasses \/ ReportDue \/ SaveCheckpoint \/ CountTurn \/ AnswerCut
         \/ AnswerRefused \/ TellFirst
  PROVE  CalmStep
<1>1. pc \in Loop /\ pc' \in Loop \ {"verify"} /\ UNCHANGED <<log, saved>>
  BY DEF DeadlinePasses, ReportDue, SaveCheckpoint, CountTurn, AnswerCut, AnswerRefused,
         TellFirst, Recovers, durable, At, Loop, Labels, Down
<1>2. r'.verifying = r.verifying
  BY EventsKeep, WorkKeeps, Zenon DEF Keeps, Timers
<1>3. h'.verifications = h.verifications /\ Agrees(h', h)
  <2>1. CASE TellFirst
    <3>1. h' = [h EXCEPT !.stopped = FALSE] /\ h \in DerivedState
      BY <2>1 DEF TellFirst, TypeOK
    <3> QED BY <3>1, ZenonT(60) DEF Agrees, DerivedState
  <2>2. CASE ~TellFirst
    <3>1. UNCHANGED h
      BY <2>2, Zenon DEF DeadlinePasses, ReportDue, SaveCheckpoint, CountTurn, AnswerCut,
                         AnswerRefused
    <3> QED BY <3>1, AgreesRefl
  <2> QED BY <2>1, <2>2
<1>4. \A i \in DOMAIN todo' : todo'[i] # "verification"
  <2>1. todo' \in Seq(Remarks)
    BY SaysRemarks, Zenon
  <2>2. \A i \in DOMAIN todo' : todo'[i] \in Remarks
    BY <2>1, ElementOfSeq, LenProperties
  <2> QED BY <2>2 DEF Remarks
<1> QED BY <1>1, <1>2, <1>3, <1>4, CalmByDefault

\* The inbox holds no word of the loop but those it posted.
LEMMA InputIsCalm ==
  ASSUME TypeOK, NotSubmitted, TakeInput \/ ProcessDue
  PROVE  CalmStep
<1>1. pc \in Loop /\ pc' \in Loop \ {"verify"} /\ UNCHANGED <<log, saved, h>>
  BY DEF TakeInput, ProcessDue, durable, At, Loop, Labels, Down
<1>2. r'.verifying = r.verifying
  BY OthersKeep
<1>3. r.deferred \in Seq(External)
  BY Zenon DEF TypeOK, RunState
<1>4. UNCHANGED todo \/ \A i \in DOMAIN todo' : todo'[i] # "verification"
  <2>0. "verification" \notin External
    BY ItemsAssumption
  <2>1. CASE ProcessDue
    <3>1. UNCHANGED todo \/ todo' = r.deferred
      BY <2>1, Zenon DEF ProcessDue
    <3>2. \A i \in DOMAIN r.deferred : r.deferred[i] \in External
      BY <1>3, ElementOfSeq, LenProperties
    <3> QED BY <2>0, <3>1, <3>2
  <2>2. CASE TakeInput
    <3> DEFINE id == Head(queued)
    <3>1. /\ queued # <<>>
          /\ \/ UNCHANGED todo
             \/ id \in External /\ todo' = Append(r.deferred, id)
             \/ todo' = <<id>>
      BY <2>2, Zenon DEF TakeInput, GoesOut
    <3>2. id # "verification"
      BY <3>1 DEF NotSubmitted, TypeOK
    <3>3. CASE id \in External /\ todo' = Append(r.deferred, id)
      <4>1. todo' \in Seq(External)
        BY <1>3, <3>3, AppendProperties
      <4>2. \A i \in DOMAIN todo' : todo'[i] \in External
        BY <4>1, ElementOfSeq, LenProperties
      <4> QED BY <2>0, <4>2
    <3> HIDE DEF id
    <3>4. CASE todo' = <<id>>
      BY <3>2, <3>4
    <3> QED BY <3>1, <3>3, <3>4
  <2> QED BY <2>1, <2>2
<1> QED BY <1>1, <1>2, <1>4, AgreesRefl, CalmByDefault

LEMMA AnswerWholeIsCalm ==
  ASSUME TypeOK, AnswerWhole
  PROVE  CalmStep
<1>1. /\ pc \in Loop /\ pc' \in Loop /\ UNCHANGED <<log, saved, h, todo>> /\ todo = <<>>
      /\ pc' = "verify" => VerificationDue
  BY DEF AnswerWhole, Recovers, durable, At, Loop, Labels, Down
<1>2. r'.verifying = r.verifying
  BY WorkKeeps, Zenon DEF Keeps
<1> QED BY <1>1, <1>2 DEF CalmStep, VerificationDue

LEMMA RecordingIsCalm ==
  ASSUME TypeOK,
         \/ AnswerArrives \/ SummaryArrives \/ AnswerOverflows \/ ScheduleToolCall
         \/ ReconcileToolCall \/ BeginCompaction \/ BeginTurn
  PROVE  CalmStep
<1>0. h \in DerivedState
  BY DEF TypeOK
<1>1. pc \in Loop /\ pc' \in Loop \ {"verify"} /\ UNCHANGED todo
  BY DEF AnswerArrives, SummaryArrives, AnswerOverflows, ScheduleToolCall, ReconcileToolCall,
         BeginCompaction, BeginTurn, At, Loop, Labels, Down
<1>2. r'.verifying = r.verifying
  BY EventsKeep, WorkKeeps, Zenon DEF Keeps
<1>3. \A k \in Checks : saved'[k] = saved[k]
  <2>1. CASE ScheduleToolCall
    <3> PICK c \in Calls, status \in {"ready", "none"} : Store(c, status)
      BY <2>1, Zenon DEF ScheduleToolCall
    <3> QED BY StoredTypes DEF Store
  <2>2. CASE ~ScheduleToolCall
    <3>1. UNCHANGED saved
      BY <2>2, Zenon DEF AnswerArrives, SummaryArrives, AnswerOverflows, ReconcileToolCall,
             BeginCompaction, BeginTurn
    <3> QED BY <3>1
  <2> QED BY <2>1, <2>2
<1> PICK item \in Items :
      /\ item.kind # "input" /\ log' = Append(log, item)
      /\ h' = AddItem(h, item) \/ h' = [AddItem(h, item) EXCEPT !.work = FALSE]
  BY RecordsNoInput, Zenon
<1>4. h'.verifications = h.verifications /\ h'.history.verifications = h.history.verifications
  <2> DEFINE added == AddItem(h, item)
  <2>1. added \in DerivedState
    BY <1>0, AddItemType
  <2>2. ~IsExternal(item) /\ item # InputItem("verification")
    BY DEF IsExternal, InputItem
  <2>3. added.verifications = h.verifications
        /\ added.history.verifications = h.history.verifications
    BY <1>0, <2>2, ItemCounts DEF CountedBy
  <2>4. h' = added \/ h' = [added EXCEPT !.work = FALSE]
    OBVIOUS
  <2> HIDE DEF added
  <2>5. h'.verifications = added.verifications /\ h'.history = added.history
    BY <2>1, <2>4, ZenonT(60) DEF DerivedState
  <2> QED BY <2>3, <2>5
<1> QED BY <1>1, <1>2, <1>3, <1>4 DEF CalmStep

LEMMA EndingCounts ==
  ASSUME TypeOK, Crash \/ RequestFails \/ AnswerFailed \/ AwaitCancellation \/ StopWhenIdle
  PROVE  CalmStep \/ (UNCHANGED <<log, saved>> /\ pc' \notin Loop /\ todo' = <<>>)
<1>1. CASE \E how \in Down : Exit(how)
  BY <1>1 DEF Exit, durable, Loop
<1>2. CASE ~ \E how \in Down : Exit(how)
  <2>1. \A how \in {"crashed", "failed", "stopped", "idle"} : ~Exit(how)
    BY <1>2 DEF Down
  <2>2. /\ UNCHANGED <<log, saved, todo, h>> /\ pc' \in {"dispatch", "select"}
        /\ pc \in {"answer", "decide", "idlecheck"}
        /\ UNCHANGED r \/ r' = [r EXCEPT !.step = StepCalls, !.failures = @ + 1, !.callModel = TRUE]
    BY <2>1, Zenon DEF Crash, RequestFails, AnswerFailed, AwaitCancellation, StopWhenIdle, Recovers,
                       At, durable
  <2>3. r'.verifying = r.verifying
    <3>1. r \in RunState
      BY DEF TypeOK
    <3> QED BY <2>2, <3>1, ZenonT(60) DEF RunState
  <2>4. CalmStep
    BY <2>2, <2>3, AgreesRefl, CalmByDefault DEF Loop, Labels, Down
  <2> QED BY <2>4
<1> QED BY <1>1, <1>2

-----------------------------------------------------------------------------
(* Every step *)

LEMMA StepKeepsVerifications ==
  ASSUME LInv, VerificationsInv, NotSubmitted, TypeOK', [Next]_vars
  PROVE  VerificationsInv'
<1>0. TypeOK /\ RInv /\ Fresh
  BY DEF LInv, RInv
<1>1. CASE CalmStep
  BY <1>0, <1>1, CalmKeeps
<1>2. CASE \/ ScheduledAll \/ ReconciledAll \/ InputsSlurped \/ UpdatesSlurped \/ DropResult
           \/ QuotaLifts \/ GraceEnds \/ ToolWaitEnds \/ PostHeartbeat \/ QuotaRefuses
           \/ SummaryOverflows \/ AnswerStands \/ Decide \/ DropCompaction
           \/ StartLoop \/ DispatchCalls \/ CancelOperations
  BY <1>0, <1>1, <1>2, SilentIsCalm
<1>3. CASE \/ DeadlinePasses \/ ReportDue \/ SaveCheckpoint \/ CountTurn \/ AnswerCut
           \/ AnswerRefused \/ TellFirst
  BY <1>0, <1>1, <1>3, SpeakingIsCalm
<1>4. CASE TakeInput \/ ProcessDue \/ AnswerWhole
  BY <1>0, <1>1, <1>4, InputIsCalm, AnswerWholeIsCalm
<1>5. CASE \/ AnswerArrives \/ SummaryArrives \/ AnswerOverflows \/ ScheduleToolCall
           \/ ReconcileToolCall \/ BeginCompaction \/ BeginTurn
  BY <1>0, <1>1, <1>5, RecordingIsCalm
<1>6. CASE Crash \/ RequestFails \/ AnswerFailed \/ AwaitCancellation \/ StopWhenIdle
  BY <1>0, <1>1, <1>6, EndingCounts, AwayKeeps
<1>7. CASE RecordInput \/ TakeUpdate \/ Verify \/ Restore
  BY <1>0, <1>7, RecordInputKeeps, TakeUpdateCounts, VerifyCounts, RestoreCounts
<1>8. CASE Start \/ ReplayItem
  <2>1. UNCHANGED <<log, saved, todo>> /\ pc' \notin Loop
    BY <1>8 DEF Start, ReplayItem, durable, Loop
  <2>2. todo = <<>>
    BY <1>0, <1>8 DEF Start, ReplayItem, Fresh, Up
  <2> QED BY <2>1, <2>2, AwayKeeps
<1>9. CASE Submit \/ OperationAwaits \/ (\E o \in Ops : OperationEnds(o)) \/ UNCHANGED vars
  <2>1. UNCHANGED <<log, saved, pc, h, r, todo>>
    BY <1>9 DEF Submit, OperationAwaits, OperationEnds, vars, durable
  <2> QED BY <2>1, AwayKeeps
<1> QED
  BY <1>2, <1>3, <1>4, <1>5, <1>6, <1>7, <1>8, <1>9, ZenonT(60)
     DEF Next, Working, Timers, ModelResults

LEMMA StepKeepsInbox ==
  ASSUME TypeOK, NotSubmitted, [Next]_vars
  PROVE  NotSubmitted'
<1>0. "verification" \notin External /\ "verification" \notin Offered
  BY ItemsAssumption, CoordinatorAssumption DEF Heartbeats
<1>1. CASE UNCHANGED mail
  BY <1>1 DEF mail, NotSubmitted
<1>2. CASE \E how \in Down : Exit(how)
  BY <1>2 DEF Exit, NotSubmitted
<1>3. CASE Start
  BY <1>0, <1>3 DEF Start, NotSubmitted
<1>4. ASSUME NEW id \in Inputs, id # "verification", queued' = Append(queued, id),
             offered' \subseteq offered
      PROVE  NotSubmitted'
  <2>1. /\ Len(queued) \in Nat /\ DOMAIN queued = 1 .. Len(queued)
        /\ DOMAIN queued' = 1 .. Len(queued) + 1
        /\ \A i \in 1 .. Len(queued) : queued'[i] = queued[i]
        /\ queued'[Len(queued) + 1] = id
    BY <1>4, AppendProperties, LenProperties DEF TypeOK
  <2>2. \A i \in DOMAIN queued' : queued'[i] # "verification"
    <3> TAKE i \in DOMAIN queued'
    <3>1. CASE i \in 1 .. Len(queued)
      BY <2>1, <3>1 DEF NotSubmitted
    <3>2. CASE i = Len(queued) + 1
      BY <1>4, <2>1, <3>2
    <3> QED BY <2>1, <3>1, <3>2
  <2> QED BY <1>4, <2>2 DEF NotSubmitted
<1>5. CASE Submit
  <2> PICK id \in (External \ seen) \cup offered :
        queued' = Append(queued, id) /\ offered' = offered \ {id}
    BY <1>5, Zenon DEF Submit
  <2>1. id \in Inputs /\ id # "verification"
    BY <1>0 DEF TypeOK, NotSubmitted, Inputs
  <2> QED BY <1>4, <2>1
<1>6. CASE PostHeartbeat
  <2>1. queued' = Append(queued, "heartbeat") /\ offered' = offered /\ "heartbeat" \in Inputs
    BY <1>6, Zenon DEF PostHeartbeat, Inputs, Controls, Heartbeats
  <2> QED BY <1>4, <2>1
<1>7. CASE TakeInput
  <2>1. queued # <<>> /\ queued' = Tail(queued) /\ offered' = offered
    BY <1>7, Zenon DEF TakeInput
  <2>2. \A i \in DOMAIN queued' : i + 1 \in DOMAIN queued /\ queued'[i] = queued[i + 1]
    BY <2>1, HeadTailProperties, LenProperties DEF TypeOK
  <2> QED BY <2>1, <2>2 DEF NotSubmitted
<1>8. CASE Working \/ ModelResults \/ Crash
  <2>1. UNCHANGED mail \/ \E how \in {"crashed", "failed", "stopped", "idle"} : Exit(how)
    BY <1>8, Zenon DEF Working, ModelResults, Crash, ReplayItem, Restore, RecordInput,
         ScheduleToolCall, ScheduledAll, ReconcileToolCall, ReconciledAll, StartLoop,
         InputsSlurped, UpdatesSlurped, SaveCheckpoint, CountTurn, AnswerStands, AnswerFailed,
         AnswerCut, AnswerRefused, AnswerWhole, Verify, DispatchCalls, ProcessDue,
         CancelOperations, AwaitCancellation, Decide, BeginCompaction, DropCompaction, TellFirst,
         BeginTurn, StopWhenIdle, DropResult, AnswerArrives, SummaryArrives, QuotaRefuses,
         SummaryOverflows, AnswerOverflows, RequestFails
  <2> QED BY <1>1, <1>2, <2>1 DEF Down
<1>9. CASE \/ TakeUpdate \/ OperationAwaits \/ (\E o \in Ops : OperationEnds(o)) \/ UNCHANGED vars
           \/ DeadlinePasses \/ ReportDue \/ QuotaLifts \/ GraceEnds \/ ToolWaitEnds
  <2>1. UNCHANGED mail
    BY <1>9, Zenon DEF TakeUpdate, OperationAwaits, OperationEnds, vars, DeadlinePasses, ReportDue,
                QuotaLifts, GraceEnds, ToolWaitEnds
  <2> QED BY <1>1, <2>1
<1> QED BY <1>3, <1>5, <1>6, <1>7, <1>8, <1>9, Zenon DEF Next, Timers

LEMMA InitVerifications == Init => VInv
<1> SUFFICES ASSUME Init PROVE VInv
  OBVIOUS
<1>1. LInv
  BY InitLife
<1>2. /\ log = Inherited /\ saved = [o \in Ops |-> "none"] /\ pc = "new" /\ todo = <<>>
      /\ offered = {} /\ queued = <<>>
  BY DEF Init
<1>3. RunningChecks = {}
  BY <1>2 DEF RunningChecks, Ops, Unfinished
<1>4. "new" \notin Loop
  BY DEF Loop, Down
<1>5. ChecksBounded(log)
  BY <1>2, InheritedAssumption DEF LeftBySession
<1>6. VerificationsInv
  BY <1>2, <1>3, <1>4, <1>5 DEF VerificationsInv, VerifyingRuns, ReadyToVerify, ToldAlone,
                               LeavesRoom, CountsAhead
<1>7. NotSubmitted
  BY <1>2 DEF NotSubmitted
<1> QED BY <1>1, <1>6, <1>7 DEF VInv

LEMMA VerificationInvariant == Spec => []VInv
<1>1. Init => VInv
  BY InitVerifications
<1>2. VInv /\ [Next]_vars => VInv'
  <2> SUFFICES ASSUME VInv, [Next]_vars PROVE VInv'
    OBVIOUS
  <2>1. LInv /\ LInv' /\ TypeOK /\ TypeOK'
    BY StepKeepsLife DEF VInv, LInv, RInv
  <2> QED BY <2>1, StepKeepsVerifications, StepKeepsInbox DEF VInv
<1> QED BY <1>1, <1>2, PTL DEF Spec

\* However its runs end and are restored, a prompt gets back no more failed
\* verifications than Dependencies.MaxVerifications: what a crash loses of the
\* live count, replay finds in the log.
THEOREM VerificationsStayBounded == Spec => []VerificationsBounded
<1>1. VInv => VerificationsBounded
  BY DEF VInv, VerificationsInv, VerificationsBounded
<1> QED BY <1>1, VerificationInvariant, PTL

=============================================================================
