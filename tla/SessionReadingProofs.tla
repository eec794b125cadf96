------------------------ MODULE SessionReadingProofs ------------------------
(***************************************************************************)
(* What is read of a session's file, all of it or from a checkpoint, and   *)
(* what a cut leaves of it.                                                *)
(*                                                                         *)
(* A reading is a fold over the records.  The first parts prove what the   *)
(* folds do, by inductions over the number of records that are done with   *)
(* sets (NatSetInduction); then that a checkpoint in a legible file stands *)
(* for all before it, and that a state resumed from it stands for that of  *)
(* the whole history.  The last parts are about the cutter of a rewind,    *)
(* a fold too: what it leaves can be read, and is a state the session was  *)
(* in.                                                                     *)
(***************************************************************************)
EXTENDS SessionFileChecks, SequenceTheorems, WellFoundedInduction, TLAPS

-----------------------------------------------------------------------------
(* Induction over the naturals, for a set *)

\* Every least number that is not in the set would follow one that is.
LEMMA NatSetInduction ==
  ASSUME NEW S, 0 \in S, \A n \in Nat : n \in S => n + 1 \in S
  PROVE  Nat \subseteq S
<1> DEFINE T == Nat \ S
<1> SUFFICES ASSUME T # {} PROVE FALSE
  OBVIOUS
<1>1. PICK x \in T : \A y \in T : <<y, x>> \notin OpToRel(<, Nat)
  BY NatLessThanWellFounded, WFMin
<1>2. x \in Nat /\ x # 0 /\ x - 1 \in Nat /\ x - 1 < x /\ (x - 1) + 1 = x
  OBVIOUS
<1>3. <<x - 1, x>> \in OpToRel(<, Nat)
  BY <1>2 DEF OpToRel
<1>4. x - 1 \in S
  BY <1>1, <1>2, <1>3
<1> QED BY <1>1, <1>2, <1>4

\* A set of places in a file has a last and a first one.
LEMMA LastPlace ==
  ASSUME NEW n \in Nat, NEW S \in SUBSET (1 .. n), S # {}
  PROVE  Max(S) \in S /\ \A k \in S : k <= Max(S)
<1> DEFINE N == {m \in Nat : \A P \in SUBSET (1 .. m) : P # {} => \E x \in P : \A y \in P : x >= y}
<1>1. 0 \in N
  <2>1. 1 .. 0 = {}
    OBVIOUS
  <2> QED BY <2>1
<1>2. ASSUME NEW m \in Nat, m \in N PROVE m + 1 \in N
  <2> SUFFICES ASSUME NEW P \in SUBSET (1 .. m + 1), P # {}
               PROVE  \E x \in P : \A y \in P : x >= y
    OBVIOUS
  <2>1. CASE m + 1 \in P
    BY <2>1
  <2>2. CASE m + 1 \notin P
    <3>1. P \in SUBSET (1 .. m)
      BY <2>2
    <3> QED BY <1>2, <3>1
  <2> QED BY <2>1, <2>2
<1> HIDE DEF N
<1>3. n \in N
  BY <1>1, <1>2, NatSetInduction
<1>4. \E x \in S : \A y \in S : x >= y
  BY <1>3 DEF N
<1>5. Max(S) \in S /\ \A y \in S : Max(S) >= y
  BY <1>4, Zenon DEF Max
<1> QED BY <1>5

LEMMA FirstPlace ==
  ASSUME NEW n \in Nat, NEW S \in SUBSET (1 .. n), S # {}
  PROVE  Min(S) \in S /\ \A k \in S : Min(S) <= k
<1> DEFINE T == {n + 1 - k : k \in S}
<1>1. T \in SUBSET (1 .. n) /\ T # {}
  <2>1. \A k \in S : k \in 1 .. n /\ n + 1 - k \in 1 .. n
    OBVIOUS
  <2>2. T \subseteq 1 .. n
    BY <2>1
  <2>3. PICK k \in S : TRUE
    OBVIOUS
  <2>4. n + 1 - k \in T
    OBVIOUS
  <2> HIDE DEF T
  <2> QED BY <2>2, <2>4
<1>2. PICK m \in T : \A y \in T : y <= m
  BY <1>1, LastPlace
<1>3. PICK k \in S : m = n + 1 - k
  OBVIOUS
<1>4. \A y \in S : k <= y
  BY <1>2, <1>3
<1>5. Min(S) \in S /\ \A y \in S : Min(S) =< y
  BY <1>4, Zenon DEF Min
<1> QED BY <1>5

\* The last fork of a file, and that no fork follows it.
LEMMA ForkPlace ==
  ASSUME NEW records, Len(records) \in Nat
  PROVE  /\ LastFork(records) \in 0 .. Len(records)
         /\ LastFork(records) # 0 => IsFork(records[LastFork(records)])
         /\ \A k \in 1 .. Len(records) : IsFork(records[k]) => k <= LastFork(records)
<1> DEFINE I == {k \in 1 .. Len(records) : IsFork(records[k])}
<1>1. LastFork(records) = IF I # {} THEN Max(I) ELSE 0
  BY Zenon DEF LastFork, SelectLastInSeq
<1>2. CASE I = {}
  BY <1>1, <1>2
<1>3. CASE I # {}
  <2>1. Max(I) \in I /\ \A k \in I : k <= Max(I)
    BY <1>3, LastPlace
  <2> QED BY <1>1, <1>3, <2>1
<1> QED BY <1>2, <1>3

-----------------------------------------------------------------------------
(* The whole history, record by record *)

\* The states of a reading of n records of which those up to inherited are
\* another session's.
ReadBy(f, records, inherited, n) ==
  f = [k \in 0 .. n |->
         IF k = 0 THEN Read0
         ELSE CHOOSE next \in {DecodeRecord(state, records[k], k, inherited) :
                                 state \in {f[k - 1]}} : TRUE]

Reading(records, inherited, n) == (CHOOSE f : ReadBy(f, records, inherited, n))[n]

LEMMA OneNext ==
  ASSUME NEW s, NEW record, NEW k, NEW inherited
  PROVE  (CHOOSE next \in {DecodeRecord(state, record, k, inherited) : state \in {s}} : TRUE)
           = DecodeRecord(s, record, k, inherited)
<1> DEFINE e == DecodeRecord(s, record, k, inherited)
<1>1. {DecodeRecord(state, record, k, inherited) : state \in {s}} = {e}
  OBVIOUS
<1> HIDE DEF e
<1>2. (CHOOSE next \in {e} : TRUE) = e
  OBVIOUS
<1> QED BY <1>1, <1>2 DEF e

\* What a reading is, step by step, without the sets that bind each state.
LEMMA ReadByDef ==
  ASSUME NEW f, NEW records, NEW inherited, NEW n \in Nat
  PROVE  ReadBy(f, records, inherited, n) <=>
           f = [k \in 0 .. n |-> IF k = 0 THEN Read0
                                 ELSE DecodeRecord(f[k - 1], records[k], k, inherited)]
BY OneNext, Zenon DEF ReadBy

\* There is one.
LEMMA ReadByExists ==
  ASSUME NEW records, NEW inherited, NEW n \in Nat
  PROVE  \E f : ReadBy(f, records, inherited, n)
<1> DEFINE S == {m \in Nat : \E f : ReadBy(f, records, inherited, m)}
<1>1. 0 \in S
  <2> DEFINE f == [k \in 0 .. 0 |-> Read0]
  <2>1. f = [k \in 0 .. 0 |-> IF k = 0 THEN Read0
                              ELSE DecodeRecord(f[k - 1], records[k], k, inherited)]
    OBVIOUS
  <2> HIDE DEF f
  <2>2. ReadBy(f, records, inherited, 0)
    BY <2>1, ReadByDef
  <2> QED BY <2>2
<1>2. ASSUME NEW m \in Nat, m \in S PROVE m + 1 \in S
  <2>0. PICK f : ReadBy(f, records, inherited, m)
    BY <1>2
  <2> DEFINE g == [k \in 0 .. m + 1 |->
                     IF k = m + 1 THEN DecodeRecord(f[m], records[k], k, inherited) ELSE f[k]]
  <2>1. \A k \in 0 .. m : f[k] = IF k = 0 THEN Read0
                                 ELSE DecodeRecord(f[k - 1], records[k], k, inherited)
    <3>1. f = [k \in 0 .. m |-> IF k = 0 THEN Read0
                                ELSE DecodeRecord(f[k - 1], records[k], k, inherited)]
      BY <2>0, ReadByDef
    <3> QED BY <3>1
  <2>2. \A k \in 0 .. m : g[k] = f[k]
    OBVIOUS
  <2>3. \A k \in 0 .. m + 1 : g[k] = IF k = 0 THEN Read0
                                     ELSE DecodeRecord(g[k - 1], records[k], k, inherited)
    <3> SUFFICES ASSUME NEW k \in 0 .. m + 1
                 PROVE  g[k] = IF k = 0 THEN Read0
                               ELSE DecodeRecord(g[k - 1], records[k], k, inherited)
      OBVIOUS
    <3>1. CASE k = m + 1
      <4>1. k # 0 /\ k - 1 = m /\ m \in 0 .. m
        BY <3>1
      <4> QED BY <2>2, <3>1, <4>1
    <3>2. CASE k \in 0 .. m
      <4>1. k = 0 \/ k - 1 \in 0 .. m
        BY <3>2
      <4>2. g[k] = f[k] /\ (k # 0 => g[k - 1] = f[k - 1])
        BY <2>2, <3>2, <4>1
      <4> HIDE DEF g
      <4> QED BY <2>1, <3>2, <4>2
    <3> QED BY <3>1, <3>2
  <2>4. g = [k \in 0 .. m + 1 |-> g[k]]
    OBVIOUS
  <2> HIDE DEF g
  <2>5. g = [k \in 0 .. m + 1 |-> IF k = 0 THEN Read0
                                  ELSE DecodeRecord(g[k - 1], records[k], k, inherited)]
    BY <2>3, <2>4
  <2>6. ReadBy(g, records, inherited, m + 1)
    BY <2>5, ReadByDef
  <2> QED BY <2>6
<1> HIDE DEF S
<1>3. Nat \subseteq S
  BY <1>1, <1>2, NatSetInduction
<1> QED BY <1>3 DEF S

\* Files that begin with the same records are read alike that far.
Alike(a, b, i, j, l) == \A k \in 1 .. l : a[k] = b[k] /\ (k <= i <=> k <= j)

Readings(f, a, i, m, g, b, j, n, l) ==
  /\ i \in Nat /\ j \in Nat /\ m \in Nat /\ n \in Nat /\ l \in Nat /\ l <= m /\ l <= n
  /\ ReadBy(f, a, i, m) /\ ReadBy(g, b, j, n)
  /\ Alike(a, b, i, j, l)

\* Two readings of records that are alike so far have come to the same state.
LEMMA ReadAlike ==
  ASSUME NEW f, NEW a, NEW i, NEW m, NEW g, NEW b, NEW j, NEW n, NEW l,
         Readings(f, a, i, m, g, b, j, n, l)
  PROVE  f[l] = g[l]
<1>a. /\ i \in Nat /\ j \in Nat /\ m \in Nat /\ n \in Nat /\ l \in Nat /\ l <= m /\ l <= n
      /\ ReadBy(f, a, i, m) /\ ReadBy(g, b, j, n)
      /\ Alike(a, b, i, j, l)
  BY DEF Readings
<1> DEFINE S == {k \in Nat : k <= l => f[k] = g[k]}
<1>0. /\ \A k \in 0 .. m : f[k] = IF k = 0 THEN Read0 ELSE DecodeRecord(f[k - 1], a[k], k, i)
      /\ \A k \in 0 .. n : g[k] = IF k = 0 THEN Read0 ELSE DecodeRecord(g[k - 1], b[k], k, j)
  <2>1. f = [k \in 0 .. m |-> IF k = 0 THEN Read0 ELSE DecodeRecord(f[k - 1], a[k], k, i)]
    BY <1>a, ReadByDef
  <2>2. g = [k \in 0 .. n |-> IF k = 0 THEN Read0 ELSE DecodeRecord(g[k - 1], b[k], k, j)]
    BY <1>a, ReadByDef
  <2>3. \A k \in 0 .. m : f[k] = IF k = 0 THEN Read0 ELSE DecodeRecord(f[k - 1], a[k], k, i)
    BY <2>1
  <2>4. \A k \in 0 .. n : g[k] = IF k = 0 THEN Read0 ELSE DecodeRecord(g[k - 1], b[k], k, j)
    BY <2>2
  <2> QED BY <2>3, <2>4
<1>1. 0 \in S
  BY <1>a, <1>0
<1>2. ASSUME NEW k \in Nat, k \in S PROVE k + 1 \in S
  <2> SUFFICES ASSUME k + 1 <= l PROVE f[k + 1] = g[k + 1]
    OBVIOUS
  <2>1. /\ k + 1 \in 0 .. m /\ k + 1 \in 0 .. n /\ k + 1 # 0 /\ (k + 1) - 1 = k
        /\ k + 1 \in 1 .. l /\ k <= l
    BY <1>a
  <2>2. f[k] = g[k] /\ a[k + 1] = b[k + 1] /\ (k + 1 <= i <=> k + 1 <= j)
    BY <1>a, <1>2, <2>1 DEF Alike
  <2>3. f[k + 1] = DecodeRecord(f[k], a[k + 1], k + 1, i)
    BY <1>0, <2>1
  <2>4. g[k + 1] = DecodeRecord(g[k], b[k + 1], k + 1, j)
    BY <1>0, <2>1
  <2>5. /\ (k + 1 > i) <=> ~(k + 1 <= i)
        /\ (k + 1 > j) <=> ~(k + 1 <= j)
    BY <1>a
  <2> QED BY <2>2, <2>3, <2>4, <2>5 DEF DecodeRecord
<1> HIDE DEF S
<1>3. l \in S
  BY <1>a, <1>1, <1>2, NatSetInduction
<1> QED BY <1>3 DEF S

LEMMA ReadingIs ==
  ASSUME NEW records, NEW inherited, NEW n \in Nat
  PROVE  ReadBy(CHOOSE f : ReadBy(f, records, inherited, n), records, inherited, n)
BY ReadByExists, Zenon

LEMMA ReadingAlike ==
  ASSUME NEW a, NEW b, NEW i \in Nat, NEW j \in Nat, NEW n \in Nat,
         Alike(a, b, i, j, n)
  PROVE  Reading(a, i, n) = Reading(b, j, n)
<1> DEFINE f == CHOOSE f : ReadBy(f, a, i, n)
           g == CHOOSE g : ReadBy(g, b, j, n)
<1>1. ReadBy(f, a, i, n) /\ ReadBy(g, b, j, n)
  BY ReadingIs
<1>2. Reading(a, i, n) = f[n] /\ Reading(b, j, n) = g[n]
  BY DEF Reading
<1> HIDE DEF f, g
<1>3. f[n] = g[n]
  <2>1. Readings(f, a, i, n, g, b, j, n, n)
    BY <1>1 DEF Readings
  <2> QED BY <2>1, ReadAlike
<1> QED BY <1>2, <1>3

\* A reading begins with nothing, and every record leads from one state to the next.
LEMMA ReadingSteps ==
  ASSUME NEW records, NEW inherited \in Nat, NEW n \in Nat
  PROVE  /\ Reading(records, inherited, 0) = Read0
         /\ Reading(records, inherited, n + 1)
              = DecodeRecord(Reading(records, inherited, n), records[n + 1], n + 1, inherited)
<1> DEFINE F(m) == CHOOSE f : ReadBy(f, records, inherited, m)
<1>1. \A m \in Nat : ReadBy(F(m), records, inherited, m) /\ Reading(records, inherited, m) = F(m)[m]
  BY ReadingIs DEF Reading
<1> HIDE DEF F
<1>2. \A m \in Nat : \A k \in 0 .. m :
        F(m)[k] = IF k = 0 THEN Read0 ELSE DecodeRecord(F(m)[k - 1], records[k], k, inherited)
  <2> SUFFICES ASSUME NEW m \in Nat
               PROVE  \A k \in 0 .. m :
                        F(m)[k] = IF k = 0 THEN Read0
                                  ELSE DecodeRecord(F(m)[k - 1], records[k], k, inherited)
    OBVIOUS
  <2>1. F(m) = [k \in 0 .. m |-> IF k = 0 THEN Read0
                                 ELSE DecodeRecord(F(m)[k - 1], records[k], k, inherited)]
    BY <1>1, ReadByDef
  <2> QED BY <2>1
<1>3. Reading(records, inherited, 0) = Read0
  BY <1>1, <1>2
<1>4. F(n + 1)[n] = F(n)[n]
  <2>1. ReadBy(F(n + 1), records, inherited, n + 1) /\ ReadBy(F(n), records, inherited, n)
    BY <1>1
  <2>2. n <= n + 1 /\ n <= n /\ n + 1 \in Nat
    OBVIOUS
  <2>3. Alike(records, records, inherited, inherited, n)
    BY DEF Alike
  <2>4. Readings(F(n + 1), records, inherited, n + 1, F(n), records, inherited, n, n)
    BY <2>1, <2>2, <2>3 DEF Readings
  <2> QED BY <2>4, ReadAlike
<1>5. F(n + 1)[n + 1] = DecodeRecord(F(n + 1)[n], records[n + 1], n + 1, inherited)
  <2>1. n + 1 \in Nat /\ n + 1 \in 0 .. n + 1 /\ n + 1 # 0 /\ (n + 1) - 1 = n
    OBVIOUS
  <2> QED BY <1>2, <2>1
<1>6. Reading(records, inherited, n + 1) = F(n + 1)[n + 1] /\ Reading(records, inherited, n) = F(n)[n]
  BY <1>1
<1> QED BY <1>3, <1>4, <1>5, <1>6

\* decodeLog is the reading of all the records.
LEMMA DecodeIsReading ==
  ASSUME NEW records
  PROVE  DecodeLog(records) = Reading(records, LastFork(records), Len(records))
BY Zenon DEF DecodeLog, Over, Reading, ReadBy

\* A reading of the first n records is that of a file of these only.
LEMMA PrefixIsReading ==
  ASSUME NEW records \in Seq(Records), NEW n \in Nat, n <= Len(records), LastFork(records) <= n
  PROVE  /\ SubSeq(records, 1, n) \in Seq(Records)
         /\ Len(SubSeq(records, 1, n)) = n
         /\ \A k \in 1 .. n : SubSeq(records, 1, n)[k] = records[k]
         /\ LastFork(SubSeq(records, 1, n)) = LastFork(records)
         /\ DecodeLog(SubSeq(records, 1, n)) = Reading(records, LastFork(records), n)
<1> DEFINE p == SubSeq(records, 1, n)
           f == LastFork(records)
           g == LastFork(p)
<1>0. Len(records) \in Nat /\ DOMAIN records = 1 .. Len(records)
  BY LenProperties
<1>1. p \in Seq(Records) /\ Len(p) = n /\ \A k \in 1 .. n : p[k] = records[k]
  BY <1>0, SubSeqProperties
<1>2. /\ f \in 0 .. Len(records)
      /\ f # 0 => IsFork(records[f])
      /\ \A k \in 1 .. Len(records) : IsFork(records[k]) => k <= f
  BY <1>0, ForkPlace
<1>3. /\ g \in 0 .. n
      /\ g # 0 => IsFork(p[g])
      /\ \A k \in 1 .. n : IsFork(p[k]) => k <= g
  BY <1>1, ForkPlace
<1>4. DecodeLog(p) = Reading(p, g, n)
  BY <1>1, DecodeIsReading
<1> HIDE DEF p, f, g
<1>5. g = f
  <2>1. f # 0 => f \in 1 .. n /\ p[f] = records[f]
    BY <1>0, <1>1, <1>2 DEF f
  <2>2. g # 0 => g \in 1 .. Len(records) /\ p[g] = records[g]
    BY <1>0, <1>1, <1>3
  <2>3. f # 0 => f <= g
    BY <1>2, <1>3, <2>1
  <2>4. g # 0 => g <= f
    BY <1>2, <1>3, <2>2
  <2> QED BY <1>0, <1>2, <1>3, <2>3, <2>4
<1>6. Reading(p, f, n) = Reading(records, f, n)
  <2>1. f \in Nat
    BY <1>2
  <2>2. Alike(p, records, f, f, n)
    BY <1>1 DEF Alike
  <2> QED BY <2>1, <2>2, ReadingAlike
<1> QED BY <1>1, <1>4, <1>5, <1>6 DEF p, f, g

\* What one more record does to a reading.
LEMMA DecodeAppend ==
  ASSUME NEW records \in Seq(Records), NEW record \in Records, ~IsFork(record)
  PROVE  LET more == Append(records, record)
             n == Len(records) + 1
         IN /\ more \in Seq(Records) /\ Len(more) = n /\ more[n] = record
            /\ \A k \in 1 .. Len(records) : more[k] = records[k]
            /\ SubSeq(more, 1, n - 1) = records
            /\ Front(more) = records
            /\ LastFork(more) = LastFork(records)
            /\ DecodeLog(more) = DecodeRecord(DecodeLog(records), record, n, LastFork(records))
<1> DEFINE more == Append(records, record)
           n == Len(records) + 1
           f == LastFork(records)
           g == LastFork(more)
<1>0. Len(records) \in Nat
  BY LenProperties
<1>1. /\ more \in Seq(Records) /\ Len(more) = n /\ more[n] = record
      /\ \A k \in 1 .. Len(records) : more[k] = records[k]
  BY <1>0, AppendProperties
<1>2. /\ f \in 0 .. Len(records)
      /\ f # 0 => IsFork(records[f])
      /\ \A k \in 1 .. Len(records) : IsFork(records[k]) => k <= f
  BY <1>0, ForkPlace
<1>3. /\ g \in 0 .. n
      /\ g # 0 => IsFork(more[g])
      /\ \A k \in 1 .. n : IsFork(more[k]) => k <= g
  <2>1. Len(more) = n /\ n \in Nat
    BY <1>0, <1>1
  <2> QED BY <2>1, ForkPlace
<1>4. DecodeLog(more) = Reading(more, g, n) /\ DecodeLog(records) = Reading(records, f, Len(records))
  BY <1>1, DecodeIsReading
<1>7. SubSeq(more, 1, n - 1) = records /\ Front(more) = records
  <2>1. SubSeq(more, 1, Len(records)) = records
    <3>0. Len(records) <= Len(more)
      BY <1>0, <1>1
    <3>1. /\ SubSeq(more, 1, Len(records)) \in Seq(Records)
          /\ Len(SubSeq(more, 1, Len(records))) = Len(records)
          /\ \A k \in 1 .. Len(records) : SubSeq(more, 1, Len(records))[k] = more[k]
      <4>1. 1 \in 1 .. Len(more) + 1 /\ Len(records) \in 0 .. Len(more)
        BY <1>0, <1>1
      <4> QED BY <1>0, <1>1, <4>1, SubSeqProperties
    <3> QED BY <1>1, <3>1, SeqEqual
  <2>2. n - 1 = Len(records) /\ Len(more) - 1 = Len(records)
    BY <1>0, <1>1
  <2> QED BY <2>1, <2>2 DEF Front
<1> HIDE DEF more, f, g
<1>5. g = f
  <2>1. g # n
    BY <1>0, <1>1, <1>3
  <2>2. f # 0 => f \in 1 .. n /\ more[f] = records[f]
    BY <1>0, <1>1, <1>2
  <2>3. g # 0 => g \in 1 .. Len(records) /\ more[g] = records[g]
    BY <1>0, <1>1, <1>3, <2>1
  <2>4. f # 0 => f <= g
    BY <1>2, <1>3, <2>2
  <2>5. g # 0 => g <= f
    BY <1>2, <1>3, <2>3
  <2> QED BY <1>0, <1>2, <1>3, <2>4, <2>5
<1>6. Reading(more, f, n) = DecodeRecord(Reading(records, f, Len(records)), record, n, f)
  <2>1. f \in Nat
    BY <1>2
  <2>2. Reading(more, f, n) = DecodeRecord(Reading(more, f, Len(records)), more[n], n, f)
    BY <1>0, <2>1, ReadingSteps
  <2>3. Reading(more, f, Len(records)) = Reading(records, f, Len(records))
    <3>1. Alike(more, records, f, f, Len(records))
      BY <1>0, <1>1 DEF Alike
    <3> QED BY <1>0, <2>1, <3>1, ReadingAlike
  <2> QED BY <1>1, <2>2, <2>3
<1> QED BY <1>1, <1>4, <1>5, <1>6, <1>7 DEF more, f, g

-----------------------------------------------------------------------------
(* What is read *)

WholeItems ==
  [kind : {"input"}, id : Prompts \cup Settings]
    \cup [kind : {"turn"}, turn : Turns, previous : Turns \cup {None}]
    \cup [kind : {"response"}, turn : Turns]
    \cup [kind : {"status"}, turn : Turns, op : Ops, value : FullValues \cup {None}]
    \cup [kind : {"fork"}, previous : Turns \cup {None}]

ReadStates == [ok : BOOLEAN, head : Heads, items : Seq(WholeItems), after : Nat]

\* Turns and calls of a head are its own, and a call has its operation.
Sane(head) ==
  /\ head.owned \subseteq head.turns
  /\ head.responded \subseteq head.owned
  /\ \A call \in head.calls : call[1] \in head.owned /\ call[2] \in DOMAIN head.ops
  /\ \A o \in DOMAIN head.ops : head.ops[o] \in FullValues

Fresh(head) ==
  /\ head.latest \in head.turns \cup {None}
  /\ ~head.located /\ head.archived = {}

\* No value of an operation is taken for the mark of one that is missing or elsewhere.
LEMMA Marks ==
  /\ None # Saved
  /\ \A v \in FullValues : v \in Values /\ v # None /\ v # Saved
  /\ \A v \in Values : v # None /\ v # Saved
  /\ None \notin Turns /\ None \notin Ops
<1>1. FullValues \subseteq Values
  BY DEF Values, FullValues, Unfinished, Bare
<1> QED BY <1>1, RecordsAssumption, ValuesAssumption

LEMMA NoOps ==
  /\ <<>> \in UNION {[O -> Values] : O \in SUBSET Ops}
  /\ DOMAIN <<>> = {}
<1>1. <<>> \in Seq(Values) /\ Len(<<>>) = 0
  BY EmptySeq
<1>2. <<>> \in [1 .. 0 -> Values] /\ DOMAIN <<>> = 1 .. 0
  BY <1>1, LenProperties
<1>3. 1 .. 0 = {} /\ {} \in SUBSET Ops
  OBVIOUS
<1> QED BY <1>2, <1>3

\* The operations of a head.
LEMMA OpsType ==
  ASSUME NEW head \in Heads
  PROVE  /\ DOMAIN head.ops \subseteq Ops
         /\ head.ops \in [DOMAIN head.ops -> Values]
BY DEF Heads

LEMMA OpsGrow ==
  ASSUME NEW head \in Heads, NEW op \in Ops, NEW value \in Values
  PROVE  LET ops == [o \in DOMAIN head.ops \cup {op} |-> IF o = op THEN value ELSE head.ops[o]]
         IN /\ ops \in UNION {[O -> Values] : O \in SUBSET Ops}
            /\ DOMAIN ops = DOMAIN head.ops \cup {op}
            /\ ops[op] = value
            /\ \A o \in DOMAIN head.ops \ {op} : ops[o] = head.ops[o]
<1> DEFINE ops == [o \in DOMAIN head.ops \cup {op} |-> IF o = op THEN value ELSE head.ops[o]]
<1>1. ops \in [DOMAIN head.ops \cup {op} -> Values] /\ DOMAIN head.ops \cup {op} \in SUBSET Ops
  BY OpsType
<1> QED BY <1>1

LEMMA OpsSaved ==
  ASSUME NEW head \in Heads, NEW op \in DOMAIN head.ops, NEW value \in Values
  PROVE  LET ops == [head.ops EXCEPT ![op] = value]
         IN /\ ops \in UNION {[O -> Values] : O \in SUBSET Ops}
            /\ DOMAIN ops = DOMAIN head.ops
            /\ ops[op] = value
            /\ \A o \in DOMAIN head.ops \ {op} : ops[o] = head.ops[o]
<1> DEFINE ops == [head.ops EXCEPT ![op] = value]
<1>1. ops \in [DOMAIN head.ops -> Values] /\ DOMAIN head.ops \in SUBSET Ops
  BY OpsType
<1> QED BY <1>1, OpsType

\* What an item changes of a head that accepts it.
Same(head, next, fields) ==
  \A field \in fields : next[field] = head[field]

AllFields == {"seq", "latest", "turns", "owned", "responded", "calls", "ops", "pending", "inputs",
              "located", "offsets", "archived"}

\* The fields of a head.
LEMMA HeadParts ==
  ASSUME NEW head \in Heads
  PROVE  /\ head.seq \in Nat /\ head.latest \in Turns \cup {None}
         /\ head.turns \subseteq Turns /\ head.owned \subseteq Turns /\ head.responded \subseteq Turns
         /\ head.calls \subseteq Turns \X Ops
         /\ head.ops \in UNION {[O -> Values] : O \in SUBSET Ops}
         /\ head.pending \subseteq Ops /\ head.inputs \in Seq(Prompts)
         /\ head.located \in BOOLEAN /\ head.offsets \in [Ops -> Nat] /\ head.archived \subseteq Ops
BY DEF Heads

\* What an item adds to a head, by its kind, and that it leaves the rest alone.
LEMMA AddedInput ==
  ASSUME NEW head \in Heads, NEW item \in WholeItems, item.kind = "input"
  PROVE  LET next == AddItem(head, item)
         IN /\ next \in Heads
            /\ next.seq = head.seq + 1
            /\ next.inputs = IF item.id \in Prompts THEN Append(head.inputs, item.id) ELSE head.inputs
            /\ Same(head, next, AllFields \ {"seq", "inputs"})
<1>1. CASE item.id \in Prompts
  <2> DEFINE next == [[head EXCEPT !.seq = @ + 1] EXCEPT !.inputs = Append(@, item.id)]
  <2>1. AddItem(head, item) = next
    BY <1>1, Zenon DEF AddItem
  <2>2. head.seq + 1 \in Nat /\ Append(head.inputs, item.id) \in Seq(Prompts)
    BY <1>1, HeadParts, AppendProperties
  <2>3. next = [head EXCEPT !.seq = head.seq + 1, !.inputs = Append(head.inputs, item.id)]
    BY DEF Heads
  <2> DEFINE inputs == Append(head.inputs, item.id)
  <2> HIDE DEF next, inputs
  <2>4. next \in Heads /\ next.seq = head.seq + 1 /\ next.inputs = inputs
        /\ Same(head, next, AllFields \ {"seq", "inputs"})
    BY <2>2, <2>3 DEF Heads, Same, AllFields, inputs
  <2> QED BY <1>1, <2>1, <2>4 DEF inputs
<1>2. CASE item.id \notin Prompts
  <2>1. AddItem(head, item) = [head EXCEPT !.seq = @ + 1]
    BY <1>2, Zenon DEF AddItem
  <2>2. head.seq + 1 \in Nat
    BY HeadParts
  <2> QED BY <1>2, <2>1, <2>2 DEF Heads, Same, AllFields
<1> QED BY <1>1, <1>2

LEMMA AddedTurn ==
  ASSUME NEW head \in Heads, NEW item \in WholeItems, item.kind = "turn"
  PROVE  LET next == AddItem(head, item)
         IN /\ next \in Heads
            /\ next.seq = head.seq + 1 /\ next.latest = item.turn
            /\ next.turns = head.turns \cup {item.turn} /\ next.owned = head.owned \cup {item.turn}
            /\ Same(head, next, AllFields \ {"seq", "latest", "turns", "owned"})
<1>1. AddItem(head, item) = [[head EXCEPT !.seq = @ + 1] EXCEPT !.turns = @ \cup {item.turn},
                               !.owned = @ \cup {item.turn}, !.latest = item.turn]
  BY Zenon DEF AddItem
<1> DEFINE turns == head.turns \cup {item.turn}
           owned == head.owned \cup {item.turn}
           seq == head.seq + 1
           latest == item.turn
           next == [head EXCEPT !.seq = seq, !.turns = turns, !.owned = owned, !.latest = latest]
<1>2. item.turn \in Turns
  BY DEF WholeItems
<1>3. seq \in Nat /\ turns \subseteq Turns /\ owned \subseteq Turns /\ latest \in Turns
  BY <1>2, HeadParts
<1>4. AddItem(head, item) = next
  BY <1>1 DEF Heads
<1> HIDE DEF turns, owned, seq, latest
<1>5. /\ next \in Heads
      /\ next.seq = seq /\ next.latest = latest /\ next.turns = turns /\ next.owned = owned
      /\ Same(head, next, AllFields \ {"seq", "latest", "turns", "owned"})
  BY <1>3 DEF Heads, Same, AllFields
<1> QED BY <1>4, <1>5 DEF turns, owned, seq, latest

LEMMA AddedResponse ==
  ASSUME NEW head \in Heads, NEW item \in WholeItems, item.kind = "response"
  PROVE  LET next == AddItem(head, item)
         IN /\ next \in Heads
            /\ next.seq = head.seq + 1 /\ next.responded = head.responded \cup {item.turn}
            /\ Same(head, next, AllFields \ {"seq", "responded"})
<1> DEFINE responded == head.responded \cup {item.turn}
           seq == head.seq + 1
           next == [head EXCEPT !.seq = seq, !.responded = responded]
<1>1. AddItem(head, item) = [[head EXCEPT !.seq = @ + 1] EXCEPT !.responded = @ \cup {item.turn}]
  BY Zenon DEF AddItem
<1>2. item.turn \in Turns
  BY DEF WholeItems
<1>3. seq \in Nat /\ responded \subseteq Turns
  BY <1>2, HeadParts
<1>4. AddItem(head, item) = next
  BY <1>1 DEF Heads
<1> HIDE DEF responded, seq
<1>5. /\ next \in Heads /\ next.seq = seq /\ next.responded = responded
      /\ Same(head, next, AllFields \ {"seq", "responded"})
  BY <1>3 DEF Heads, Same, AllFields
<1> QED BY <1>4, <1>5 DEF responded, seq

\* A status with its operation: it begins the call and the operation, unless
\* the call is known.
LEMMA AddedStatus ==
  ASSUME NEW head \in Heads, NEW item \in WholeItems, item.kind = "status", item.value # None
  PROVE  LET next == AddItem(head, item)
             key == <<item.turn, item.op>>
         IN /\ next \in Heads
            /\ next.seq = head.seq + 1 /\ next.calls = head.calls \cup {key}
            /\ next.ops = IF key \in head.calls THEN head.ops
                          ELSE [o \in DOMAIN head.ops \cup {item.op} |->
                                  IF o = item.op THEN item.value ELSE head.ops[o]]
            /\ next.pending = IF Finished(item.value) THEN head.pending \ {item.op}
                              ELSE head.pending \cup {item.op}
            /\ Same(head, next, AllFields \ {"seq", "calls", "ops", "pending"})
<1> DEFINE key == <<item.turn, item.op>>
           seq == head.seq + 1
           calls == head.calls \cup {key}
           grown == [o \in DOMAIN head.ops \cup {item.op} |->
                       IF o = item.op THEN item.value ELSE head.ops[o]]
           ops == IF key \in head.calls THEN head.ops ELSE grown
           pending == IF Finished(item.value) THEN head.pending \ {item.op}
                      ELSE head.pending \cup {item.op}
           next == [head EXCEPT !.seq = seq, !.calls = calls, !.ops = ops, !.pending = pending]
           started == IF key \in head.calls THEN [head EXCEPT !.seq = seq]
                      ELSE [[head EXCEPT !.seq = seq] EXCEPT !.calls = calls, !.ops = grown]
<1>1. /\ item.turn \in Turns /\ item.op \in Ops /\ item.value \in Values
  <2>1. item.turn \in Turns /\ item.op \in Ops /\ item.value \in FullValues
    BY DEF WholeItems
  <2> QED BY <2>1, Marks
<1>2. /\ seq \in Nat /\ calls \subseteq Turns \X Ops /\ pending \subseteq Ops
      /\ ops \in UNION {[O -> Values] : O \in SUBSET Ops}
  <2>1. seq \in Nat /\ calls \subseteq Turns \X Ops /\ pending \subseteq Ops
    BY <1>1, HeadParts
  <2>2. grown \in UNION {[O -> Values] : O \in SUBSET Ops}
    <3>1. DOMAIN head.ops \cup {item.op} \in SUBSET Ops
      BY <1>1, OpsType
    <3>2. grown \in [DOMAIN head.ops \cup {item.op} -> Values]
      BY <1>1, OpsType
    <3> HIDE DEF grown
    <3> QED BY <3>1, <3>2
  <2>3. head.ops \in UNION {[O -> Values] : O \in SUBSET Ops}
    BY HeadParts
  <2> HIDE DEF grown
  <2> QED BY <2>1, <2>2, <2>3
<1>3. AddItem(head, item) = RecordStatusOperation(started, item.op, item.value)
  <2>1. AddItem(head, item) =
          RecordStatusOperation(
            IF key \in head.calls THEN [head EXCEPT !.seq = @ + 1]
            ELSE [[head EXCEPT !.seq = @ + 1] EXCEPT
                               !.calls = @ \cup {key},
                               !.ops = IF item.value = None THEN @
                                       ELSE [o \in DOMAIN @ \cup {item.op} |->
                                               IF o = item.op THEN item.value ELSE @[o]]],
            item.op, item.value)
    BY Zenon DEF AddItem
  <2>2. /\ [head EXCEPT !.seq = @ + 1].calls = head.calls
        /\ [head EXCEPT !.seq = @ + 1].ops = head.ops
    BY DEF Heads
  <2> QED BY <2>1, <2>2, Zenon
<1>4. RecordStatusOperation(started, item.op, item.value) =
        [started EXCEPT !.pending = IF Finished(item.value) THEN @ \ {item.op}
                                    ELSE @ \cup {item.op}]
  BY Zenon DEF RecordStatusOperation
<1>5. AddItem(head, item) = next
  <2>1. CASE key \in head.calls
    <3>1. started = [head EXCEPT !.seq = seq] /\ ops = head.ops /\ calls = head.calls
      BY <2>1
    <3>2. started.pending = head.pending
      BY <3>1 DEF Heads
    <3> HIDE DEF started, seq, ops, calls
    <3>3. AddItem(head, item) = [started EXCEPT !.pending = pending]
      BY <1>3, <1>4, <3>2, Zenon
    <3> HIDE DEF pending
    <3> QED BY <3>1, <3>3 DEF Heads
  <2>2. CASE key \notin head.calls
    <3>1. started = [[head EXCEPT !.seq = seq] EXCEPT !.calls = calls, !.ops = grown] /\ ops = grown
      BY <2>2
    <3> HIDE DEF started, seq, ops, calls, grown
    <3>2. started.pending = head.pending
      BY <3>1 DEF Heads
    <3>3. AddItem(head, item) = [started EXCEPT !.pending = pending]
      BY <1>3, <1>4, <3>2, Zenon
    <3> HIDE DEF pending
    <3> QED BY <3>1, <3>3 DEF Heads
  <2> QED BY <2>1, <2>2
<1> HIDE DEF seq, calls, ops, pending, grown, started
<1>6. /\ next \in Heads /\ next.seq = seq /\ next.calls = calls /\ next.ops = ops
      /\ next.pending = pending
      /\ Same(head, next, AllFields \ {"seq", "calls", "ops", "pending"})
  BY <1>2 DEF Heads, Same, AllFields
<1> QED BY <1>5, <1>6 DEF seq, calls, ops, pending, grown

SavedTo(head, next, op, value) ==
  /\ next \in Heads
  /\ next.ops = [head.ops EXCEPT ![op] = value]
  /\ Same(head, next, AllFields \ {"ops"})

\* What saving an operation changes.
LEMMA SavedOperation ==
  ASSUME NEW head \in Heads, NEW op \in DOMAIN head.ops, NEW value \in Values
  PROVE  SavedTo(head, SaveOperation(head, op, value), op, value)
<1> DEFINE ops == [head.ops EXCEPT ![op] = value]
           next == [head EXCEPT !.ops = ops]
<1>1. SaveOperation(head, op, value) = next
  BY Zenon DEF SaveOperation
<1>2. ops \in UNION {[O -> Values] : O \in SUBSET Ops}
  BY OpsSaved
<1> HIDE DEF ops
<1>3. next \in Heads /\ next.ops = ops /\ Same(head, next, AllFields \ {"ops"})
  BY <1>2 DEF Heads, Same, AllFields
<1> HIDE DEF next
<1>4. SavedTo(head, next, op, value)
  BY <1>3 DEF SavedTo, ops
<1> QED BY <1>1, <1>4

\* An item of another session's part keeps the operations as they are: there
\* are none, and the fork forgets who owned what.
LEMMA InheritedItem ==
  ASSUME NEW head \in Heads, NEW item \in WholeItems, item.kind # "fork", NEW seq \in Nat
  PROVE  LET next == Inherit(head, seq, item)
         IN /\ next \in Heads
            /\ next.seq = seq
            /\ head.latest \in head.turns \cup {None} => next.latest \in next.turns \cup {None}
            /\ Same(head, next, {"ops", "located", "offsets", "archived"})
<1> DEFINE next == Inherit(head, seq, item)
<1>0. item.kind \in {"input", "turn", "response", "status"}
  BY DEF WholeItems
<1>1. CASE item.kind = "input"
  <2>1. CASE item.id \in Prompts
    <3> DEFINE inputs == Append(head.inputs, item.id)
    <3>1. next = [[head EXCEPT !.seq = seq] EXCEPT !.inputs = Append(@, item.id)]
      BY <1>1, <2>1, Zenon DEF Inherit
    <3>2. next = [head EXCEPT !.seq = seq, !.inputs = inputs]
      BY <3>1 DEF Heads
    <3>3. inputs \in Seq(Prompts)
      BY <2>1, HeadParts, AppendProperties
    <3> HIDE DEF inputs
    <3> QED BY <3>2, <3>3 DEF Heads, Same
  <2>2. CASE item.id \notin Prompts
    <3>1. next = [head EXCEPT !.seq = seq]
      BY <1>1, <2>2, Zenon DEF Inherit
    <3> QED BY <3>1 DEF Heads, Same
  <2> QED BY <2>1, <2>2
<1>2. CASE item.kind = "turn"
  <2> DEFINE turns == head.turns \cup {item.turn}
             owned == head.owned \cup {item.turn}
             latest == item.turn
  <2>1. next = [[head EXCEPT !.seq = seq] EXCEPT !.turns = @ \cup {item.turn},
                   !.owned = @ \cup {item.turn}, !.latest = item.turn]
    BY <1>2, Zenon DEF Inherit
  <2>2. next = [head EXCEPT !.seq = seq, !.turns = turns, !.owned = owned, !.latest = latest]
    BY <2>1 DEF Heads
  <2>3. item.turn \in Turns
    BY <1>2 DEF WholeItems
  <2>4. turns \subseteq Turns /\ owned \subseteq Turns /\ latest \in Turns /\ latest \in turns
    BY <2>3, HeadParts
  <2> HIDE DEF turns, owned, latest
  <2>5. [head EXCEPT !.seq = seq, !.turns = turns, !.owned = owned, !.latest = latest] \in Heads
    BY <2>4 DEF Heads
  <2>6. next.seq = seq /\ next.latest \in next.turns /\ Same(head, next, {"ops", "located", "offsets", "archived"})
    BY <2>2, <2>4 DEF Heads, Same
  <2> QED BY <2>2, <2>5, <2>6
<1>3. CASE item.kind = "response"
  <2> DEFINE responded == head.responded \cup {item.turn}
  <2>1. next = [[head EXCEPT !.seq = seq] EXCEPT !.responded = @ \cup {item.turn}]
    BY <1>3, Zenon DEF Inherit
  <2>2. next = [head EXCEPT !.seq = seq, !.responded = responded]
    BY <2>1 DEF Heads
  <2>3. item.turn \in Turns
    BY <1>3 DEF WholeItems
  <2>4. responded \subseteq Turns
    BY <2>3, HeadParts
  <2> HIDE DEF responded
  <2> QED BY <2>2, <2>4 DEF Heads, Same
<1>4. CASE item.kind = "status"
  <2> DEFINE calls == head.calls \cup {<<item.turn, item.op>>}
  <2>1. next = [[head EXCEPT !.seq = seq] EXCEPT !.calls = @ \cup {<<item.turn, item.op>>}]
    BY <1>4, Zenon DEF Inherit
  <2>2. next = [head EXCEPT !.seq = seq, !.calls = calls]
    BY <2>1 DEF Heads
  <2>3. item.turn \in Turns /\ item.op \in Ops
    BY <1>4 DEF WholeItems
  <2>4. calls \subseteq Turns \X Ops
    BY <2>3, HeadParts
  <2> HIDE DEF calls
  <2> QED BY <2>2, <2>4 DEF Heads, Same
<1> QED BY <1>0, <1>1, <1>2, <1>3, <1>4

Forked(head, next, seq) ==
  /\ next \in Heads
  /\ next.seq = seq /\ next.ops = <<>>
  /\ next.owned = {} /\ next.responded = {} /\ next.calls = {} /\ next.pending = {}
  /\ ~next.located /\ next.archived = {} /\ next.offsets = [o \in Ops |-> 0]
  /\ Same(head, next, {"latest", "turns", "inputs"})

\* A fork takes what is owned from the head, and leaves what is inherited.
LEMMA InheritedFork ==
  ASSUME NEW head \in Heads, NEW item \in RecordedItems, item.kind = "fork", NEW seq \in Nat
  PROVE  Forked(head, Inherit(head, seq, item), seq)
<1> DEFINE ops == <<>>
           offsets == [o \in Ops |-> 0]
           first == [head EXCEPT !.seq = seq]
           next == [first EXCEPT !.owned = {}, !.responded = {}, !.calls = {}, !.ops = ops, !.pending = {},
               !.located = FALSE, !.offsets = offsets, !.archived = {}]
<1>1. Inherit(head, seq, item) = next
  BY Zenon DEF Inherit, ResetOwned
<1>2. ops \in UNION {[O -> Values] : O \in SUBSET Ops} /\ offsets \in [Ops -> Nat]
  BY NoOps
<1> HIDE DEF ops, offsets
<1>3. first \in Heads /\ first.seq = seq /\ Same(head, first, {"latest", "turns", "inputs"})
  BY DEF Heads, Same
<1> HIDE DEF first
<1>4. /\ next \in Heads
      /\ next.seq = seq /\ next.ops = ops
      /\ next.owned = {} /\ next.responded = {} /\ next.calls = {} /\ next.pending = {}
      /\ ~next.located /\ next.archived = {} /\ next.offsets = offsets
      /\ Same(head, next, {"latest", "turns", "inputs"})
  BY <1>2, <1>3 DEF Heads, Same
<1> HIDE DEF next
<1>5. Forked(head, next, seq)
  BY <1>4 DEF Forked, ops, offsets
<1> QED BY <1>1, <1>5

\* A reading that goes on with an item, or with another head.
With(state, head, item) == [state EXCEPT !.head = head, !.items = Append(state.items, item)]
WithHead(state, head) == [state EXCEPT !.head = head]

LEMMA UnreadableIsNot ==
  ASSUME NEW state \in ReadStates
  PROVE  ~Unreadable(state).ok
BY DEF Unreadable, ReadStates

\* The fields of a record, by its type.
LEMMA RecordKinds ==
  ASSUME NEW record \in Records
  PROVE  /\ record.type \in {"item", "operation", "checkpoint"}
         /\ IsItem(record) => record.seq \in Nat /\ record.item \in RecordedItems
         /\ record.type = "operation" => record.op \in Ops /\ record.value \in FullValues
         /\ record.type = "checkpoint" => record.at \in Nat /\ record.head \in Heads
BY DEF Records, IsItem

\* An item of the session itself is accepted as the head has it.
LEMMA ReadItem ==
  ASSUME NEW state \in ReadStates, NEW record \in Records, IsItem(record),
         NEW k \in Nat, NEW inherited \in Nat, k > inherited,
         DecodeRecord(state, record, k, inherited).ok
  PROVE  LET item == Resolved(state.head, record.item)
             next == DecodeRecord(state, record, k, inherited)
         IN /\ state.ok /\ record.seq = state.head.seq + 1
            /\ Resolvable(state.head, record.item) /\ Accepts(state.head, item)
            /\ next = ReplayItem(state, record)
            /\ next = With(state, AddItem(state.head, item), item)
<1> DEFINE item == Resolved(state.head, record.item)
           next == DecodeRecord(state, record, k, inherited)
<1>1. state.ok
  BY DEF DecodeRecord
<1>2. next = ReplayItem(state, record)
  <2>1. state.ok \in BOOLEAN /\ ~(k <= inherited) /\ record.type = "item"
    BY DEF ReadStates, IsItem
  <2> QED BY <1>1, <2>1 DEF DecodeRecord, IsItem
<1>3. /\ record.seq = state.head.seq + 1
      /\ Resolvable(state.head, record.item)
      /\ Accepts(state.head, item)
  BY <1>2, UnreadableIsNot DEF ReplayItem
<1>4. next = With(state, AddItem(state.head, item), item)
  BY <1>2, <1>3, Zenon DEF ReplayItem, With
<1> QED BY <1>1, <1>2, <1>3, <1>4

LEMMA ReadInherited ==
  ASSUME NEW state \in ReadStates, NEW record \in Records, IsItem(record),
         NEW k \in Nat, NEW inherited \in Nat, k <= inherited,
         DecodeRecord(state, record, k, inherited).ok
  PROVE  LET next == DecodeRecord(state, record, k, inherited)
         IN /\ state.ok /\ record.seq = state.head.seq + 1
            /\ record.item.kind = "status" => record.item.value = None
            /\ next = With(state, Inherit(state.head, record.seq, record.item), record.item)
<1> DEFINE next == DecodeRecord(state, record, k, inherited)
<1>1. state.ok
  BY DEF DecodeRecord
<1>2. next = InheritItem(state, record)
  <2>1. state.ok \in BOOLEAN /\ ~(k > inherited) /\ record.type = "item"
    BY DEF ReadStates, IsItem
  <2> QED BY <1>1, <2>1 DEF DecodeRecord, IsItem
<1>3. /\ record.seq = state.head.seq + 1
      /\ record.item.kind = "status" => record.item.value = None
  BY <1>2, UnreadableIsNot DEF InheritItem
<1>4. next = With(state, Inherit(state.head, record.seq, record.item), record.item)
  <2>1. ~(\/ record.seq # state.head.seq + 1
          \/ record.item.kind = "status" /\ record.item.value # None)
    BY <1>3
  <2> QED BY <1>2, <2>1, Zenon DEF InheritItem, With
<1> QED BY <1>1, <1>3, <1>4

LEMMA ReadOther ==
  ASSUME NEW state \in ReadStates, NEW record \in Records, ~IsItem(record),
         NEW k \in Nat, NEW inherited \in Nat,
         DecodeRecord(state, record, k, inherited).ok
  PROVE  LET next == DecodeRecord(state, record, k, inherited)
         IN /\ state.ok
            /\ record.type \in {"operation", "checkpoint"}
            /\ record.type = "checkpoint" => next = state
            /\ record.type = "operation" =>
                 /\ k > inherited
                 /\ CanSave(state.head, record.op)
                 /\ next = ReplayOperation(state, record)
                 /\ next = WithHead(state, SaveOperation(state.head, record.op, record.value))
<1> DEFINE next == DecodeRecord(state, record, k, inherited)
<1>0. record.type \in {"operation", "checkpoint"} /\ state.ok \in BOOLEAN
  BY RecordKinds DEF IsItem, ReadStates
<1>1. state.ok
  BY DEF DecodeRecord
<1>2. CASE record.type = "checkpoint"
  BY <1>1, <1>2 DEF DecodeRecord, IsItem
<1>3. CASE record.type = "operation"
  <2>1. k > inherited \/ k <= inherited
    OBVIOUS
  <2>2. k <= inherited => next = Unreadable(state)
    <3>1. k <= inherited => ~(k > inherited)
      OBVIOUS
    <3> QED BY <1>1, <1>3, <3>1 DEF DecodeRecord, IsItem
  <2>3. k > inherited
    BY <2>1, <2>2, UnreadableIsNot
  <2>4. next = ReplayOperation(state, record)
    <3>1. ~(k <= inherited)
      BY <2>3
    <3> QED BY <1>1, <1>3, <2>3, <3>1 DEF DecodeRecord, IsItem
  <2>5. CanSave(state.head, record.op)
    BY <2>4, UnreadableIsNot DEF ReplayOperation
  <2>6. next = WithHead(state, SaveOperation(state.head, record.op, record.value))
    BY <2>4, <2>5, Zenon DEF ReplayOperation, WithHead
  <2> QED BY <1>1, <1>3, <2>3, <2>4, <2>5, <2>6
<1> QED BY <1>0, <1>2, <1>3

Continues(state, next, head, item) ==
  /\ next \in ReadStates
  /\ next.ok = state.ok /\ next.head = head /\ next.after = state.after
  /\ next.items = Append(state.items, item)
  /\ Len(next.items) = Len(state.items) + 1
  /\ next.items[Len(state.items) + 1] = item
  /\ \A i \in 1 .. Len(state.items) : next.items[i] = state.items[i]

LEMMA StateWith ==
  ASSUME NEW state \in ReadStates, NEW head \in Heads, NEW item \in WholeItems
  PROVE  Continues(state, With(state, head, item), head, item)
<1> DEFINE items == Append(state.items, item)
           next == [state EXCEPT !.head = head, !.items = items]
<1>1. state.items \in Seq(WholeItems)
  BY DEF ReadStates
<1>2. /\ items \in Seq(WholeItems) /\ Len(items) = Len(state.items) + 1
      /\ items[Len(state.items) + 1] = item
      /\ \A i \in 1 .. Len(state.items) : items[i] = state.items[i]
  BY <1>1, AppendProperties
<1> HIDE DEF items
<1>3. /\ next \in ReadStates
      /\ next.ok = state.ok /\ next.head = head /\ next.after = state.after
      /\ next.items = items
  BY <1>2 DEF ReadStates
<1>4. With(state, head, item) = next
  BY DEF With, items
<1> HIDE DEF next
<1>5. Continues(state, next, head, item)
  BY <1>2, <1>3 DEF Continues, items
<1> QED BY <1>4, <1>5

HasHead(state, next, head) ==
  /\ next \in ReadStates
  /\ next.ok = state.ok /\ next.head = head /\ next.after = state.after
  /\ next.items = state.items

LEMMA StateWithHead ==
  ASSUME NEW state \in ReadStates, NEW head \in Heads
  PROVE  HasHead(state, WithHead(state, head), head)
BY DEF ReadStates, WithHead, HasHead

Readable(state) ==
  /\ state \in ReadStates /\ state.ok /\ state.after = 0
  /\ Len(state.items) = state.head.seq
  /\ Fresh(state.head)

\* A recorded item with its operation: a status that holds it by ID has the
\* head's.
LEMMA ResolvedItem ==
  ASSUME NEW head \in Heads, Sane(head), NEW item \in RecordedItems, Resolvable(head, item),
         item.kind = "status" => item.value # None
  PROVE  LET whole == Resolved(head, item)
         IN /\ whole \in WholeItems /\ whole.kind = item.kind
            /\ item.kind # "status" => whole = item
            /\ item.kind = "status" =>
                 /\ item.turn \in Turns /\ item.op \in Ops
                 /\ whole.turn = item.turn /\ whole.op = item.op /\ whole.value \in FullValues
                 /\ item.value = Saved => /\ <<item.turn, item.op>> \in head.calls
                                          /\ item.op \in DOMAIN head.ops
                                          /\ whole.value = head.ops[item.op]
                 /\ item.value # Saved => whole.value = item.value /\ whole = item
<1>1. CASE item.kind = "status"
  <2>1. item \in [kind : {"status"}, turn : Turns, op : Ops, value : FullValues \cup {None, Saved}]
    BY <1>1 DEF RecordedItems
  <2>2. CASE item.value = Saved
    <3>1. <<item.turn, item.op>> \in head.calls /\ item.op \in DOMAIN head.ops
      BY <1>1, <2>2 DEF Resolvable
    <3>2. Resolved(head, item) = [item EXCEPT !.value = head.ops[item.op]]
      BY <1>1, <2>2, <3>1, Zenon DEF Resolved
    <3>3. head.ops[item.op] \in FullValues
      BY <3>1 DEF Sane
    <3> DEFINE value == head.ops[item.op]
    <3> HIDE DEF value
    <3>4. [item EXCEPT !.value = value] \in WholeItems
      BY <2>1, <3>3 DEF WholeItems, value
    <3>5. /\ [item EXCEPT !.value = value].value = value
          /\ [item EXCEPT !.value = value].turn = item.turn
          /\ [item EXCEPT !.value = value].op = item.op
          /\ [item EXCEPT !.value = value].kind = item.kind
      BY <2>1
    <3> QED BY <1>1, <2>1, <2>2, <3>1, <3>2, <3>3, <3>4, <3>5 DEF value
  <2>3. CASE item.value # Saved
    <3>1. Resolved(head, item) = item
      BY <2>3 DEF Resolved
    <3>2. item.value \in FullValues
      BY <1>1, <2>1, <2>3
    <3>3. item \in WholeItems
      BY <2>1, <3>2 DEF WholeItems
    <3> QED BY <1>1, <2>1, <2>3, <3>1, <3>2, <3>3
  <2> QED BY <2>2, <2>3
<1>2. CASE item.kind # "status"
  <2>1. Resolved(head, item) = item
    BY <1>2 DEF Resolved
  <2>2. item \in WholeItems
    BY <1>2 DEF RecordedItems, WholeItems
  <2> QED BY <1>2, <2>1, <2>2
<1> QED BY <1>1, <1>2

\* What an accepted item leaves is sane.
LEMMA AddedIsSane ==
  ASSUME NEW head \in Heads, Sane(head), Fresh(head),
         NEW item \in WholeItems, item.kind # "fork", Accepts(head, item),
         item.kind = "status" => item.value # None
  PROVE  LET next == AddItem(head, item)
         IN next \in Heads /\ next.seq = head.seq + 1 /\ Sane(next) /\ Fresh(next)
<1> DEFINE next == AddItem(head, item)
<1>0. item.kind \in {"input", "turn", "response", "status"}
  BY DEF WholeItems
<1>1. CASE item.kind = "input"
  <2>1. next \in Heads /\ next.seq = head.seq + 1 /\ Same(head, next, AllFields \ {"seq", "inputs"})
    BY <1>1, AddedInput
  <2> QED BY <2>1 DEF Same, AllFields, Sane, Fresh
<1>2. CASE item.kind = "turn"
  <2>1. /\ next \in Heads
        /\ next.seq = head.seq + 1 /\ next.latest = item.turn
        /\ next.turns = head.turns \cup {item.turn} /\ next.owned = head.owned \cup {item.turn}
        /\ Same(head, next, AllFields \ {"seq", "latest", "turns", "owned"})
    BY <1>2, AddedTurn
  <2> HIDE DEF next
  <2>2. /\ next.responded = head.responded /\ next.calls = head.calls /\ next.ops = head.ops
        /\ next.located = head.located /\ next.archived = head.archived
    BY <2>1 DEF Same, AllFields
  <2>3. Sane(next)
    BY <2>1, <2>2 DEF Sane
  <2>4. Fresh(next)
    BY <2>1, <2>2 DEF Fresh
  <2> QED BY <2>1, <2>3, <2>4 DEF next
<1>3. CASE item.kind = "response"
  <2>1. /\ next \in Heads
        /\ next.seq = head.seq + 1 /\ next.responded = head.responded \cup {item.turn}
        /\ Same(head, next, AllFields \ {"seq", "responded"})
    BY <1>3, AddedResponse
  <2>2. item.turn \in head.owned
    BY <1>3 DEF Accepts
  <2> HIDE DEF next
  <2>3. /\ next.latest = head.latest /\ next.turns = head.turns /\ next.owned = head.owned
        /\ next.calls = head.calls /\ next.ops = head.ops
        /\ next.located = head.located /\ next.archived = head.archived
    BY <2>1 DEF Same, AllFields
  <2>4. Sane(next)
    BY <2>1, <2>2, <2>3 DEF Sane
  <2>5. Fresh(next)
    BY <2>1, <2>3 DEF Fresh
  <2> QED BY <2>1, <2>4, <2>5 DEF next
<1>4. CASE item.kind = "status"
  <2> DEFINE key == <<item.turn, item.op>>
  <2>1. /\ next \in Heads
        /\ next.seq = head.seq + 1 /\ next.calls = head.calls \cup {key}
        /\ next.ops = IF key \in head.calls THEN head.ops
                      ELSE [o \in DOMAIN head.ops \cup {item.op} |->
                              IF o = item.op THEN item.value ELSE head.ops[o]]
        /\ Same(head, next, AllFields \ {"seq", "calls", "ops", "pending"})
    BY <1>4, AddedStatus
  <2>2. item.turn \in head.owned /\ item.value \in FullValues
    BY <1>4 DEF Accepts, WholeItems
  <2>3. Fresh(next)
    BY <2>1 DEF Same, AllFields, Fresh
  <2>4. /\ next.owned \subseteq next.turns
        /\ next.responded \subseteq next.owned
        /\ next.owned = head.owned
    BY <2>1 DEF Same, AllFields, Sane
  <2>5. /\ DOMAIN head.ops \subseteq DOMAIN next.ops
        /\ item.op \in DOMAIN next.ops
        /\ \A o \in DOMAIN next.ops : next.ops[o] \in FullValues
    <3>1. CASE key \in head.calls
      <4>1. item.op \in DOMAIN head.ops
        BY <3>1 DEF Sane
      <4> QED BY <2>1, <3>1, <4>1 DEF Sane
    <3>2. CASE key \notin head.calls
      <4> DEFINE ops == [o \in DOMAIN head.ops \cup {item.op} |->
                              IF o = item.op THEN item.value ELSE head.ops[o]]
      <4>1. next.ops = ops
        BY <2>1, <3>2
      <4>2. DOMAIN ops = DOMAIN head.ops \cup {item.op} /\ \A o \in DOMAIN ops : ops[o] \in FullValues
        BY <2>2 DEF Sane
      <4> QED BY <4>1, <4>2
    <3> QED BY <3>1, <3>2
  <2>6. \A call \in next.calls : call[1] \in next.owned /\ call[2] \in DOMAIN next.ops
    <3> HIDE DEF next
    <3> SUFFICES ASSUME NEW call \in head.calls \cup {key}
                 PROVE  call[1] \in next.owned /\ call[2] \in DOMAIN next.ops
      BY <2>1
    <3>1. CASE call \in head.calls
      BY <2>4, <2>5, <3>1 DEF Sane
    <3>2. CASE call = key
      BY <2>2, <2>4, <2>5, <3>2
    <3> QED BY <3>1, <3>2
  <2> HIDE DEF next
  <2>7. Sane(next)
    BY <2>4, <2>5, <2>6 DEF Sane
  <2> QED BY <2>1, <2>3, <2>7 DEF next
<1> QED BY <1>0, <1>1, <1>2, <1>3, <1>4

\* An unreadable file stays unreadable.
LEMMA NotRead ==
  ASSUME NEW state, ~state.ok, NEW record, NEW k, NEW inherited
  PROVE  DecodeRecord(state, record, k, inherited) = state
BY DEF DecodeRecord

\* What could not be read stays so.
LEMMA ReadingOk ==
  ASSUME NEW records, NEW inherited \in Nat, NEW n \in Nat, NEW m \in Nat, m <= n,
         Reading(records, inherited, n).ok
  PROVE  Reading(records, inherited, m).ok
<1> SUFFICES ASSUME ~Reading(records, inherited, m).ok PROVE FALSE
  OBVIOUS
<1> DEFINE S == {i \in Nat : ~Reading(records, inherited, m + i).ok}
<1>1. 0 \in S
  <2>1. m + 0 = m
    OBVIOUS
  <2> QED BY <2>1
<1>2. ASSUME NEW i \in Nat, i \in S PROVE i + 1 \in S
  <2>1. m + i \in Nat /\ m + (i + 1) = (m + i) + 1
    OBVIOUS
  <2>2. ~Reading(records, inherited, m + i).ok
    BY <1>2
  <2>3. Reading(records, inherited, (m + i) + 1)
          = DecodeRecord(Reading(records, inherited, m + i), records[(m + i) + 1], (m + i) + 1, inherited)
    BY <2>1, ReadingSteps
  <2>4. ~Reading(records, inherited, (m + i) + 1).ok
    BY <2>2, <2>3, NotRead
  <2> QED BY <2>1, <2>4
<1> HIDE DEF S
<1>3. n - m \in S
  <2>1. n - m \in Nat
    OBVIOUS
  <2> QED BY <1>1, <1>2, <2>1, NatSetInduction
<1>4. m + (n - m) = n
  OBVIOUS
<1> QED BY <1>3, <1>4 DEF S

LEMMA Read0IsReadable == Readable(Read0) /\ Read0.head.ops = <<>> /\ Sane(Read0.head) /\ Read0.head.seq = 0
<1> DEFINE ops == <<>>
           inputs == <<>>
           items == <<>>
           offsets == [o \in Ops |-> 0]
           head == [seq |-> 0, latest |-> None, turns |-> {}, owned |-> {}, responded |-> {},
             calls |-> {}, ops |-> ops, pending |-> {}, inputs |-> inputs,
             located |-> FALSE, offsets |-> offsets, archived |-> {}]
<1>1. /\ ops \in UNION {[O -> Values] : O \in SUBSET Ops} /\ DOMAIN ops = {}
      /\ inputs \in Seq(Prompts) /\ items \in Seq(WholeItems) /\ Len(items) = 0
      /\ offsets \in [Ops -> Nat]
  BY NoOps, EmptySeq
<1>2. NewHead = head
  BY DEF NewHead
<1> HIDE DEF ops, inputs, items, offsets
<1>3. head \in Heads /\ head.seq = 0 /\ head.ops = ops /\ Fresh(head)
  BY <1>1 DEF Heads, Fresh
<1>4. Sane(head)
  BY <1>1 DEF Sane
<1> HIDE DEF head
<1>5. Read0 = [ok |-> TRUE, head |-> head, items |-> items, after |-> 0]
  BY <1>2 DEF Read0, items
<1>6. Readable(Read0) /\ Read0.head = head
  BY <1>1, <1>3, <1>5 DEF Readable, ReadStates
<1> QED BY <1>3, <1>4, <1>6 DEF ops

\* A record of the session itself.
LEMMA ReadableOwn ==
  ASSUME NEW state, Readable(state), Sane(state.head),
         NEW record \in Records, ~IsFork(record), IsStatus(record) => record.item.value # None,
         NEW k \in Nat, NEW inherited \in Nat, k > inherited,
         DecodeRecord(state, record, k, inherited).ok
  PROVE  LET next == DecodeRecord(state, record, k, inherited)
         IN Readable(next) /\ Sane(next.head)
<1> DEFINE next == DecodeRecord(state, record, k, inherited)
<1>0. /\ state \in ReadStates /\ state.ok /\ state.after = 0 /\ state.head \in Heads
      /\ Len(state.items) = state.head.seq /\ Fresh(state.head)
  BY DEF Readable, ReadStates
<1>1. CASE IsItem(record)
  <2> DEFINE item == Resolved(state.head, record.item)
             head == AddItem(state.head, item)
  <2>1. /\ Resolvable(state.head, record.item) /\ Accepts(state.head, item)
        /\ next = With(state, head, item)
    BY <1>0, <1>1, ReadItem
  <2>2. record.item \in RecordedItems /\ record.item.kind # "fork"
    BY <1>1, RecordKinds DEF IsFork
  <2>3. record.item.kind = "status" => record.item.value # None
    BY <1>1 DEF IsStatus
  <2>4. /\ item \in WholeItems /\ item.kind = record.item.kind
        /\ item.kind = "status" => item.value \in FullValues
    BY <1>0, <2>1, <2>2, <2>3, ResolvedItem
  <2>5. item.kind = "status" => item.value # None
    BY <2>4, Marks
  <2> HIDE DEF item
  <2>6. head \in Heads /\ head.seq = state.head.seq + 1 /\ Sane(head) /\ Fresh(head)
    BY <1>0, <2>1, <2>2, <2>4, <2>5, AddedIsSane
  <2> HIDE DEF head, next
  <2>7. /\ next \in ReadStates
        /\ next.ok = state.ok /\ next.head = head /\ next.after = state.after
        /\ Len(next.items) = Len(state.items) + 1
    <3>1. Continues(state, With(state, head, item), head, item)
      BY <1>0, <2>4, <2>6, StateWith
    <3> QED BY <2>1, <3>1 DEF Continues
  <2>8. Readable(next) /\ Sane(next.head)
    BY <1>0, <2>6, <2>7 DEF Readable
  <2> QED BY <2>8 DEF next
<1>2. CASE ~IsItem(record) /\ record.type = "checkpoint"
  BY <1>0, <1>2, ReadOther
<1>3. CASE ~IsItem(record) /\ record.type = "operation"
  <2> DEFINE head == SaveOperation(state.head, record.op, record.value)
  <2>1. CanSave(state.head, record.op) /\ next = WithHead(state, head)
    BY <1>0, <1>3, ReadOther
  <2>2. record.op \in DOMAIN state.head.ops /\ record.value \in FullValues /\ record.value \in Values
    BY <1>3, <2>1, RecordKinds, Marks DEF CanSave
  <2>3. /\ head \in Heads
        /\ head.ops = [state.head.ops EXCEPT ![record.op] = record.value]
        /\ Same(state.head, head, AllFields \ {"ops"})
    <3>1. SavedTo(state.head, head, record.op, record.value)
      BY <1>0, <2>2, SavedOperation
    <3> HIDE DEF head
    <3> QED BY <3>1 DEF SavedTo
  <2> HIDE DEF head, next
  <2>4. /\ head.seq = state.head.seq /\ head.latest = state.head.latest
        /\ head.turns = state.head.turns /\ head.owned = state.head.owned
        /\ head.responded = state.head.responded /\ head.calls = state.head.calls
        /\ head.located = state.head.located /\ head.archived = state.head.archived
    BY <2>3 DEF Same, AllFields
  <2>5. DOMAIN head.ops = DOMAIN state.head.ops /\ \A o \in DOMAIN head.ops : head.ops[o] \in FullValues
    BY <2>2, <2>3 DEF Sane
  <2>6. Sane(head) /\ Fresh(head)
    BY <1>0, <2>4, <2>5 DEF Sane, Fresh
  <2>7. /\ next \in ReadStates
        /\ next.ok = state.ok /\ next.head = head /\ next.after = state.after
        /\ next.items = state.items
    BY <1>0, <2>1, <2>3, StateWithHead DEF HasHead
  <2>8. Readable(next) /\ Sane(next.head)
    BY <1>0, <2>4, <2>6, <2>7 DEF Readable
  <2> QED BY <2>8 DEF next
<1> QED BY <1>1, <1>2, <1>3, RecordKinds DEF IsItem

\* A record of another session's part: an item without its operation.
LEMMA ReadableInherited ==
  ASSUME NEW state, Readable(state), state.head.ops = <<>>,
         NEW record \in Records, IsItem(record),
         NEW k \in Nat, NEW inherited \in Nat, k <= inherited,
         DecodeRecord(state, record, k, inherited).ok
  PROVE  LET next == DecodeRecord(state, record, k, inherited)
         IN /\ Readable(next) /\ next.head.ops = <<>>
            /\ IsFork(record) => Sane(next.head)
<1> DEFINE next == DecodeRecord(state, record, k, inherited)
           head == Inherit(state.head, record.seq, record.item)
<1>0. /\ state \in ReadStates /\ state.ok /\ state.after = 0 /\ state.head \in Heads
      /\ Len(state.items) = state.head.seq /\ Fresh(state.head)
  BY DEF Readable, ReadStates
<1>1. /\ record.seq = state.head.seq + 1
      /\ record.item.kind = "status" => record.item.value = None
      /\ next = With(state, head, record.item)
  BY <1>0, ReadInherited
<1>2. record.item \in RecordedItems /\ record.seq \in Nat
  BY RecordKinds
<1>3. record.item \in WholeItems
  <2>1. record.item.kind # "status" => record.item \in WholeItems
    BY <1>2 DEF RecordedItems, WholeItems
  <2>2. record.item.kind = "status" => record.item \in WholeItems
    BY <1>1, <1>2 DEF RecordedItems, WholeItems
  <2> QED BY <2>1, <2>2
<1>4. /\ head \in Heads /\ head.seq = record.seq /\ head.ops = <<>> /\ Fresh(head)
      /\ record.item.kind = "fork" => Sane(head)
  <2>1. CASE record.item.kind = "fork"
    <3>1. /\ head \in Heads
          /\ head.seq = record.seq /\ head.ops = <<>>
          /\ head.owned = {} /\ head.responded = {} /\ head.calls = {}
          /\ ~head.located /\ head.archived = {}
          /\ Same(state.head, head, {"latest", "turns", "inputs"})
      <4>1. Forked(state.head, head, record.seq)
        BY <1>0, <1>2, <2>1, InheritedFork
      <4> HIDE DEF head
      <4> QED BY <4>1 DEF Forked
    <3> HIDE DEF head
    <3>2. head.latest = state.head.latest /\ head.turns = state.head.turns
      BY <3>1 DEF Same
    <3>3. Fresh(head)
      BY <1>0, <3>1, <3>2 DEF Fresh
    <3>4. Sane(head)
      <4>1. DOMAIN head.ops = {}
        BY <3>1, NoOps
      <4> QED BY <3>1, <4>1 DEF Sane
    <3> QED BY <3>1, <3>3, <3>4
  <2>2. CASE record.item.kind # "fork"
    <3>1. /\ head \in Heads
          /\ head.seq = record.seq
          /\ state.head.latest \in state.head.turns \cup {None} => head.latest \in head.turns \cup {None}
          /\ Same(state.head, head, {"ops", "located", "offsets", "archived"})
      BY <1>0, <1>2, <1>3, <2>2, InheritedItem
    <3> HIDE DEF head
    <3> QED BY <1>0, <2>2, <3>1 DEF Same, Fresh
  <2> QED BY <2>1, <2>2
<1> HIDE DEF head, next
<1>5. /\ next \in ReadStates
      /\ next.ok = state.ok /\ next.head = head /\ next.after = state.after
      /\ Len(next.items) = Len(state.items) + 1
  <2>1. Continues(state, With(state, head, record.item), head, record.item)
    BY <1>0, <1>3, <1>4, StateWith
  <2> QED BY <1>1, <2>1 DEF Continues
<1>6. Readable(next) /\ next.head.ops = <<>> /\ (IsFork(record) => Sane(next.head))
  BY <1>0, <1>1, <1>4, <1>5 DEF Readable, IsFork
<1> QED BY <1>6 DEF next

\* What Legible says, of the readings of the file.
Parts(records, f, n) ==
  /\ n \in Nat /\ f \in Nat /\ f \in 0 .. n /\ n = Len(records) /\ f = LastFork(records)
  /\ \A k \in 1 .. n : records[k] \in Records
  /\ f # 0 => IsFork(records[f])
  /\ \A k \in 1 .. f : IsItem(records[k])
  /\ \A k \in f + 1 .. n :
       /\ ~IsFork(records[k])
       /\ Follows(records[k], Reading(records, f, k - 1).head, records, k)
  /\ DecodeLog(records) = Reading(records, f, n)
  /\ Reading(records, f, n).ok

\* What is known of a legible file, record by record.
LEMMA LegibleParts ==
  ASSUME NEW records \in Seq(Records), Legible(records)
  PROVE  Parts(records, LastFork(records), Len(records))
<1> DEFINE f == LastFork(records)
           n == Len(records)
<1>1. n \in Nat /\ \A k \in 1 .. n : records[k] \in Records
  BY LenProperties, ElementOfSeq
<1>2. /\ f \in 0 .. n
      /\ f # 0 => IsFork(records[f])
      /\ \A k \in 1 .. n : IsFork(records[k]) => k <= f
  BY <1>1, ForkPlace
<1>3. DecodeLog(records) = Reading(records, f, n)
  BY DecodeIsReading
<1>4. /\ DecodeLog(records).ok
      /\ \A k \in 1 .. f : IsItem(records[k])
      /\ \A k \in f + 1 .. n : Follows(records[k], DecodeLog(SubSeq(records, 1, k - 1)).head, records, k)
  BY DEF Legible
<1> HIDE DEF f, n
<1>5. ASSUME NEW k \in f + 1 .. n
      PROVE  ~IsFork(records[k]) /\ Follows(records[k], Reading(records, f, k - 1).head, records, k)
  <2>1. k \in 1 .. n /\ k - 1 \in Nat /\ k - 1 <= n /\ f <= k - 1 /\ ~(k <= f)
    BY <1>1, <1>2
  <2>2. DecodeLog(SubSeq(records, 1, k - 1)) = Reading(records, f, k - 1)
    BY <2>1, PrefixIsReading DEF f, n
  <2> QED BY <1>2, <1>4, <2>1, <2>2
<1>6. Parts(records, f, n)
  BY <1>1, <1>2, <1>3, <1>4, <1>5 DEF Parts, f, n
<1> QED BY <1>6 DEF f, n

\* A reading of the first n records, whatever they are.
Read(records, f, n) ==
  LET state == Reading(records, f, n)
  IN /\ Readable(state)
     /\ n <= f => state.head.ops = <<>>
     /\ n >= f => Sane(state.head)

\* Every part of a legible file is read to a state that is sound.
LEMMA ReadingIsReadable ==
  ASSUME NEW records \in Seq(Records), Legible(records), NEW m \in 0 .. Len(records)
  PROVE  Read(records, LastFork(records), m)
<1> DEFINE f == LastFork(records)
           n == Len(records)
           S == {k \in Nat : k <= n => Read(records, f, k)}
<1>0. Parts(records, f, n)
  BY LegibleParts
<1> HIDE DEF f, n
<1>a. n \in Nat /\ f \in Nat /\ f <= n /\ Reading(records, f, n).ok
  BY <1>0 DEF Parts
<1>1. 0 \in S
  <2>1. Reading(records, f, 0) = Read0
    BY <1>a, ReadingSteps
  <2>2. Read(records, f, 0)
    BY <1>a, <2>1, Read0IsReadable DEF Read
  <2> QED BY <2>2
<1>2. ASSUME NEW k \in Nat, k \in S PROVE k + 1 \in S
  <2> SUFFICES ASSUME k + 1 <= n PROVE Read(records, f, k + 1)
    OBVIOUS
  <2> DEFINE state == Reading(records, f, k)
             next == Reading(records, f, k + 1)
             record == records[k + 1]
  <2>1. Read(records, f, k)
    BY <1>2, <1>a
  <2>2. next = DecodeRecord(state, record, k + 1, f)
    BY <1>a, ReadingSteps
  <2>3. next.ok
    BY <1>a, ReadingOk
  <2>4. k + 1 \in 1 .. n /\ record \in Records
    <3>1. k + 1 \in 1 .. n
      BY <1>a
    <3> QED BY <1>0, <3>1 DEF Parts
  <2>5. /\ Readable(state)
        /\ k <= f => state.head.ops = <<>>
        /\ k >= f => Sane(state.head)
    BY <2>1 DEF Read
  <2> HIDE DEF state, next, record
  <2>6. CASE k + 1 <= f
    <3>1. k + 1 \in 1 .. f /\ k <= f /\ (k + 1 >= f => k + 1 = f)
      BY <1>a, <2>6
    <3>2. IsItem(record) /\ (k + 1 = f => IsFork(record))
      BY <1>0, <3>1 DEF Parts, record
    <3>3. Readable(next) /\ next.head.ops = <<>> /\ (IsFork(record) => Sane(next.head))
      BY <1>a, <2>2, <2>3, <2>4, <2>5, <2>6, <3>1, <3>2, ReadableInherited
    <3> QED BY <3>1, <3>2, <3>3 DEF Read, next
  <2>7. CASE k + 1 > f
    <3>1. k + 1 \in f + 1 .. n /\ k >= f /\ ~(k + 1 <= f)
      BY <1>a, <2>4, <2>7
    <3>2. ~IsFork(record) /\ Follows(record, Reading(records, f, (k + 1) - 1).head, records, k + 1)
      BY <1>0, <3>1 DEF Parts, record
    <3>3. IsStatus(record) => record.item.value # None
      BY <3>2 DEF Follows
    <3>4. Readable(next) /\ Sane(next.head)
      BY <1>a, <2>2, <2>3, <2>4, <2>5, <2>7, <3>1, <3>2, <3>3, ReadableOwn
    <3> QED BY <3>1, <3>4 DEF Read, next
  <2> QED BY <1>a, <2>6, <2>7
<1> HIDE DEF S
<1>3. m \in Nat /\ m <= n
  BY DEF n
<1>4. m \in S
  BY <1>1, <1>2, <1>3, NatSetInduction
<1> QED BY <1>3, <1>4 DEF S, f

-----------------------------------------------------------------------------
(* Heads that stand for others *)

Equal(head, whole) ==
  /\ head.seq = whole.seq /\ head.latest = whole.latest
  /\ head.turns = whole.turns /\ head.owned = whole.owned /\ head.responded = whole.responded
  /\ head.calls = whole.calls /\ head.pending = whole.pending /\ head.inputs = whole.inputs

LEMMA MirrorIsEqual ==
  ASSUME NEW head, NEW whole
  PROVE  (\A field \in HeadFields : head[field] = whole[field]) <=> Equal(head, whole)
BY DEF HeadFields, Equal

MirroredOps(head, whole) ==
  \A o \in DOMAIN head.ops :
       IF o \in head.archived
       THEN /\ Finished(whole.ops[o]) /\ o \notin whole.pending
            /\ head.ops[o] = [whole.ops[o] EXCEPT !.state = Bare]
       ELSE head.ops[o] = whole.ops[o]

MirroredPlaces(head, whole, records, n) ==
  IF head.located
  THEN \A o \in Ops :
         IF o \in DOMAIN head.ops
         THEN head.offsets[o] \in 1..n /\ Holds(records[head.offsets[o]], o, whole.ops[o])
         ELSE head.offsets[o] = 0
  ELSE head.archived = {}

LEMMA MirrorsIs ==
  ASSUME NEW head, NEW whole, NEW records, NEW n
  PROVE  Mirrors(head, whole, records, n) <=>
           /\ Equal(head, whole)
           /\ DOMAIN head.ops = DOMAIN whole.ops
           /\ head.archived \subseteq DOMAIN head.ops
           /\ MirroredOps(head, whole)
           /\ MirroredPlaces(head, whole, records, n)
BY MirrorIsEqual DEF Mirrors, MirroredOps, MirroredPlaces

\* A head of n records of a file, and that of all they hold.
Mirroring(head, whole, records, n) ==
  /\ head \in Heads /\ whole \in Heads /\ Sane(whole) /\ Fresh(whole) /\ n \in Nat
  /\ Equal(head, whole)
  /\ DOMAIN head.ops = DOMAIN whole.ops
  /\ head.archived \subseteq DOMAIN head.ops
  /\ MirroredOps(head, whole)
  /\ MirroredPlaces(head, whole, records, n)

\* Mirrors, with the types of the heads, in parts.
LEMMA MirroringIs ==
  ASSUME NEW head \in Heads, NEW whole \in Heads, Sane(whole), Fresh(whole), NEW records, NEW n \in Nat
  PROVE  Mirrors(head, whole, records, n) <=> Mirroring(head, whole, records, n)
BY MirrorsIs DEF Mirroring

\* Heads that are alike accept the same items.
LEMMA AcceptsAlike ==
  ASSUME NEW head, NEW whole, Equal(head, whole), DOMAIN head.ops = DOMAIN whole.ops, NEW item
  PROVE  Accepts(head, item) = Accepts(whole, item)
BY DEF Accepts, Equal

LEMMA AddedAlike ==
  ASSUME NEW head \in Heads, NEW whole \in Heads, Equal(head, whole),
         NEW item \in WholeItems, item.kind # "fork", item.kind = "status" => item.value # None
  PROVE  Equal(AddItem(head, item), AddItem(whole, item))
<1> DEFINE a == AddItem(head, item)
           b == AddItem(whole, item)
<1>0. item.kind \in {"input", "turn", "response", "status"}
  BY DEF WholeItems
<1>1. CASE item.kind = "input"
  <2>1. /\ a.seq = head.seq + 1
        /\ a.inputs = IF item.id \in Prompts THEN Append(head.inputs, item.id) ELSE head.inputs
        /\ Same(head, a, AllFields \ {"seq", "inputs"})
    BY <1>1, AddedInput
  <2>2. /\ b.seq = whole.seq + 1
        /\ b.inputs = IF item.id \in Prompts THEN Append(whole.inputs, item.id) ELSE whole.inputs
        /\ Same(whole, b, AllFields \ {"seq", "inputs"})
    BY <1>1, AddedInput
  <2> HIDE DEF a, b
  <2>3. Equal(a, b)
    BY <2>1, <2>2 DEF Same, AllFields, Equal
  <2> QED BY <2>3 DEF a, b
<1>2. CASE item.kind = "turn"
  <2>1. /\ a.seq = head.seq + 1 /\ a.latest = item.turn
        /\ a.turns = head.turns \cup {item.turn} /\ a.owned = head.owned \cup {item.turn}
        /\ Same(head, a, AllFields \ {"seq", "latest", "turns", "owned"})
    BY <1>2, AddedTurn
  <2>2. /\ b.seq = whole.seq + 1 /\ b.latest = item.turn
        /\ b.turns = whole.turns \cup {item.turn} /\ b.owned = whole.owned \cup {item.turn}
        /\ Same(whole, b, AllFields \ {"seq", "latest", "turns", "owned"})
    BY <1>2, AddedTurn
  <2> HIDE DEF a, b
  <2>3. Equal(a, b)
    BY <2>1, <2>2 DEF Same, AllFields, Equal
  <2> QED BY <2>3 DEF a, b
<1>3. CASE item.kind = "response"
  <2>1. /\ a.seq = head.seq + 1 /\ a.responded = head.responded \cup {item.turn}
        /\ Same(head, a, AllFields \ {"seq", "responded"})
    BY <1>3, AddedResponse
  <2>2. /\ b.seq = whole.seq + 1 /\ b.responded = whole.responded \cup {item.turn}
        /\ Same(whole, b, AllFields \ {"seq", "responded"})
    BY <1>3, AddedResponse
  <2> HIDE DEF a, b
  <2>3. Equal(a, b)
    BY <2>1, <2>2 DEF Same, AllFields, Equal
  <2> QED BY <2>3 DEF a, b
<1>4. CASE item.kind = "status"
  <2> DEFINE key == <<item.turn, item.op>>
  <2>1. /\ a.seq = head.seq + 1 /\ a.calls = head.calls \cup {key}
        /\ a.pending = IF Finished(item.value) THEN head.pending \ {item.op}
                          ELSE head.pending \cup {item.op}
        /\ Same(head, a, AllFields \ {"seq", "calls", "ops", "pending"})
    BY <1>4, AddedStatus
  <2>2. /\ b.seq = whole.seq + 1 /\ b.calls = whole.calls \cup {key}
        /\ b.pending = IF Finished(item.value) THEN whole.pending \ {item.op}
                          ELSE whole.pending \cup {item.op}
        /\ Same(whole, b, AllFields \ {"seq", "calls", "ops", "pending"})
    BY <1>4, AddedStatus
  <2> HIDE DEF a, b
  <2>3. Equal(a, b)
    BY <2>1, <2>2 DEF Same, AllFields, Equal
  <2> QED BY <2>3 DEF a, b
<1> QED BY <1>0, <1>1, <1>2, <1>3, <1>4

\* What an item leaves of where and what the operations are.
LEMMA AddedElsewhere ==
  ASSUME NEW head \in Heads, NEW item \in WholeItems, item.kind \in {"input", "turn", "response"}
  PROVE  /\ AddItem(head, item) \in Heads
         /\ Same(head, AddItem(head, item), {"ops", "pending", "located", "offsets", "archived"})
<1>1. item.kind = "input" => Same(head, AddItem(head, item), AllFields \ {"seq", "inputs"})
                             /\ AddItem(head, item) \in Heads
  BY AddedInput
<1>2. item.kind = "turn" => Same(head, AddItem(head, item), AllFields \ {"seq", "latest", "turns", "owned"})
                             /\ AddItem(head, item) \in Heads
  BY AddedTurn
<1>3. item.kind = "response" => Same(head, AddItem(head, item), AllFields \ {"seq", "responded"})
                             /\ AddItem(head, item) \in Heads
  BY AddedResponse
<1> QED BY <1>1, <1>2, <1>3 DEF Same, AllFields

\* The same head, but for where its operations are.
LEMMA NotedNothing ==
  ASSUME NEW head, NEW record, NEW offset, IsItem(record), record.item.kind # "status"
  PROVE  NoteRecord(head, record, offset) = head
<1>1. CASE ~head.located
  BY <1>1 DEF NoteRecord
<1>2. CASE head.located
  BY <1>2 DEF NoteRecord, IsItem
<1> QED BY <1>1, <1>2

Placed(head, o, offset) == [head EXCEPT !.offsets[o] = offset]

PlacedAt(head, next, o, offset) ==
  /\ next \in Heads /\ next.offsets = [head.offsets EXCEPT ![o] = offset]
  /\ Same(head, next, AllFields \ {"offsets"})

LEMMA NotedHead ==
  ASSUME NEW head \in Heads, NEW o \in Ops, NEW offset \in Nat
  PROVE  PlacedAt(head, Placed(head, o, offset), o, offset)
<1> DEFINE offsets == [head.offsets EXCEPT ![o] = offset]
           next == [head EXCEPT !.offsets = offsets]
<1>1. Placed(head, o, offset) = next
  BY DEF Placed
<1>2. offsets \in [Ops -> Nat]
  BY HeadParts
<1> HIDE DEF offsets
<1>3. next \in Heads /\ next.offsets = offsets /\ Same(head, next, AllFields \ {"offsets"})
  BY <1>2 DEF Heads, Same, AllFields
<1> HIDE DEF next
<1>4. PlacedAt(head, next, o, offset)
  BY <1>3 DEF PlacedAt, offsets
<1> QED BY <1>1, <1>4

\* Places of n records are places of more.
LEMMA MorePlaces ==
  ASSUME NEW head, NEW whole, NEW records, NEW n \in Nat, MirroredPlaces(head, whole, records, n)
  PROVE  MirroredPlaces(head, whole, records, n + 1)
<1>1. \A k \in 1 .. n : k \in 1 .. n + 1
  OBVIOUS
<1> QED BY <1>1 DEF MirroredPlaces

\* A head that stands for another still does when the same item is added to both.
LEMMA MirrorsItem ==
  ASSUME NEW head, NEW whole, NEW records, NEW n, Mirroring(head, whole, records, n),
         NEW item \in WholeItems, item.kind \in {"input", "turn", "response"}, Accepts(whole, item)
  PROVE  Mirroring(AddItem(head, item), AddItem(whole, item), records, n + 1)
<1> DEFINE a == AddItem(head, item)
           b == AddItem(whole, item)
<1>0. /\ head \in Heads /\ whole \in Heads /\ Sane(whole) /\ Fresh(whole) /\ n \in Nat
      /\ Equal(head, whole)
      /\ DOMAIN head.ops = DOMAIN whole.ops
      /\ head.archived \subseteq DOMAIN head.ops
      /\ MirroredOps(head, whole)
      /\ MirroredPlaces(head, whole, records, n)
  BY DEF Mirroring
<1>1. a \in Heads /\ Same(head, a, {"ops", "pending", "located", "offsets", "archived"})
  BY <1>0, AddedElsewhere
<1>2. b \in Heads /\ Same(whole, b, {"ops", "pending", "located", "offsets", "archived"})
  BY <1>0, AddedElsewhere
<1>3. Sane(b) /\ Fresh(b)
  BY <1>0, AddedIsSane
<1>4. Equal(a, b)
  BY <1>0, AddedAlike
<1> HIDE DEF a, b
<1>5. /\ a.ops = head.ops /\ a.located = head.located /\ a.offsets = head.offsets
      /\ a.archived = head.archived
      /\ b.ops = whole.ops /\ b.pending = whole.pending
  BY <1>1, <1>2 DEF Same
<1>6. MirroredOps(a, b)
  BY <1>0, <1>5 DEF MirroredOps
<1>7. MirroredPlaces(a, b, records, n + 1)
  <2>1. MirroredPlaces(head, whole, records, n + 1)
    BY <1>0, MorePlaces
  <2> QED BY <1>5, <2>1 DEF MirroredPlaces
<1>8. Mirroring(a, b, records, n + 1)
  BY <1>0, <1>1, <1>2, <1>3, <1>4, <1>5, <1>6, <1>7 DEF Mirroring
<1> QED BY <1>8 DEF a, b

\* A status, its operation as the whole history has it, that the store adds.
LEMMA MirrorsStatus ==
  ASSUME NEW head, NEW whole, NEW records, NEW n, Mirroring(head, whole, records, n),
         NEW record \in Records, record = records[n + 1], IsStatus(record),
         Follows(record, whole, records, n + 1), Resolvable(whole, record.item),
         NEW item \in WholeItems, item = Resolved(whole, record.item), Accepts(whole, item)
  PROVE  /\ Mirroring(NoteRecord(AddItem(head, item), record, n + 1), AddItem(whole, item),
                      records, n + 1)
         /\ NoteRecord(AddItem(head, item), record, n + 1).located = head.located
<1> DEFINE a == AddItem(head, item)
           b == AddItem(whole, item)
           c == NoteRecord(a, record, n + 1)
           key == <<item.turn, item.op>>
           op == item.op
<1>0. /\ head \in Heads /\ whole \in Heads /\ Sane(whole) /\ Fresh(whole) /\ n \in Nat
      /\ Equal(head, whole)
      /\ DOMAIN head.ops = DOMAIN whole.ops
      /\ head.archived \subseteq DOMAIN head.ops
      /\ MirroredOps(head, whole)
      /\ MirroredPlaces(head, whole, records, n)
  BY DEF Mirroring
<1>a. IsItem(record) /\ record.item.kind = "status" /\ record.item \in RecordedItems
  BY RecordKinds DEF IsStatus
<1>b. /\ record.item.value # None
      /\ <<record.item.turn, record.item.op>> \in whole.calls =>
            /\ Finished(whole.ops[record.item.op])
            /\ record.item.value = Saved \/ Finished(record.item.value)
  BY DEF Follows
<1>c. /\ item.kind = "status" /\ item.turn \in Turns /\ op \in Ops
      /\ record.item.turn = item.turn /\ record.item.op = op /\ item.value \in FullValues
      /\ record.item.value = Saved => /\ key \in whole.calls /\ op \in DOMAIN whole.ops
                                      /\ item.value = whole.ops[op]
      /\ record.item.value # Saved => item.value = record.item.value
  BY <1>0, <1>a, <1>b, ResolvedItem
<1>d. item.value # None /\ item.kind # "fork" /\ item.value \in Values
  BY <1>c, Marks
<1>1. /\ a \in Heads
      /\ a.ops = IF key \in head.calls THEN head.ops
                 ELSE [o \in DOMAIN head.ops \cup {op} |-> IF o = op THEN item.value ELSE head.ops[o]]
      /\ Same(head, a, AllFields \ {"seq", "calls", "ops", "pending"})
  BY <1>0, <1>c, <1>d, AddedStatus
<1>2. /\ b \in Heads
      /\ b.ops = IF key \in whole.calls THEN whole.ops
                 ELSE [o \in DOMAIN whole.ops \cup {op} |-> IF o = op THEN item.value ELSE whole.ops[o]]
      /\ b.pending = IF Finished(item.value) THEN whole.pending \ {op} ELSE whole.pending \cup {op}
  BY <1>0, <1>c, <1>d, AddedStatus
<1>3. Sane(b) /\ Fresh(b)
  BY <1>0, <1>d, AddedIsSane
<1>4. Equal(a, b)
  BY <1>0, <1>d, AddedAlike
<1>5. /\ a.located = head.located /\ a.offsets = head.offsets /\ a.archived = head.archived
      /\ key \in head.calls <=> key \in whole.calls
  <2>1. a.located = head.located /\ a.offsets = head.offsets /\ a.archived = head.archived
    BY <1>1 DEF Same, AllFields
  <2>2. head.calls = whole.calls
    BY <1>0 DEF Equal
  <2> QED BY <2>1, <2>2
<1>6. key \in whole.calls => op \in DOMAIN whole.ops /\ Finished(item.value)
  <2> SUFFICES ASSUME key \in whole.calls PROVE op \in DOMAIN whole.ops /\ Finished(item.value)
    OBVIOUS
  <2>1. op \in DOMAIN whole.ops
    BY <1>0 DEF Sane
  <2>2. Finished(item.value)
    BY <1>b, <1>c
  <2> QED BY <2>1, <2>2
<1>7. key \notin whole.calls => op \notin DOMAIN whole.ops /\ record.item.value # Saved
  BY <1>c, <1>d DEF Accepts
<1>8. op \in DOMAIN a.ops
  BY <1>0, <1>1, <1>5, <1>6
<1>9. /\ DOMAIN a.ops = DOMAIN b.ops /\ DOMAIN head.ops \subseteq DOMAIN a.ops
      /\ DOMAIN a.ops = DOMAIN head.ops \cup {op}
      /\ \A o \in DOMAIN head.ops : a.ops[o] = head.ops[o] /\ b.ops[o] = whole.ops[o]
      /\ key \notin whole.calls => a.ops[op] = item.value /\ b.ops[op] = item.value
  <2>1. CASE key \in whole.calls
    BY <1>0, <1>1, <1>2, <1>5, <1>6, <2>1
  <2>2. CASE key \notin whole.calls
    <3> DEFINE aops == [o \in DOMAIN head.ops \cup {op} |-> IF o = op THEN item.value ELSE head.ops[o]]
               bops == [o \in DOMAIN whole.ops \cup {op} |-> IF o = op THEN item.value ELSE whole.ops[o]]
    <3>1. a.ops = aops /\ b.ops = bops
      BY <1>1, <1>2, <1>5, <2>2
    <3>2. op \notin DOMAIN head.ops
      BY <1>0, <1>7, <2>2
    <3>3. /\ DOMAIN aops = DOMAIN head.ops \cup {op} /\ DOMAIN bops = DOMAIN whole.ops \cup {op}
          /\ \A o \in DOMAIN head.ops : aops[o] = head.ops[o]
          /\ \A o \in DOMAIN whole.ops : bops[o] = whole.ops[o]
          /\ aops[op] = item.value /\ bops[op] = item.value
      BY <1>0, <3>2
    <3> HIDE DEF aops, bops
    <3> QED BY <1>0, <3>1, <3>3
  <2> QED BY <2>1, <2>2
<1> HIDE DEF a, b
<1>10. MirroredOps(a, b)
  <2> SUFFICES ASSUME NEW o \in DOMAIN a.ops
               PROVE  IF o \in a.archived
                      THEN /\ Finished(b.ops[o]) /\ o \notin b.pending
                           /\ a.ops[o] = [b.ops[o] EXCEPT !.state = Bare]
                      ELSE a.ops[o] = b.ops[o]
    BY DEF MirroredOps
  <2>1. CASE o \in DOMAIN head.ops
    <3>1. a.ops[o] = head.ops[o] /\ b.ops[o] = whole.ops[o]
      BY <1>9, <2>1
    <3>2. IF o \in head.archived
          THEN /\ Finished(whole.ops[o]) /\ o \notin whole.pending
               /\ head.ops[o] = [whole.ops[o] EXCEPT !.state = Bare]
          ELSE head.ops[o] = whole.ops[o]
      BY <1>0, <2>1 DEF MirroredOps
    <3>3. o \notin whole.pending => o \notin b.pending
      <4>1. CASE key \in whole.calls
        BY <1>2, <1>6, <4>1
      <4>2. CASE key \notin whole.calls
        <5>1. o # op
          BY <1>0, <1>7, <2>1, <4>2
        <5> QED BY <1>2, <5>1
      <4> QED BY <4>1, <4>2
    <3> QED BY <1>5, <3>1, <3>2, <3>3
  <2>2. CASE o \notin DOMAIN head.ops
    <3>1. o = op /\ o \notin a.archived
      BY <1>0, <1>5, <1>9, <2>2
    <3>2. key \notin whole.calls
      BY <1>0, <1>6, <2>2, <3>1
    <3> QED BY <1>9, <3>1, <3>2
  <2> QED BY <2>1, <2>2
<1>11. /\ c \in Heads /\ Same(a, c, AllFields \ {"offsets"})
       /\ MirroredPlaces(c, b, records, n + 1)
  <2>1. CASE ~head.located
    <3>1. c = a
      BY <1>5, <2>1 DEF NoteRecord
    <3>2. a.archived = {}
      BY <1>0, <1>5, <2>1 DEF MirroredPlaces
    <3> QED BY <1>1, <1>5, <2>1, <3>1, <3>2 DEF Same, MirroredPlaces
  <2>2. CASE head.located
    <3>0. \A o \in Ops : IF o \in DOMAIN head.ops
            THEN head.offsets[o] \in 1..n /\ Holds(records[head.offsets[o]], o, whole.ops[o])
            ELSE head.offsets[o] = 0
      BY <1>0, <2>2 DEF MirroredPlaces
    <3>1. \A o \in DOMAIN head.ops : head.offsets[o] # 0 /\ head.offsets[o] \in 1 .. n + 1 /\ o \in Ops
      <4>1. DOMAIN head.ops \subseteq Ops
        BY <1>0, OpsType
      <4>2. \A i \in 1 .. n : i # 0 /\ i \in 1 .. n + 1
        BY <1>0
      <4> QED BY <3>0, <4>1, <4>2
    <3>2. CASE key \in whole.calls
      <4>1. op \in DOMAIN head.ops
        BY <1>0, <1>6, <3>2
      <4>2. a.offsets[op] # 0
        BY <1>5, <3>1, <4>1
      <4>3. c = a
        BY <1>a, <1>c, <4>2, Zenon DEF NoteRecord, IsItem
      <4>4. DOMAIN a.ops = DOMAIN head.ops
        BY <1>9, <4>1
      <4>5. MirroredPlaces(a, b, records, n + 1)
        BY <1>5, <1>9, <2>2, <3>0, <3>1, <4>4 DEF MirroredPlaces
      <4> QED BY <1>1, <4>3, <4>5 DEF Same
    <3>3. CASE key \notin whole.calls
      <4>1. op \notin DOMAIN head.ops /\ record.item.value \notin {None, Saved}
        BY <1>0, <1>7, <1>b, <3>3
      <4>2. a.offsets[op] = 0
        BY <1>5, <1>c, <3>0, <4>1
      <4>3. c = Placed(a, op, n + 1)
        <5>1. record.type # "operation" /\ a.located /\ op = record.item.op
          BY <1>5, <1>a, <1>c, <2>2 DEF IsItem
        <5> QED BY <1>8, <1>a, <4>1, <4>2, <5>1, Zenon DEF NoteRecord, Placed
      <4>4. /\ c \in Heads /\ c.offsets = [a.offsets EXCEPT ![op] = n + 1]
            /\ Same(a, c, AllFields \ {"offsets"})
        <5>1. n + 1 \in Nat
          BY <1>0
        <5>2. PlacedAt(a, Placed(a, op, n + 1), op, n + 1)
          BY <1>1, <1>c, <5>1, NotedHead
        <5> QED BY <4>3, <5>2 DEF PlacedAt
      <4> HIDE DEF c
      <4>5. c.located = head.located /\ c.ops = a.ops
        BY <1>5, <4>4 DEF Same, AllFields
      <4>6. /\ c.offsets[op] = n + 1
            /\ \A o \in Ops : o # op => c.offsets[o] = head.offsets[o]
        <5>1. a.offsets \in [Ops -> Nat]
          BY <1>1, HeadParts
        <5> QED BY <1>5, <1>c, <4>4, <5>1
      <4>7. n + 1 \in 1 .. n + 1 /\ Holds(records[n + 1], op, b.ops[op])
        <5>1. n + 1 \in 1 .. n + 1
          BY <1>0
        <5>2. record.item.value = item.value /\ b.ops[op] = item.value
          BY <1>7, <1>9, <1>c, <3>3
        <5> QED BY <1>c, <5>1, <5>2 DEF Holds
      <4>8. MirroredPlaces(c, b, records, n + 1)
        <5> SUFFICES ASSUME NEW o \in Ops
                     PROVE  IF o \in DOMAIN c.ops
                            THEN c.offsets[o] \in 1..n + 1 /\ Holds(records[c.offsets[o]], o, b.ops[o])
                            ELSE c.offsets[o] = 0
          BY <2>2, <4>5 DEF MirroredPlaces
        <5>1. CASE o = op
          BY <1>8, <4>5, <4>6, <4>7, <5>1
        <5>2. CASE o # op
          <6>1. c.offsets[o] = head.offsets[o] /\ (o \in DOMAIN c.ops <=> o \in DOMAIN head.ops)
            BY <1>9, <4>5, <4>6, <5>2
          <6> QED BY <1>9, <3>0, <3>1, <6>1
        <5> QED BY <5>1, <5>2
      <4> QED BY <4>4, <4>8
    <3> QED BY <3>2, <3>3
  <2> QED BY <2>1, <2>2
<1> HIDE DEF c
<1>12. /\ c.ops = a.ops /\ c.archived = a.archived /\ c.located = a.located
       /\ Equal(c, b) /\ MirroredOps(c, b)
  BY <1>4, <1>10, <1>11 DEF Same, AllFields, Equal, MirroredOps
<1>13. Mirroring(c, b, records, n + 1)
  BY <1>0, <1>2, <1>3, <1>5, <1>9, <1>11, <1>12 DEF Mirroring
<1> QED BY <1>5, <1>12, <1>13 DEF a, b, c

\* Where an operation is now, in whole.
Moved(head, o, offset) == [head EXCEPT !.offsets[o] = offset, !.archived = @ \ {o}]

MovedTo(head, next, o, offset) ==
  /\ next \in Heads /\ next.offsets = [head.offsets EXCEPT ![o] = offset]
  /\ next.archived = head.archived \ {o}
  /\ Same(head, next, AllFields \ {"offsets", "archived"})

LEMMA MovedHead ==
  ASSUME NEW head \in Heads, NEW o \in Ops, NEW offset \in Nat
  PROVE  MovedTo(head, Moved(head, o, offset), o, offset)
<1> DEFINE offsets == [head.offsets EXCEPT ![o] = offset]
           archived == head.archived \ {o}
           next == [head EXCEPT !.offsets = offsets, !.archived = archived]
<1>1. Moved(head, o, offset) = next
  BY DEF Moved, Heads
<1>2. offsets \in [Ops -> Nat] /\ archived \subseteq Ops
  BY HeadParts
<1> HIDE DEF offsets, archived
<1>3. /\ next \in Heads /\ next.offsets = offsets /\ next.archived = archived
      /\ Same(head, next, AllFields \ {"offsets", "archived"})
  BY <1>2 DEF Heads, Same, AllFields
<1> HIDE DEF next
<1>4. MovedTo(head, next, o, offset)
  BY <1>3 DEF MovedTo, offsets, archived
<1> QED BY <1>1, <1>4

LEMMA SavedIsSane ==
  ASSUME NEW whole \in Heads, Sane(whole), Fresh(whole), NEW op \in DOMAIN whole.ops,
         NEW value \in FullValues
  PROVE  /\ SaveOperation(whole, op, value) \in Heads
         /\ Sane(SaveOperation(whole, op, value)) /\ Fresh(SaveOperation(whole, op, value))
<1> DEFINE next == SaveOperation(whole, op, value)
<1>1. /\ next \in Heads
      /\ next.ops = [whole.ops EXCEPT ![op] = value]
      /\ Same(whole, next, AllFields \ {"ops"})
  <2>1. SavedTo(whole, next, op, value)
    BY SavedOperation, Marks
  <2> HIDE DEF next
  <2> QED BY <2>1 DEF SavedTo
<1> HIDE DEF next
<1>2. /\ next.latest = whole.latest
      /\ next.turns = whole.turns /\ next.owned = whole.owned
      /\ next.responded = whole.responded /\ next.calls = whole.calls
      /\ next.located = whole.located /\ next.archived = whole.archived
  BY <1>1 DEF Same, AllFields
<1>3. DOMAIN next.ops = DOMAIN whole.ops /\ \A o \in DOMAIN next.ops : next.ops[o] \in FullValues
  BY <1>1 DEF Sane
<1>4. Sane(next) /\ Fresh(next)
  BY <1>2, <1>3 DEF Sane, Fresh
<1> QED BY <1>1, <1>4 DEF next

SaveMirrored(head, whole, records, n, record) ==
  LET next == NoteRecord(SaveOperation(head, record.op, record.value), record, n + 1)
  IN /\ Mirroring(next, SaveOperation(whole, record.op, record.value), records, n + 1)
     /\ next.located = head.located

\* And when the same operation is saved to both.
LEMMA MirrorsOperation ==
  ASSUME NEW head, NEW whole, NEW records, NEW n, Mirroring(head, whole, records, n),
         NEW record \in Records, record = records[n + 1], record.type = "operation",
         CanSave(whole, record.op)
  PROVE  SaveMirrored(head, whole, records, n, record)
<1> DEFINE op == record.op
           value == record.value
           a == SaveOperation(head, op, value)
           b == SaveOperation(whole, op, value)
           c == NoteRecord(a, record, n + 1)
<1>0. /\ head \in Heads /\ whole \in Heads /\ Sane(whole) /\ Fresh(whole) /\ n \in Nat
      /\ Equal(head, whole)
      /\ DOMAIN head.ops = DOMAIN whole.ops
      /\ head.archived \subseteq DOMAIN head.ops
      /\ MirroredOps(head, whole)
      /\ MirroredPlaces(head, whole, records, n)
  BY DEF Mirroring
<1>a. /\ op \in Ops /\ value \in FullValues /\ value \in Values
      /\ op \in DOMAIN head.ops /\ op \in DOMAIN whole.ops
  BY <1>0, RecordKinds, Marks DEF CanSave
<1>1. /\ a \in Heads /\ a.ops = [head.ops EXCEPT ![op] = value] /\ Same(head, a, AllFields \ {"ops"})
  <2>1. SavedTo(head, a, op, value)
    BY <1>0, <1>a, SavedOperation
  <2> HIDE DEF a
  <2> QED BY <2>1 DEF SavedTo
<1>2. /\ b \in Heads /\ b.ops = [whole.ops EXCEPT ![op] = value] /\ Same(whole, b, AllFields \ {"ops"})
  <2>1. SavedTo(whole, b, op, value)
    BY <1>0, <1>a, SavedOperation
  <2> HIDE DEF b
  <2> QED BY <2>1 DEF SavedTo
<1>3. Sane(b) /\ Fresh(b)
  BY <1>0, <1>a, SavedIsSane
<1> HIDE DEF a, b
<1>4. /\ DOMAIN a.ops = DOMAIN head.ops /\ DOMAIN b.ops = DOMAIN head.ops
      /\ a.ops[op] = value /\ b.ops[op] = value
      /\ \A o \in DOMAIN head.ops : o # op => a.ops[o] = head.ops[o] /\ b.ops[o] = whole.ops[o]
  BY <1>0, <1>1, <1>2, <1>a
<1>5. /\ Equal(a, b) /\ b.pending = whole.pending
      /\ a.located = head.located /\ a.offsets = head.offsets /\ a.archived = head.archived
  BY <1>0, <1>1, <1>2 DEF Same, AllFields, Equal
<1>6. /\ c \in Heads /\ Same(a, c, AllFields \ {"offsets", "archived"})
      /\ c.archived = head.archived \ {op}
      /\ MirroredPlaces(c, b, records, n + 1)
  <2>1. CASE ~head.located
    <3>1. c = a
      BY <1>5, <2>1 DEF NoteRecord
    <3>2. a.archived = {}
      BY <1>0, <1>5, <2>1 DEF MirroredPlaces
    <3> QED BY <1>1, <1>5, <2>1, <3>1, <3>2 DEF Same, MirroredPlaces
  <2>2. CASE head.located
    <3>1. c = Moved(a, op, n + 1)
      <4>1. ~IsItem(record) /\ a.located
        BY <1>5, <2>2 DEF IsItem
      <4> QED BY <4>1, Zenon DEF NoteRecord, Moved
    <3>2. /\ c \in Heads /\ c.offsets = [a.offsets EXCEPT ![op] = n + 1]
          /\ c.archived = a.archived \ {op}
          /\ Same(a, c, AllFields \ {"offsets", "archived"})
      <4>1. n + 1 \in Nat
        BY <1>0
      <4>2. MovedTo(a, Moved(a, op, n + 1), op, n + 1)
        BY <1>1, <1>a, <4>1, MovedHead
      <4> QED BY <3>1, <4>2 DEF MovedTo
    <3> HIDE DEF c
    <3>3. c.located /\ c.ops = a.ops
      BY <1>5, <2>2, <3>2 DEF Same, AllFields
    <3>4. c.offsets[op] = n + 1 /\ \A o \in Ops : o # op => c.offsets[o] = head.offsets[o]
      <4>1. a.offsets \in [Ops -> Nat]
        BY <1>1, HeadParts
      <4> QED BY <1>5, <1>a, <3>2, <4>1
    <3>5. \A o \in Ops : IF o \in DOMAIN head.ops
            THEN head.offsets[o] \in 1..n /\ Holds(records[head.offsets[o]], o, whole.ops[o])
            ELSE head.offsets[o] = 0
      BY <1>0, <2>2 DEF MirroredPlaces
    <3>6. n + 1 \in 1 .. n + 1 /\ Holds(records[n + 1], op, b.ops[op]) /\ \A i \in 1 .. n : i \in 1 .. n + 1
      BY <1>0, <1>4 DEF Holds
    <3>7. MirroredPlaces(c, b, records, n + 1)
      <4> SUFFICES ASSUME NEW o \in Ops
                   PROVE  IF o \in DOMAIN c.ops
                          THEN c.offsets[o] \in 1..n + 1 /\ Holds(records[c.offsets[o]], o, b.ops[o])
                          ELSE c.offsets[o] = 0
        BY <3>3 DEF MirroredPlaces
      <4>1. CASE o = op
        BY <1>4, <1>a, <3>3, <3>4, <3>6, <4>1
      <4>2. CASE o # op
        BY <1>4, <3>3, <3>4, <3>5, <3>6, <4>2
      <4> QED BY <4>1, <4>2
    <3> QED BY <1>5, <3>2, <3>7
  <2> QED BY <2>1, <2>2
<1> HIDE DEF c
<1>7. c.ops = a.ops /\ c.located = a.located /\ Equal(c, b)
  BY <1>5, <1>6 DEF Same, AllFields, Equal
<1>8. MirroredOps(c, b)
  <2> SUFFICES ASSUME NEW o \in DOMAIN head.ops
               PROVE  IF o \in c.archived
                      THEN /\ Finished(b.ops[o]) /\ o \notin b.pending
                           /\ c.ops[o] = [b.ops[o] EXCEPT !.state = Bare]
                      ELSE c.ops[o] = b.ops[o]
    BY <1>4, <1>7 DEF MirroredOps
  <2>1. CASE o = op
    BY <1>4, <1>6, <1>7, <2>1
  <2>2. CASE o # op
    <3>1. c.ops[o] = head.ops[o] /\ b.ops[o] = whole.ops[o] /\ (o \in c.archived <=> o \in head.archived)
      BY <1>4, <1>6, <1>7, <2>2
    <3>2. IF o \in head.archived
          THEN /\ Finished(whole.ops[o]) /\ o \notin whole.pending
               /\ head.ops[o] = [whole.ops[o] EXCEPT !.state = Bare]
          ELSE head.ops[o] = whole.ops[o]
      BY <1>0 DEF MirroredOps
    <3> QED BY <1>5, <3>1, <3>2
  <2> QED BY <2>1, <2>2
<1>9. Mirroring(c, b, records, n + 1)
  BY <1>0, <1>2, <1>3, <1>4, <1>6, <1>7, <1>8 DEF Mirroring
<1> QED BY <1>5, <1>7, <1>9 DEF a, b, c, op, value, SaveMirrored

-----------------------------------------------------------------------------
(* An operation is loaded from its record *)

Loaded(state, op, value) == [state EXCEPT !.head.ops[op] = value, !.head.archived = @ \ {op}]

LoadedTo(state, next, op, value) ==
  /\ next \in ReadStates /\ next.ok = state.ok /\ next.items = state.items /\ next.after = state.after
  /\ next.head.ops = [state.head.ops EXCEPT ![op] = value]
  /\ next.head.archived = state.head.archived \ {op}
  /\ Same(state.head, next.head, AllFields \ {"ops", "archived"})

LEMMA LoadedState ==
  ASSUME NEW state \in ReadStates, NEW op \in DOMAIN state.head.ops, NEW value \in Values
  PROVE  LoadedTo(state, Loaded(state, op, value), op, value)
<1> DEFINE ops == [state.head.ops EXCEPT ![op] = value]
           archived == state.head.archived \ {op}
           head == [state.head EXCEPT !.ops = ops, !.archived = archived]
           next == [state EXCEPT !.head = head]
<1>0. state.head \in Heads
  BY DEF ReadStates
<1>1. Loaded(state, op, value) = next
  BY <1>0 DEF Loaded, ReadStates, Heads
<1>2. ops \in UNION {[O -> Values] : O \in SUBSET Ops} /\ archived \subseteq Ops
  BY <1>0, OpsSaved, HeadParts
<1> HIDE DEF ops, archived
<1>3. /\ head \in Heads /\ head.ops = ops /\ head.archived = archived
      /\ Same(state.head, head, AllFields \ {"ops", "archived"})
  BY <1>0, <1>2 DEF Heads, Same, AllFields
<1> HIDE DEF head
<1>4. /\ next \in ReadStates /\ next.head = head
      /\ next.ok = state.ok /\ next.items = state.items /\ next.after = state.after
  BY <1>3 DEF ReadStates
<1> HIDE DEF next
<1>5. LoadedTo(state, next, op, value)
  BY <1>3, <1>4 DEF LoadedTo, ops, archived
<1> QED BY <1>1, <1>5

LEMMA BareValue ==
  ASSUME NEW value \in Values
  PROVE  LET bare == [value EXCEPT !.state = Bare]
         IN bare \in Values /\ bare.status = value.status /\ bare.state = Bare
            /\ [bare EXCEPT !.state = Bare] = bare
            /\ (Finished(bare) <=> Finished(value))
<1>1. Bare \in {"full", Bare}
  OBVIOUS
<1> QED BY <1>1 DEF Values, Finished

LEMMA FullIsNotBare ==
  ASSUME NEW value \in FullValues
  PROVE  value.state = "full" /\ value.state # Bare /\ value = Value(value.status)
BY DEF FullValues, Bare, Value

\* What a head left in its record is there, where it says.
LoadsRight(state, whole, records, n, op) ==
  LET next == LoadArchivedOperation(state, records, op)
  IN /\ next \in ReadStates /\ next.ok /\ next.items = state.items /\ next.after = state.after
     /\ Mirroring(next.head, whole, records, n)
     /\ next.head.located = state.head.located
     /\ op \notin next.head.archived

\* An archived operation is found, whole, where its head says.
LEMMA LoadsArchived ==
  ASSUME NEW state \in ReadStates, state.ok, NEW whole, NEW records, NEW n,
         Mirroring(state.head, whole, records, n), NEW op \in state.head.archived
  PROVE  LoadsRight(state, whole, records, n, op)
<1> DEFINE head == state.head
           next == LoadArchivedOperation(state, records, op)
           value == whole.ops[op]
           c == next.head
<1>0. /\ head \in Heads /\ whole \in Heads /\ Sane(whole) /\ Fresh(whole) /\ n \in Nat
      /\ Equal(head, whole)
      /\ DOMAIN head.ops = DOMAIN whole.ops
      /\ head.archived \subseteq DOMAIN head.ops
      /\ MirroredOps(head, whole)
      /\ MirroredPlaces(head, whole, records, n)
  BY DEF Mirroring
<1>1. op \in DOMAIN head.ops /\ op \in DOMAIN whole.ops /\ op \in Ops
  BY <1>0, HeadParts
<1>2. head.located
  BY <1>0 DEF MirroredPlaces
<1>3. Holds(records[head.offsets[op]], op, value)
  BY <1>0, <1>1, <1>2 DEF MirroredPlaces
<1>4. value \in FullValues /\ value \in Values
  BY <1>0, <1>1, Marks DEF Sane
<1>5. head.ops[op].status = value.status
  <2>1. head.ops[op] = [value EXCEPT !.state = Bare]
    BY <1>0, <1>1 DEF MirroredOps
  <2> HIDE DEF value
  <2> QED BY <1>4, <2>1, BareValue
<1>6. next = Loaded(state, op, value)
  <2> DEFINE original == records[head.offsets[op]]
             found == IF original.type = "operation" THEN original.value ELSE original.item.value
  <2>1. found = value
    BY <1>3 DEF Holds, IsStatus, IsItem
  <2>2. found \in Values /\ found.status = head.ops[op].status
    BY <1>4, <1>5, <2>1
  <2>3. next = IF found \in Values /\ found.status = head.ops[op].status
               THEN Loaded(state, op, found) ELSE Unreadable(state)
    BY Zenon DEF LoadArchivedOperation, Loaded
  <2> HIDE DEF found, next, value
  <2> QED BY <2>1, <2>2, <2>3
<1>7. /\ next \in ReadStates /\ next.ok /\ next.items = state.items /\ next.after = state.after
      /\ c.ops = [head.ops EXCEPT ![op] = value]
      /\ c.archived = head.archived \ {op}
      /\ Same(head, c, AllFields \ {"ops", "archived"})
  <2>1. LoadedTo(state, Loaded(state, op, value), op, value)
    BY <1>1, <1>4, LoadedState
  <2> HIDE DEF next, value
  <2> QED BY <1>6, <2>1 DEF LoadedTo
<1>8. c \in Heads
  BY <1>7 DEF ReadStates
<1> HIDE DEF next, value
<1>9. /\ c.located = head.located /\ c.offsets = head.offsets /\ Equal(c, whole)
  BY <1>0, <1>7 DEF Same, AllFields, Equal
<1>10. DOMAIN c.ops = DOMAIN head.ops /\ c.ops[op] = value /\ \A o \in DOMAIN head.ops : o # op => c.ops[o] = head.ops[o]
  BY <1>1, <1>7
<1> HIDE DEF c
<1>11. MirroredOps(c, whole)
  <2> SUFFICES ASSUME NEW o \in DOMAIN head.ops
               PROVE  IF o \in c.archived
                      THEN /\ Finished(whole.ops[o]) /\ o \notin whole.pending
                           /\ c.ops[o] = [whole.ops[o] EXCEPT !.state = Bare]
                      ELSE c.ops[o] = whole.ops[o]
    BY <1>10 DEF MirroredOps
  <2>1. CASE o = op
    BY <1>7, <1>10, <2>1 DEF value
  <2>2. CASE o # op
    <3>1. IF o \in head.archived
          THEN /\ Finished(whole.ops[o]) /\ o \notin whole.pending
               /\ head.ops[o] = [whole.ops[o] EXCEPT !.state = Bare]
          ELSE head.ops[o] = whole.ops[o]
      BY <1>0 DEF MirroredOps
    <3> QED BY <1>7, <1>10, <2>2, <3>1
  <2> QED BY <2>1, <2>2
<1>12. MirroredPlaces(c, whole, records, n)
  BY <1>0, <1>2, <1>9, <1>10 DEF MirroredPlaces
<1>13. Mirroring(c, whole, records, n) /\ op \notin c.archived
  BY <1>0, <1>7, <1>8, <1>9, <1>10, <1>11, <1>12 DEF Mirroring
<1> QED BY <1>7, <1>9, <1>13 DEF c, next, LoadsRight

\* What a checkpoint holds stands for as much as the head it is made of.
LEMMA MirrorsCheckpoint ==
  ASSUME NEW head, NEW whole, NEW records, NEW n, Mirroring(head, whole, records, n), head.located
  PROVE  Mirroring(CheckpointHead(head), whole, records, n) /\ CheckpointHead(head).located
<1> DEFINE settled == {o \in DOMAIN head.ops : Finished(head.ops[o]) /\ o \notin head.pending}
           ops == [o \in DOMAIN head.ops |->
                     IF o \in settled THEN [head.ops[o] EXCEPT !.state = Bare] ELSE head.ops[o]]
           next == [head EXCEPT !.archived = settled, !.ops = ops]
           c == CheckpointHead(head)
<1>0. /\ head \in Heads /\ whole \in Heads /\ Sane(whole) /\ Fresh(whole) /\ n \in Nat
      /\ Equal(head, whole)
      /\ DOMAIN head.ops = DOMAIN whole.ops
      /\ head.archived \subseteq DOMAIN head.ops
      /\ MirroredOps(head, whole)
      /\ MirroredPlaces(head, whole, records, n)
  BY DEF Mirroring
<1>1. c = next
  <2>1. c = [head EXCEPT !.archived = settled,
                  !.ops = [o \in DOMAIN @ |-> IF o \in settled THEN [@[o] EXCEPT !.state = Bare]
                                              ELSE @[o]]]
    BY Zenon DEF CheckpointHead
  <2> HIDE DEF settled
  <2>2. [head EXCEPT !.archived = settled].ops = head.ops
    BY <1>0 DEF Heads
  <2> QED BY <2>1, <2>2, Zenon
<1>2. \A o \in DOMAIN head.ops : head.ops[o] \in Values /\ [head.ops[o] EXCEPT !.state = Bare] \in Values
  <2> SUFFICES ASSUME NEW o \in DOMAIN head.ops
               PROVE  head.ops[o] \in Values /\ [head.ops[o] EXCEPT !.state = Bare] \in Values
    OBVIOUS
  <2>1. head.ops[o] \in Values
    BY <1>0, OpsType
  <2> QED BY <2>1, BareValue
<1>3. /\ ops \in UNION {[O -> Values] : O \in SUBSET Ops} /\ settled \subseteq Ops
      /\ DOMAIN ops = DOMAIN head.ops
      /\ \A o \in DOMAIN head.ops :
           ops[o] = IF o \in settled THEN [head.ops[o] EXCEPT !.state = Bare] ELSE head.ops[o]
  <2>1. DOMAIN head.ops \subseteq Ops
    BY <1>0, OpsType
  <2>2. ops \in [DOMAIN head.ops -> Values]
    BY <1>2
  <2>3. settled \subseteq Ops
    BY <2>1
  <2>4. DOMAIN ops = DOMAIN head.ops
    OBVIOUS
  <2>5. \A o \in DOMAIN head.ops :
           ops[o] = IF o \in settled THEN [head.ops[o] EXCEPT !.state = Bare] ELSE head.ops[o]
    OBVIOUS
  <2> HIDE DEF ops, settled
  <2> QED BY <2>1, <2>2, <2>3, <2>4, <2>5
<1>4. \A o \in DOMAIN head.ops : o \in settled <=> Finished(head.ops[o]) /\ o \notin head.pending
  OBVIOUS
<1> HIDE DEF ops, settled
<1>5. /\ c \in Heads /\ c.ops = ops /\ c.archived = settled
      /\ Same(head, c, AllFields \ {"ops", "archived"})
  <2>1. /\ next \in Heads /\ next.ops = ops /\ next.archived = settled
        /\ Same(head, next, AllFields \ {"ops", "archived"})
    BY <1>0, <1>3 DEF Heads, Same, AllFields
  <2> QED BY <1>1, <2>1
<1> HIDE DEF c
<1>6. c.located = head.located /\ c.offsets = head.offsets /\ Equal(c, whole)
  BY <1>0, <1>5 DEF Same, AllFields, Equal
<1>7. MirroredOps(c, whole)
  <2> SUFFICES ASSUME NEW o \in DOMAIN head.ops
               PROVE  IF o \in settled
                      THEN /\ Finished(whole.ops[o]) /\ o \notin whole.pending
                           /\ ops[o] = [whole.ops[o] EXCEPT !.state = Bare]
                      ELSE ops[o] = whole.ops[o]
    BY <1>3, <1>5 DEF MirroredOps
  <2>0. head.pending = whole.pending /\ whole.ops[o] \in Values
    <3>1. whole.ops[o] \in Values
      BY <1>0, OpsType
    <3> QED BY <1>0, <3>1 DEF Equal
  <2>1. IF o \in head.archived
          THEN /\ Finished(whole.ops[o]) /\ o \notin whole.pending
               /\ head.ops[o] = [whole.ops[o] EXCEPT !.state = Bare]
          ELSE head.ops[o] = whole.ops[o]
    BY <1>0 DEF MirroredOps
  <2>2. CASE o \in head.archived
    <3>1. Finished(head.ops[o]) /\ [head.ops[o] EXCEPT !.state = Bare] = head.ops[o]
      BY <2>0, <2>1, <2>2, BareValue
    <3>2. o \in settled
      BY <1>4, <2>0, <2>1, <2>2, <3>1
    <3> QED BY <1>3, <2>1, <2>2, <3>1, <3>2
  <2>3. CASE o \notin head.archived
    BY <1>3, <1>4, <2>0, <2>1, <2>3
  <2> QED BY <2>2, <2>3
<1>8. MirroredPlaces(c, whole, records, n)
  BY <1>0, <1>3, <1>5, <1>6 DEF MirroredPlaces
<1>9. c.archived \subseteq DOMAIN c.ops
  BY <1>3, <1>5 DEF settled
<1>10. Mirroring(c, whole, records, n)
  BY <1>0, <1>3, <1>5, <1>6, <1>7, <1>8, <1>9 DEF Mirroring
<1> QED BY <1>6, <1>10 DEF c

-----------------------------------------------------------------------------
(* Where the operations are *)

SavesAt(records, o, k) == records[k].type = "operation" /\ records[k].op = o
BeginsAt(records, o, k) ==
  /\ IsItem(records[k]) /\ records[k].item.kind = "status" /\ records[k].item.op = o
  /\ records[k].item.value \notin {None, Saved}

LastSave(records, o, n, value) ==
  \E k \in 1 .. n : /\ SavesAt(records, o, k) /\ records[k].value = value
                    /\ \A j \in 1 .. n : SavesAt(records, o, j) => j <= k
FirstBegin(records, o, n, value) ==
  \E k \in 1 .. n : /\ BeginsAt(records, o, k) /\ records[k].item.value = value
                    /\ \A j \in 1 .. n : BeginsAt(records, o, j) => k <= j
NoSave(records, o, n) == \A j \in 1 .. n : ~SavesAt(records, o, j)
NoBegin(records, o, n) == \A j \in 1 .. n : ~BeginsAt(records, o, j)

\* An operation is as the last record that saved it has it, or else as the
\* first status that has it whole.
FoundIn(records, ops, n) ==
  \A o \in Ops :
    /\ o \notin DOMAIN ops => NoSave(records, o, n) /\ NoBegin(records, o, n)
    /\ o \in DOMAIN ops =>
         /\ \/ LastSave(records, o, n, ops[o])
            \/ NoSave(records, o, n) /\ FirstBegin(records, o, n, ops[o])
         /\ \E k \in 1 .. n : IsStatus(records[k]) /\ records[k].item.op = o

LEMMA FoundSame ==
  ASSUME NEW records, NEW ops, NEW n \in Nat, FoundIn(records, ops, n), NEW o \in Ops,
         ~SavesAt(records, o, n + 1), o \notin DOMAIN ops => ~BeginsAt(records, o, n + 1)
  PROVE  /\ o \notin DOMAIN ops => NoSave(records, o, n + 1) /\ NoBegin(records, o, n + 1)
         /\ o \in DOMAIN ops =>
              /\ \/ LastSave(records, o, n + 1, ops[o])
                 \/ NoSave(records, o, n + 1) /\ FirstBegin(records, o, n + 1, ops[o])
              /\ \E k \in 1 .. n + 1 : IsStatus(records[k]) /\ records[k].item.op = o
<1>0. /\ \A j \in 1 .. n + 1 : j \in 1 .. n \/ j = n + 1
      /\ \A j \in 1 .. n : j \in 1 .. n + 1 /\ j <= n + 1
  OBVIOUS
<1>1. ASSUME o \notin DOMAIN ops PROVE NoSave(records, o, n + 1) /\ NoBegin(records, o, n + 1)
  BY <1>0, <1>1 DEF FoundIn, NoSave, NoBegin
<1>2. ASSUME o \in DOMAIN ops
      PROVE  /\ \/ LastSave(records, o, n + 1, ops[o])
                \/ NoSave(records, o, n + 1) /\ FirstBegin(records, o, n + 1, ops[o])
             /\ \E k \in 1 .. n + 1 : IsStatus(records[k]) /\ records[k].item.op = o
  <2>1. \E k \in 1 .. n + 1 : IsStatus(records[k]) /\ records[k].item.op = o
    BY <1>0, <1>2 DEF FoundIn
  <2>2. CASE LastSave(records, o, n, ops[o])
    <3>1. LastSave(records, o, n + 1, ops[o])
      BY <1>0, <2>2 DEF LastSave
    <3> QED BY <2>1, <3>1
  <2>3. CASE NoSave(records, o, n) /\ FirstBegin(records, o, n, ops[o])
    <3>1. NoSave(records, o, n + 1)
      BY <1>0, <2>3 DEF NoSave
    <3>2. FirstBegin(records, o, n + 1, ops[o])
      BY <1>0, <2>3 DEF FirstBegin
    <3> QED BY <2>1, <3>1, <3>2
  <2> QED BY <1>2, <2>1, <2>2, <2>3 DEF FoundIn
<1> QED BY <1>1, <1>2

LEMMA FoundElsewhere ==
  ASSUME NEW records, NEW ops, NEW n \in Nat, FoundIn(records, ops, n),
         \A o \in Ops : ~SavesAt(records, o, n + 1)
                        /\ (o \notin DOMAIN ops => ~BeginsAt(records, o, n + 1))
  PROVE  FoundIn(records, ops, n + 1)
BY FoundSame DEF FoundIn

LEMMA FoundSaved ==
  ASSUME NEW records, NEW ops, NEW n \in Nat, FoundIn(records, ops, n),
         NEW op \in DOMAIN ops, op \in Ops, SavesAt(records, op, n + 1), ~IsItem(records[n + 1])
  PROVE  FoundIn(records, [ops EXCEPT ![op] = records[n + 1].value], n + 1)
<1> DEFINE next == [ops EXCEPT ![op] = records[n + 1].value]
<1>0. /\ \A j \in 1 .. n + 1 : j \in 1 .. n \/ j = n + 1
      /\ \A j \in 1 .. n : j \in 1 .. n + 1 /\ j <= n + 1
      /\ n + 1 \in 1 .. n + 1 /\ n + 1 <= n + 1
  OBVIOUS
<1>1. /\ DOMAIN next = DOMAIN ops /\ next[op] = records[n + 1].value
      /\ \A o \in DOMAIN ops : o # op => next[o] = ops[o]
  OBVIOUS
<1> HIDE DEF next
<1>2. ASSUME NEW o \in Ops
      PROVE  /\ o \notin DOMAIN next => NoSave(records, o, n + 1) /\ NoBegin(records, o, n + 1)
             /\ o \in DOMAIN next =>
                  /\ \/ LastSave(records, o, n + 1, next[o])
                     \/ NoSave(records, o, n + 1) /\ FirstBegin(records, o, n + 1, next[o])
                  /\ \E k \in 1 .. n + 1 : IsStatus(records[k]) /\ records[k].item.op = o
  <2>1. CASE o = op
    <3>1. LastSave(records, o, n + 1, next[o])
      BY <1>0, <1>1, <2>1 DEF LastSave
    <3>2. \E k \in 1 .. n + 1 : IsStatus(records[k]) /\ records[k].item.op = o
      BY <1>0, <2>1 DEF FoundIn
    <3> QED BY <1>1, <2>1, <3>1, <3>2
  <2>2. CASE o # op
    <3>1. ~SavesAt(records, o, n + 1) /\ ~BeginsAt(records, o, n + 1)
      BY <2>2 DEF SavesAt, BeginsAt
    <3> QED BY <1>1, <2>2, <3>1, FoundSame
  <2> QED BY <2>1, <2>2
<1>3. FoundIn(records, next, n + 1)
  BY <1>2 DEF FoundIn
<1> QED BY <1>3 DEF next

LEMMA FoundBegun ==
  ASSUME NEW records, NEW ops, NEW n \in Nat, FoundIn(records, ops, n),
         NEW op \in Ops, op \notin DOMAIN ops, BeginsAt(records, op, n + 1)
  PROVE  FoundIn(records, [o \in DOMAIN ops \cup {op} |->
                             IF o = op THEN records[n + 1].item.value ELSE ops[o]], n + 1)
<1> DEFINE next == [o \in DOMAIN ops \cup {op} |-> IF o = op THEN records[n + 1].item.value ELSE ops[o]]
<1>0. /\ \A j \in 1 .. n + 1 : j \in 1 .. n \/ j = n + 1
      /\ \A j \in 1 .. n : j \in 1 .. n + 1 /\ j <= n + 1
      /\ n + 1 \in 1 .. n + 1 /\ n + 1 <= n + 1
  OBVIOUS
<1>1. /\ DOMAIN next = DOMAIN ops \cup {op} /\ next[op] = records[n + 1].item.value
      /\ \A o \in DOMAIN ops : o # op => next[o] = ops[o]
  OBVIOUS
<1> HIDE DEF next
<1>2. ASSUME NEW o \in Ops
      PROVE  /\ o \notin DOMAIN next => NoSave(records, o, n + 1) /\ NoBegin(records, o, n + 1)
             /\ o \in DOMAIN next =>
                  /\ \/ LastSave(records, o, n + 1, next[o])
                     \/ NoSave(records, o, n + 1) /\ FirstBegin(records, o, n + 1, next[o])
                  /\ \E k \in 1 .. n + 1 : IsStatus(records[k]) /\ records[k].item.op = o
  <2>0. ~SavesAt(records, o, n + 1)
    BY DEF SavesAt, BeginsAt, IsItem
  <2>1. CASE o = op
    <3>1. NoSave(records, o, n) /\ NoBegin(records, o, n)
      BY <2>1 DEF FoundIn
    <3>2. NoSave(records, o, n + 1)
      BY <1>0, <2>0, <3>1 DEF NoSave
    <3>3. FirstBegin(records, o, n + 1, next[o])
      BY <1>0, <1>1, <2>1, <3>1 DEF FirstBegin, NoBegin
    <3>4. IsStatus(records[n + 1]) /\ records[n + 1].item.op = o
      BY <2>1 DEF BeginsAt, IsStatus
    <3> QED BY <1>0, <1>1, <2>1, <3>2, <3>3, <3>4
  <2>2. CASE o # op
    <3>1. ~BeginsAt(records, o, n + 1)
      BY <2>2 DEF BeginsAt
    <3> QED BY <1>1, <2>0, <2>2, <3>1, FoundSame
  <2> QED BY <2>1, <2>2
<1>3. FoundIn(records, next, n + 1)
  BY <1>2 DEF FoundIn
<1> QED BY <1>3 DEF next

\* What a record of the session itself does to the operations.
LEMMA FoundOwn ==
  ASSUME NEW state, Readable(state), Sane(state.head), NEW records, NEW m \in Nat,
         FoundIn(records, state.head.ops, m),
         records[m + 1] \in Records, ~IsFork(records[m + 1]),
         IsStatus(records[m + 1]) => records[m + 1].item.value # None,
         NEW f \in Nat, m + 1 > f, DecodeRecord(state, records[m + 1], m + 1, f).ok
  PROVE  FoundIn(records, DecodeRecord(state, records[m + 1], m + 1, f).head.ops, m + 1)
<1> DEFINE record == records[m + 1]
           next == DecodeRecord(state, record, m + 1, f)
           ops == state.head.ops
<1>0. /\ state \in ReadStates /\ state.ok /\ state.head \in Heads /\ Fresh(state.head)
      /\ record \in Records /\ m + 1 \in Nat
  BY DEF Readable, ReadStates
<1>1. CASE IsItem(record)
  <2> DEFINE item == Resolved(state.head, record.item)
             head == AddItem(state.head, item)
  <2>1. /\ Resolvable(state.head, record.item) /\ Accepts(state.head, item)
        /\ next = With(state, head, item)
    BY <1>0, <1>1, ReadItem
  <2>2. record.item \in RecordedItems /\ record.item.kind # "fork"
    BY <1>0, <1>1, RecordKinds DEF IsFork
  <2>3. record.item.kind = "status" => record.item.value # None
    BY <1>1 DEF IsStatus
  <2>4. /\ item \in WholeItems /\ item.kind = record.item.kind
        /\ item.kind = "status" =>
             /\ item.turn = record.item.turn /\ item.op = record.item.op /\ item.op \in Ops
             /\ item.value \in FullValues
             /\ record.item.value = Saved => <<item.turn, item.op>> \in state.head.calls
             /\ record.item.value # Saved => item.value = record.item.value
    BY <1>0, <2>1, <2>2, <2>3, ResolvedItem
  <2>5. item.kind = "status" => item.value # None
    BY <2>4, Marks
  <2>6. head \in Heads
    <3> HIDE DEF item
    <3> QED BY <1>0, <2>1, <2>2, <2>4, <2>5, AddedIsSane
  <2>7. next.head = head
    <3> HIDE DEF item, head, next
    <3>1. Continues(state, With(state, head, item), head, item)
      BY <1>0, <2>4, <2>6, StateWith
    <3> QED BY <2>1, <3>1 DEF Continues
  <2>8. \A o \in Ops : ~SavesAt(records, o, m + 1)
    BY <1>1 DEF SavesAt, IsItem
  <2> HIDE DEF item
  <2>9. CASE item.kind # "status"
    <3>1. item.kind \in {"input", "turn", "response"}
      BY <2>2, <2>4, <2>9 DEF WholeItems
    <3>2. head.ops = ops
      BY <1>0, <2>4, <3>1, AddedElsewhere DEF Same
    <3>3. \A o \in Ops : ~BeginsAt(records, o, m + 1)
      BY <2>4, <2>9 DEF BeginsAt
    <3> QED BY <2>7, <2>8, <3>2, <3>3, FoundElsewhere
  <2>10. CASE item.kind = "status"
    <3> DEFINE key == <<item.turn, item.op>>
    <3>1. head.ops = IF key \in state.head.calls THEN ops
                          ELSE [o \in DOMAIN ops \cup {item.op} |->
                                  IF o = item.op THEN item.value ELSE ops[o]]
      BY <1>0, <2>4, <2>5, <2>10, AddedStatus
    <3>2. CASE key \in state.head.calls
      <4>1. item.op \in DOMAIN ops
        BY <3>2 DEF Sane
      <4>2. \A o \in Ops : o \notin DOMAIN ops => ~BeginsAt(records, o, m + 1)
        BY <2>4, <2>10, <4>1 DEF BeginsAt
      <4>3. FoundIn(records, ops, m + 1)
        BY <2>8, <4>2, FoundElsewhere
      <4> QED BY <2>7, <3>1, <3>2, <4>3
    <3>3. CASE key \notin state.head.calls
      <4>1. item.op \notin DOMAIN ops /\ record.item.value # Saved
        BY <2>1, <2>4, <2>5, <2>10, <3>3 DEF Accepts
      <4>2. item.value = record.item.value /\ BeginsAt(records, item.op, m + 1)
        BY <1>1, <2>3, <2>4, <2>10, <4>1 DEF BeginsAt
      <4>3. FoundIn(records, [o \in DOMAIN ops \cup {item.op} |->
                             IF o = item.op THEN records[m + 1].item.value ELSE ops[o]], m + 1)
        BY <2>4, <2>10, <4>1, <4>2, FoundBegun
      <4> HIDE DEF head
      <4> QED BY <2>7, <3>1, <3>3, <4>2, <4>3
    <3> QED BY <3>2, <3>3
  <2> QED BY <2>9, <2>10
<1>2. CASE ~IsItem(record) /\ record.type = "checkpoint"
  <2>1. next = state
    BY <1>0, <1>2, ReadOther
  <2>2. \A o \in Ops : ~SavesAt(records, o, m + 1) /\ ~BeginsAt(records, o, m + 1)
    BY <1>2 DEF SavesAt, BeginsAt
  <2> QED BY <2>1, <2>2, FoundElsewhere
<1>3. CASE ~IsItem(record) /\ record.type = "operation"
  <2> DEFINE head == SaveOperation(state.head, record.op, record.value)
  <2>1. CanSave(state.head, record.op) /\ next = WithHead(state, head)
    BY <1>0, <1>3, ReadOther
  <2>2. record.op \in Ops /\ record.op \in DOMAIN ops /\ record.value \in Values
    BY <1>0, <1>3, <2>1, RecordKinds, Marks DEF CanSave
  <2>3. head \in Heads /\ head.ops = [ops EXCEPT ![record.op] = record.value]
    <3>1. SavedTo(state.head, head, record.op, record.value)
      BY <1>0, <2>2, SavedOperation
    <3> HIDE DEF head
    <3> QED BY <3>1 DEF SavedTo
  <2>4. next.head = head
    <3> HIDE DEF head, next
    <3> QED BY <1>0, <2>1, <2>3, StateWithHead DEF HasHead
  <2>5. SavesAt(records, record.op, m + 1)
    BY <1>3 DEF SavesAt
  <2>6. FoundIn(records, [ops EXCEPT ![record.op] = records[m + 1].value], m + 1)
    BY <1>3, <2>2, <2>5, FoundSaved
  <2> HIDE DEF head
  <2> QED BY <2>3, <2>4, <2>6
<1> QED BY <1>0, <1>1, <1>2, <1>3, RecordKinds DEF IsItem

\* In every legible file LocateOperations finds each operation, and what it finds is how it was last saved.
LEMMA FoundInFile ==
  ASSUME NEW records \in Seq(Records), Legible(records), NEW m \in 0 .. Len(records)
  PROVE  FoundIn(records, Reading(records, LastFork(records), m).head.ops, m)
<1> DEFINE f == LastFork(records)
           n == Len(records)
           S == {k \in Nat : k <= n => FoundIn(records, Reading(records, f, k).head.ops, k)}
<1>0. Parts(records, f, n)
  BY LegibleParts
<1>r. \A k \in 0 .. n : Read(records, f, k)
  BY ReadingIsReadable
<1> HIDE DEF f, n
<1>a. n \in Nat /\ f \in Nat /\ f <= n /\ Reading(records, f, n).ok
  BY <1>0 DEF Parts
<1>1. 0 \in S
  <2>1. Reading(records, f, 0).head.ops = <<>>
    BY <1>a, ReadingSteps, Read0IsReadable
  <2>2. DOMAIN <<>> = {} /\ 1 .. 0 = {}
    BY NoOps
  <2>3. FoundIn(records, <<>>, 0)
    BY <2>2 DEF FoundIn, NoSave, NoBegin
  <2> QED BY <2>1, <2>3
<1>2. ASSUME NEW k \in Nat, k \in S PROVE k + 1 \in S
  <2> SUFFICES ASSUME k + 1 <= n PROVE FoundIn(records, Reading(records, f, k + 1).head.ops, k + 1)
    OBVIOUS
  <2> DEFINE state == Reading(records, f, k)
             next == Reading(records, f, k + 1)
             record == records[k + 1]
  <2>1. /\ k \in 0 .. n /\ k + 1 \in 0 .. n /\ k + 1 \in 1 .. n /\ k <= n
    BY <1>a
  <2>2. /\ Readable(state) /\ (k <= f => state.head.ops = <<>>) /\ (k >= f => Sane(state.head))
        /\ Readable(next) /\ (k + 1 <= f => next.head.ops = <<>>)
    BY <1>r, <2>1 DEF Read
  <2>3. next = DecodeRecord(state, record, k + 1, f) /\ next.ok /\ state \in ReadStates
    BY <1>a, <2>2, ReadingSteps DEF Readable
  <2>4. FoundIn(records, state.head.ops, k) /\ record \in Records
    BY <1>0, <1>2, <2>1 DEF Parts
  <2> HIDE DEF state, next, record
  <2>5. CASE k + 1 <= f
    <3>1. k + 1 \in 1 .. f /\ k <= f
      BY <1>a, <2>5
    <3>2. IsItem(record)
      BY <1>0, <3>1 DEF Parts, record
    <3>3. record.item.kind = "status" => record.item.value = None
      BY <1>a, <2>3, <2>4, <2>5, <3>2, ReadInherited
    <3>4. \A o \in Ops : ~SavesAt(records, o, k + 1) /\ ~BeginsAt(records, o, k + 1)
      BY <3>2, <3>3 DEF SavesAt, BeginsAt, IsItem, record
    <3>5. next.head.ops = state.head.ops
      BY <2>2, <2>5, <3>1
    <3>6. FoundIn(records, state.head.ops, k + 1)
      BY <2>4, <3>4, FoundElsewhere
    <3> QED BY <3>5, <3>6 DEF next
  <2>6. CASE k + 1 > f
    <3>1. k + 1 \in f + 1 .. n /\ k >= f
      BY <1>a, <2>1, <2>6
    <3>2. ~IsFork(record) /\ Follows(record, Reading(records, f, (k + 1) - 1).head, records, k + 1)
      BY <1>0, <3>1 DEF Parts, record
    <3>3. IsStatus(record) => record.item.value # None
      BY <3>2 DEF Follows
    <3>4. FoundIn(records, DecodeRecord(state, records[k + 1], k + 1, f).head.ops, k + 1)
      BY <1>a, <2>2, <2>3, <2>4, <2>6, <3>1, <3>2, <3>3, FoundOwn DEF record
    <3> QED BY <2>3, <3>4 DEF next, record
  <2> QED BY <1>a, <2>5, <2>6
<1> HIDE DEF S
<1>3. m \in Nat /\ m <= n
  BY DEF n
<1>4. m \in S
  BY <1>1, <1>2, <1>3, NatSetInduction
<1> QED BY <1>3, <1>4 DEF S, f

\* A head that does not know where its operations are finds all of them.
LEMMA LocatesAll ==
  ASSUME NEW head, NEW whole, NEW records, NEW n, Mirroring(head, whole, records, n),
         ~head.located, n = Len(records), FoundIn(records, whole.ops, n)
  PROVE  LET next == LocateOperations(head, records)
         IN Mirroring(next, whole, records, n) /\ next.located
<1> DEFINE Saves(o) == {k \in 1..Len(records) :
                     records[k].type = "operation" /\ records[k].op = o}
           Began(o, k) == /\ IsItem(records[k])
                     /\ records[k].item.kind = "status"
                     /\ records[k].item.op = o
                     /\ records[k].item.value \notin {None, Saved}
           Begins(o) == {k \in 1..Len(records) : Began(o, k)}
           Place(o) == IF Saves(o) # {} THEN Max(Saves(o))
                  ELSE IF Begins(o) # {} THEN Min(Begins(o)) ELSE 0
           offsets == [o \in Ops |-> IF o \in DOMAIN head.ops THEN Place(o) ELSE 0]
           next == [head EXCEPT !.located = TRUE, !.offsets = offsets]
           c == LocateOperations(head, records)
<1>0. /\ head \in Heads /\ whole \in Heads /\ Sane(whole) /\ Fresh(whole) /\ n \in Nat
      /\ Equal(head, whole)
      /\ DOMAIN head.ops = DOMAIN whole.ops
      /\ head.archived \subseteq DOMAIN head.ops
      /\ MirroredOps(head, whole)
      /\ MirroredPlaces(head, whole, records, n)
  BY DEF Mirroring
<1>1. c = next
  BY Zenon DEF LocateOperations
<1>2. ASSUME NEW o \in Ops, o \in DOMAIN head.ops
      PROVE  Place(o) \in 1 .. n /\ Holds(records[Place(o)], o, whole.ops[o])
  <2>1. \/ LastSave(records, o, n, whole.ops[o])
        \/ NoSave(records, o, n) /\ FirstBegin(records, o, n, whole.ops[o])
    BY <1>0, <1>2 DEF FoundIn
  <2>2. CASE LastSave(records, o, n, whole.ops[o])
    <3>1. PICK k \in 1 .. n : /\ SavesAt(records, o, k) /\ records[k].value = whole.ops[o]
                              /\ \A j \in 1 .. n : SavesAt(records, o, j) => j <= k
      BY <2>2 DEF LastSave
    <3>2. k \in Saves(o) /\ Saves(o) \in SUBSET (1 .. n) /\ Saves(o) # {}
      BY <3>1 DEF SavesAt
    <3>3. Max(Saves(o)) \in Saves(o) /\ k <= Max(Saves(o))
      <4> HIDE DEF Saves
      <4> QED BY <1>0, <3>2, LastPlace
    <3>4. Max(Saves(o)) \in 1 .. n /\ Max(Saves(o)) <= k
      BY <3>1, <3>3 DEF SavesAt
    <3>5. Max(Saves(o)) = k
      <4> DEFINE max == Max(Saves(o))
      <4> HIDE DEF max
      <4>1. max \in 1 .. n /\ max <= k /\ k <= max
        BY <3>3, <3>4 DEF max
      <4>2. max = k
        BY <1>0, <3>1, <4>1
      <4> QED BY <4>2 DEF max
    <3>6. Place(o) = k
      BY <3>2, <3>5
    <3> HIDE DEF Place
    <3> QED BY <3>1, <3>6 DEF Holds, SavesAt
  <2>3. CASE NoSave(records, o, n) /\ FirstBegin(records, o, n, whole.ops[o])
    <3>1. PICK k \in 1 .. n : /\ BeginsAt(records, o, k) /\ records[k].item.value = whole.ops[o]
                              /\ \A j \in 1 .. n : BeginsAt(records, o, j) => k <= j
      BY <2>3 DEF FirstBegin
    <3>2. k \in Begins(o) /\ Begins(o) \in SUBSET (1 .. n) /\ Begins(o) # {}
      BY <3>1 DEF BeginsAt
    <3>3. Min(Begins(o)) \in Begins(o) /\ Min(Begins(o)) <= k
      <4> HIDE DEF Begins
      <4> QED BY <1>0, <3>2, FirstPlace
    <3>4. Min(Begins(o)) \in 1 .. n /\ k <= Min(Begins(o))
      BY <3>1, <3>3 DEF BeginsAt
    <3>5. Min(Begins(o)) = k
      <4> DEFINE min == Min(Begins(o))
      <4> HIDE DEF min
      <4>1. min \in 1 .. n /\ min <= k /\ k <= min
        BY <3>3, <3>4 DEF min
      <4>2. min = k
        BY <1>0, <3>1, <4>1
      <4> QED BY <4>2 DEF min
    <3>6. Saves(o) = {}
      BY <2>3 DEF NoSave, SavesAt
    <3>7. Place(o) = k
      BY <3>2, <3>5, <3>6
    <3> HIDE DEF Place
    <3> QED BY <3>1, <3>7 DEF Holds, BeginsAt, IsStatus
  <2> QED BY <2>1, <2>2, <2>3
<1> HIDE DEF Place
<1>3. /\ offsets \in [Ops -> Nat]
      /\ \A o \in Ops : offsets[o] = IF o \in DOMAIN head.ops THEN Place(o) ELSE 0
  <2>1. \A o \in Ops : o \in DOMAIN head.ops => Place(o) \in Nat
    BY <1>0, <1>2
  <2> QED BY <2>1
<1> HIDE DEF offsets
<1>4. c \in Heads /\ c.located = TRUE /\ c.offsets = offsets /\ Same(head, c, AllFields \ {"located", "offsets"})
  <2>1. /\ next \in Heads /\ next.located = TRUE /\ next.offsets = offsets
        /\ Same(head, next, AllFields \ {"located", "offsets"})
    BY <1>0, <1>3 DEF Heads, Same, AllFields
  <2> QED BY <1>1, <2>1
<1> HIDE DEF c, next
<1>5. c.ops = head.ops /\ c.archived = head.archived /\ Equal(c, whole)
  BY <1>0, <1>4 DEF Same, AllFields, Equal
<1>6. MirroredOps(c, whole)
  BY <1>0, <1>5 DEF MirroredOps
<1>7. MirroredPlaces(c, whole, records, n)
  BY <1>2, <1>3, <1>4, <1>5 DEF MirroredPlaces
<1>8. Mirroring(c, whole, records, n) /\ c.located
  BY <1>0, <1>4, <1>5, <1>6, <1>7 DEF Mirroring
<1> QED BY <1>8 DEF c

-----------------------------------------------------------------------------
(* From a checkpoint *)

\* An item that holds its operation by ID is the same to both heads.
LEMMA ResolvedAlike ==
  ASSUME NEW head, NEW whole, DOMAIN head.ops = DOMAIN whole.ops, MirroredOps(head, whole), NEW item,
         item.kind = "status" /\ item.value = Saved => item.op \notin head.archived
  PROVE  Resolved(head, item) = Resolved(whole, item)
<1>1. CASE item.kind = "status" /\ item.value = Saved /\ item.op \in DOMAIN head.ops
  <2>1. head.ops[item.op] = whole.ops[item.op] /\ item.op \in DOMAIN whole.ops
    BY <1>1 DEF MirroredOps
  <2> QED BY <1>1, <2>1 DEF Resolved
<1>2. CASE ~(item.kind = "status" /\ item.value = Saved /\ item.op \in DOMAIN head.ops)
  <2>1. ~(item.kind = "status" /\ item.value = Saved /\ item.op \in DOMAIN whole.ops)
    BY <1>2
  <2> QED BY <1>2, <2>1 DEF Resolved
<1> QED BY <1>1, <1>2

ItemMirrored(state, whole, records, n, record) ==
  LET item == Resolved(whole, record.item)
      head == NoteRecord(AddItem(state.head, item), record, n + 1)
  IN /\ ReplayItem(state, record) = With(state, AddItem(state.head, item), item)
     /\ AddItem(state.head, item) \in Heads
     /\ item \in WholeItems
     /\ Mirroring(head, AddItem(whole, item), records, n + 1)
     /\ head.located = state.head.located

\* What an item does to a reading that stands for the whole one.
LEMMA SuffixItem ==
  ASSUME NEW state \in ReadStates, state.ok, NEW whole, NEW records, NEW n,
         Mirroring(state.head, whole, records, n),
         NEW record \in Records, record = records[n + 1], IsItem(record), ~IsFork(record),
         Follows(record, whole, records, n + 1), Resolvable(whole, record.item),
         Accepts(whole, Resolved(whole, record.item)), record.seq = whole.seq + 1,
         IsStatus(record) /\ record.item.value = Saved => record.item.op \notin state.head.archived
  PROVE  ItemMirrored(state, whole, records, n, record)
<1> DEFINE item == Resolved(whole, record.item)
           added == AddItem(state.head, item)
           head == NoteRecord(added, record, n + 1)
<1>0. /\ state.head \in Heads /\ whole \in Heads /\ Sane(whole) /\ Fresh(whole) /\ n \in Nat
      /\ Equal(state.head, whole)
      /\ DOMAIN state.head.ops = DOMAIN whole.ops
      /\ MirroredOps(state.head, whole)
  BY DEF Mirroring
<1>1. record.item \in RecordedItems /\ record.item.kind # "fork"
  BY RecordKinds DEF IsFork
<1>2. record.item.kind = "status" => record.item.value # None
  BY DEF IsStatus, Follows
<1>3. item \in WholeItems /\ item.kind = record.item.kind
      /\ (item.kind = "status" => item.value \in FullValues)
  BY <1>0, <1>1, <1>2, ResolvedItem
<1>4. item.kind = "status" => item.value # None
  BY <1>3, Marks
<1>5. Resolved(state.head, record.item) = item
  BY <1>0, ResolvedAlike DEF IsStatus
<1>6. Resolvable(state.head, record.item)
  BY <1>0 DEF Resolvable, Equal
<1>7. Accepts(state.head, item)
  <2> HIDE DEF item
  <2>1. Accepts(whole, item)
    BY DEF item
  <2> QED BY <1>0, <2>1, AcceptsAlike
<1>8. record.seq = state.head.seq + 1
  BY <1>0 DEF Equal
<1>9. ReplayItem(state, record) = With(state, added, item)
  <2> HIDE DEF item
  <2> QED BY <1>5, <1>6, <1>7, <1>8, Zenon DEF ReplayItem, With
<1>10. Mirroring(head, AddItem(whole, item), records, n + 1) /\ head.located = state.head.located
       /\ added \in Heads
  <2>1. CASE IsStatus(record)
    <3>1. Mirroring(head, AddItem(whole, item), records, n + 1) /\ head.located = state.head.located
      <4>1. item \in WholeItems /\ Accepts(whole, item) /\ item = Resolved(whole, record.item)
        BY <1>3
      <4> HIDE DEF item
      <4> QED BY <2>1, <4>1, MirrorsStatus
    <3>2. item.kind = "status"
      BY <1>3, <2>1 DEF IsStatus
    <3>3. added \in Heads
      <4> HIDE DEF item
      <4> QED BY <1>0, <1>3, <1>4, <3>2, AddedStatus
    <3> QED BY <3>1, <3>3
  <2>2. CASE ~IsStatus(record)
    <3>1. item.kind \in {"input", "turn", "response"} /\ record.item.kind # "status"
      BY <1>1, <1>3, <2>2 DEF IsStatus, WholeItems
    <3> HIDE DEF item
    <3>2. Mirroring(added, AddItem(whole, item), records, n + 1)
      BY <1>3, <3>1, MirrorsItem DEF item
    <3>3. head = added
      BY <3>1, NotedNothing
    <3>4. added \in Heads /\ added.located = state.head.located
      BY <1>0, <1>3, <3>1, AddedElsewhere DEF Same
    <3> QED BY <3>2, <3>3, <3>4
  <2> QED BY <2>1, <2>2
<1> QED BY <1>3, <1>9, <1>10 DEF ItemMirrored, item, added, head

\* The states of a reading on from a checkpoint.
Stands(records, f, k, state) ==
  LET whole == Reading(records, f, k)
  IN /\ state \in ReadStates /\ state.ok
     /\ Mirroring(state.head, whole.head, records, k) /\ state.head.located
     /\ state.after \in 0 .. Len(whole.items)
     /\ state.items = SubSeq(whole.items, state.after + 1, Len(whole.items))

LEMMA AppendToRest ==
  ASSUME NEW S, NEW s \in Seq(S), NEW e \in S, NEW a \in 0 .. Len(s)
  PROVE  SubSeq(Append(s, e), a + 1, Len(s) + 1) = Append(SubSeq(s, a + 1, Len(s)), e)
<1> DEFINE m == Len(s)
           more == Append(s, e)
           rest == SubSeq(s, a + 1, m)
           left == SubSeq(more, a + 1, m + 1)
           right == Append(rest, e)
<1>0. m \in Nat /\ a \in Nat /\ a <= m
  BY LenProperties
<1>1. /\ more \in Seq(S) /\ Len(more) = m + 1 /\ more[m + 1] = e
      /\ \A i \in 1 .. m : more[i] = s[i]
  BY <1>0, AppendProperties
<1>2. rest \in Seq(S) /\ Len(rest) = m - a /\ \A i \in 1 .. m - a : rest[i] = s[a + i]
  <2>1. \A i \in a + 1 .. m : s[i] \in S
    BY <1>0, ElementOfSeq
  <2>2. rest \in Seq(S) /\ Len(rest) = (IF a + 1 <= m THEN m - (a + 1) + 1 ELSE 0)
        /\ \A i \in 1 .. m - (a + 1) + 1 : rest[i] = s[(a + 1) + i - 1]
    BY <1>0, <2>1, SubSeqProperties
  <2>3. m - (a + 1) + 1 = m - a /\ \A i \in 1 .. m - a : (a + 1) + i - 1 = a + i
    BY <1>0
  <2>4. (IF a + 1 <= m THEN m - (a + 1) + 1 ELSE 0) = m - a
    BY <1>0
  <2> QED BY <2>2, <2>3, <2>4
<1>3. left \in Seq(S) /\ Len(left) = m - a + 1 /\ \A i \in 1 .. m - a + 1 : left[i] = more[a + i]
  <2>1. \A i \in a + 1 .. m + 1 : more[i] \in S
    BY <1>0, <1>1, ElementOfSeq
  <2>2. left \in Seq(S) /\ Len(left) = (IF a + 1 <= m + 1 THEN (m + 1) - (a + 1) + 1 ELSE 0)
        /\ \A i \in 1 .. (m + 1) - (a + 1) + 1 : left[i] = more[(a + 1) + i - 1]
    BY <1>0, <2>1, SubSeqProperties
  <2>3. (m + 1) - (a + 1) + 1 = m - a + 1 /\ \A i \in 1 .. m - a + 1 : (a + 1) + i - 1 = a + i
    BY <1>0
  <2> QED BY <1>0, <2>2, <2>3
<1> HIDE DEF more, rest, left
<1>4. /\ right \in Seq(S) /\ Len(right) = m - a + 1 /\ right[m - a + 1] = e
      /\ \A i \in 1 .. m - a : right[i] = rest[i]
  BY <1>2, AppendProperties
<1> HIDE DEF right
<1>5. ASSUME NEW i \in 1 .. m - a + 1 PROVE left[i] = right[i]
  <2>1. CASE i = m - a + 1
    <3>1. a + i = m + 1
      BY <1>0, <2>1
    <3> QED BY <1>1, <1>3, <1>4, <2>1, <3>1
  <2>2. CASE i # m - a + 1
    <3>1. i \in 1 .. m - a /\ a + i \in 1 .. m
      BY <1>0, <2>2
    <3> QED BY <1>1, <1>2, <1>3, <1>4, <3>1
  <2> QED BY <2>1, <2>2
<1>6. left = right
  BY <1>3, <1>4, <1>5, SeqEqual
<1> QED BY <1>6 DEF left, right, more, rest

\* What the record after k leads to, of a file's own part.
OwnStep(records, f, k) ==
  LET whole == Reading(records, f, k)
      next == Reading(records, f, k + 1)
      record == records[k + 1]
      item == Resolved(whole.head, record.item)
  IN /\ record \in Records /\ ~IsFork(record)
     /\ Readable(whole) /\ Sane(whole.head) /\ Readable(next) /\ Sane(next.head)
     /\ whole \in ReadStates /\ next \in ReadStates
     /\ Follows(record, whole.head, records, k + 1)
     /\ IsItem(record) =>
          /\ Resolvable(whole.head, record.item) /\ Accepts(whole.head, item)
          /\ record.seq = whole.head.seq + 1 /\ item \in WholeItems
          /\ next.head = AddItem(whole.head, item)
          /\ next.items = Append(whole.items, item)
     /\ record.type = "operation" =>
          /\ CanSave(whole.head, record.op)
          /\ next.head = SaveOperation(whole.head, record.op, record.value)
          /\ next.items = whole.items
     /\ record.type = "checkpoint" => next = whole

\* What is known of each record after the last fork.
LEMMA OwnSteps ==
  ASSUME NEW records \in Seq(Records), Legible(records),
         NEW k \in Nat, k >= LastFork(records), k + 1 <= Len(records)
  PROVE  OwnStep(records, LastFork(records), k)
<1> DEFINE f == LastFork(records)
           n == Len(records)
           whole == Reading(records, f, k)
           next == Reading(records, f, k + 1)
           record == records[k + 1]
           item == Resolved(whole.head, record.item)
<1>0. Parts(records, f, n)
  BY LegibleParts
<1>r. \A m \in 0 .. n : Read(records, f, m)
  BY ReadingIsReadable
<1>g. k >= f /\ k + 1 <= n
  OBVIOUS
<1> HIDE DEF f, n
<1>a. n \in Nat /\ f \in Nat /\ f <= n
  BY <1>0 DEF Parts
<1>b. k + 1 \in f + 1 .. n /\ k + 1 \in 1 .. n /\ k + 1 > f /\ k \in 0 .. n /\ k + 1 \in 0 .. n /\ (k + 1) - 1 = k
      /\ k + 1 \in Nat /\ k + 1 >= f
  BY <1>a, <1>g
<1>1. record \in Records /\ ~IsFork(record) /\ Follows(record, whole.head, records, k + 1)
  BY <1>0, <1>b DEF Parts
<1>2. Readable(whole) /\ Sane(whole.head) /\ Readable(next) /\ Sane(next.head)
  BY <1>b, <1>g, <1>r DEF Read
<1>3. whole \in ReadStates /\ next \in ReadStates /\ whole.ok /\ next.ok /\ whole.head \in Heads /\ Fresh(whole.head)
  BY <1>2 DEF Readable, ReadStates
<1>4. next = DecodeRecord(whole, record, k + 1, f)
  BY <1>a, ReadingSteps
<1> HIDE DEF whole, next, record
<1>5. ASSUME IsItem(record)
      PROVE  /\ Resolvable(whole.head, record.item) /\ Accepts(whole.head, item)
             /\ record.seq = whole.head.seq + 1 /\ item \in WholeItems
             /\ next.head = AddItem(whole.head, item)
             /\ next.items = Append(whole.items, item)
  <2>1. /\ Resolvable(whole.head, record.item) /\ Accepts(whole.head, item)
        /\ record.seq = whole.head.seq + 1
        /\ next = With(whole, AddItem(whole.head, item), item)
    BY <1>1, <1>3, <1>4, <1>5, <1>a, <1>b, ReadItem
  <2>2. record.item \in RecordedItems /\ record.item.kind # "fork"
    BY <1>1, <1>5, RecordKinds DEF IsFork
  <2>3. record.item.kind = "status" => record.item.value # None
    BY <1>1, <1>5 DEF IsStatus, Follows
  <2>4. item \in WholeItems /\ item.kind = record.item.kind
        /\ (item.kind = "status" => item.value \in FullValues)
    BY <1>2, <1>3, <2>1, <2>2, <2>3, ResolvedItem
  <2>5. item.kind = "status" => item.value # None
    BY <2>4, Marks
  <2> HIDE DEF item
  <2>6. AddItem(whole.head, item) \in Heads
    BY <1>2, <1>3, <2>1, <2>2, <2>4, <2>5, AddedIsSane
  <2>7. Continues(whole, next, AddItem(whole.head, item), item)
    BY <1>3, <2>1, <2>4, <2>6, StateWith
  <2> QED BY <2>1, <2>4, <2>7 DEF Continues
<1>6. ASSUME record.type = "operation"
      PROVE  /\ CanSave(whole.head, record.op)
             /\ next.head = SaveOperation(whole.head, record.op, record.value)
             /\ next.items = whole.items
  <2>1. ~IsItem(record)
    BY <1>6 DEF IsItem
  <2>2. /\ CanSave(whole.head, record.op)
        /\ next = WithHead(whole, SaveOperation(whole.head, record.op, record.value))
    BY <1>1, <1>3, <1>4, <1>6, <1>a, <1>b, <2>1, ReadOther
  <2>3. record.op \in DOMAIN whole.head.ops /\ record.value \in Values
    BY <1>1, <1>6, <2>2, RecordKinds, Marks DEF CanSave
  <2>4. SavedTo(whole.head, SaveOperation(whole.head, record.op, record.value), record.op, record.value)
    BY <1>3, <2>3, SavedOperation
  <2>5. SaveOperation(whole.head, record.op, record.value) \in Heads
    BY <2>4 DEF SavedTo
  <2> QED BY <1>3, <2>2, <2>5, StateWithHead DEF HasHead
<1>7. ASSUME record.type = "checkpoint" PROVE next = whole
  <2>1. ~IsItem(record)
    BY <1>7 DEF IsItem
  <2> QED BY <1>1, <1>3, <1>4, <1>7, <1>a, <1>b, <2>1, ReadOther
<1> QED BY <1>1, <1>2, <1>3, <1>5, <1>6, <1>7 DEF OwnStep, whole, next, record, f

StandsOn(records, f, k, state) ==
  /\ Stands(records, f, k + 1, ReplaySuffix(records, state, k + 1))
  /\ ReplaySuffix(records, state, k + 1).after = state.after

\* One record after the checkpoint: what was read from the checkpoint keeps standing for all.
LEMMA SuffixStep ==
  ASSUME NEW records \in Seq(Records), Legible(records),
         NEW k \in Nat, k >= LastFork(records), k + 1 <= Len(records),
         NEW state, Stands(records, LastFork(records), k, state)
  PROVE  StandsOn(records, LastFork(records), k, state)
<1> DEFINE f == LastFork(records)
           whole == Reading(records, f, k)
           next == Reading(records, f, k + 1)
           record == records[k + 1]
           item == Resolved(whole.head, record.item)
           result == ReplaySuffix(records, state, k + 1)
<1>0. OwnStep(records, f, k)
  BY OwnSteps
<1>1. Stands(records, f, k, state)
  OBVIOUS
<1> HIDE DEF f
<1>2. /\ record \in Records /\ ~IsFork(record)
      /\ Readable(whole) /\ Sane(whole.head) /\ Readable(next) /\ Sane(next.head)
      /\ whole \in ReadStates /\ next \in ReadStates
      /\ Follows(record, whole.head, records, k + 1)
      /\ IsItem(record) =>
          /\ Resolvable(whole.head, record.item) /\ Accepts(whole.head, item)
          /\ record.seq = whole.head.seq + 1 /\ item \in WholeItems
          /\ next.head = AddItem(whole.head, item)
          /\ next.items = Append(whole.items, item)
      /\ record.type = "operation" =>
          /\ CanSave(whole.head, record.op)
          /\ next.head = SaveOperation(whole.head, record.op, record.value)
          /\ next.items = whole.items
      /\ record.type = "checkpoint" => next = whole
  BY <1>0 DEF OwnStep
<1>3. /\ state \in ReadStates /\ state.ok /\ state.head \in Heads
      /\ Mirroring(state.head, whole.head, records, k) /\ state.head.located
      /\ state.after \in 0 .. Len(whole.items)
      /\ state.items = SubSeq(whole.items, state.after + 1, Len(whole.items))
  BY <1>1 DEF Stands, ReadStates
<1>4. whole.items \in Seq(WholeItems) /\ Len(whole.items) \in Nat
  <2>1. whole.items \in Seq(WholeItems)
    BY <1>2 DEF ReadStates
  <2> QED BY <2>1, LenProperties
<1> HIDE DEF whole, next, record
<1>5. CASE IsItem(record)
  <2> DEFINE archived == IsItem(record) /\ record.item.kind = "status"
                    /\ record.item.value = Saved /\ record.item.op \in state.head.archived
             filled == IF archived THEN LoadArchivedOperation(state, records, record.item.op) ELSE state
             added == AddItem(filled.head, item)
             head == NoteRecord(added, record, k + 1)
             played == With(filled, added, item)
  <2>1. /\ filled \in ReadStates /\ filled.ok /\ filled.items = state.items /\ filled.after = state.after
        /\ Mirroring(filled.head, whole.head, records, k) /\ filled.head.located
        /\ IsStatus(record) /\ record.item.value = Saved => record.item.op \notin filled.head.archived
    <3>1. CASE archived
      <4>1. record.item.op \in state.head.archived /\ filled = LoadArchivedOperation(state, records, record.item.op)
        BY <3>1
      <4> HIDE DEF archived, filled
      <4>2. LoadsRight(state, whole.head, records, k, record.item.op)
        BY <1>3, <4>1, LoadsArchived
      <4>3. /\ filled \in ReadStates /\ filled.ok /\ filled.items = state.items /\ filled.after = state.after
            /\ Mirroring(filled.head, whole.head, records, k)
            /\ filled.head.located = state.head.located
            /\ record.item.op \notin filled.head.archived
        BY <4>1, <4>2 DEF LoadsRight
      <4>4. /\ filled \in ReadStates /\ filled.ok /\ filled.items = state.items /\ filled.after = state.after
            /\ Mirroring(filled.head, whole.head, records, k) /\ filled.head.located
            /\ IsStatus(record) /\ record.item.value = Saved => record.item.op \notin filled.head.archived
        BY <1>3, <4>3
      <4> QED BY <4>4 DEF filled, archived
    <3>2. CASE ~archived
      <4>1. filled = state
        BY <3>2
      <4>2. IsStatus(record) /\ record.item.value = Saved => record.item.op \notin state.head.archived
        BY <3>2 DEF IsStatus
      <4> HIDE DEF archived, filled
      <4>4. /\ filled \in ReadStates /\ filled.ok /\ filled.items = state.items /\ filled.after = state.after
            /\ Mirroring(filled.head, whole.head, records, k) /\ filled.head.located
            /\ IsStatus(record) /\ record.item.value = Saved => record.item.op \notin filled.head.archived
        BY <1>3, <4>1, <4>2
      <4> QED BY <4>4 DEF filled, archived
    <3> HIDE DEF archived, filled
    <3> QED BY <3>1, <3>2 DEF filled
  <2>2. result = IF ~filled.ok THEN filled
                 ELSE [ReplayItem(filled, record) EXCEPT !.head = NoteRecord(@, record, k + 1)]
    <3>1. result = IF ~filled.ok THEN filled
                   ELSE CASE IsItem(record) ->
                               [ReplayItem(filled, record) EXCEPT !.head = NoteRecord(@, record, k + 1)]
                          [] record.type = "operation" ->
                               [ReplayOperation(filled, record) EXCEPT !.head = NoteRecord(@, record, k + 1)]
                          [] record.type = "checkpoint" -> filled
      BY Zenon DEF ReplaySuffix, record
    <3>2. record.type # "operation" /\ record.type # "checkpoint"
      BY <1>5 DEF IsItem
    <3> HIDE DEF result, archived, filled
    <3>3. result = IF ~filled.ok THEN filled
                   ELSE [ReplayItem(filled, record) EXCEPT !.head = NoteRecord(@, record, k + 1)]
      BY <1>5, <3>1, <3>2
    <3> QED BY <3>3 DEF result, filled, archived
  <2> HIDE DEF archived, filled
  <2>a. ItemMirrored(filled, whole.head, records, k, record)
    <3>1. /\ record = records[k + 1] /\ Resolvable(whole.head, record.item)
          /\ Accepts(whole.head, Resolved(whole.head, record.item)) /\ record.seq = whole.head.seq + 1
          /\ record \in Records /\ ~IsFork(record) /\ Follows(record, whole.head, records, k + 1)
      BY <1>2, <1>5 DEF record
    <3> HIDE DEF item
    <3> QED BY <1>5, <2>1, <3>1, SuffixItem
  <2>3. /\ ReplayItem(filled, record) = played
        /\ added \in Heads /\ item \in WholeItems
        /\ Mirroring(head, AddItem(whole.head, item), records, k + 1)
        /\ head.located = filled.head.located
    BY <2>a DEF ItemMirrored
  <2>4. result = [played EXCEPT !.head = NoteRecord(@, record, k + 1)]
    <3> HIDE DEF played, result
    <3> QED BY <2>1, <2>2, <2>3
  <2> HIDE DEF item, added
  <2>5. /\ played \in ReadStates /\ played.ok /\ played.head = added /\ played.after = state.after
        /\ played.items = Append(state.items, item)
    <3>1. Continues(filled, played, added, item)
      BY <2>1, <2>3, StateWith
    <3> HIDE DEF played
    <3> QED BY <2>1, <3>1 DEF Continues
  <2>6. result = WithHead(played, head)
    <3> HIDE DEF result, played
    <3>1. played.head = added
      BY <2>5
    <3> QED BY <2>4, <3>1, Zenon DEF WithHead, head
  <2>7. head \in Heads
    BY <2>3 DEF Mirroring
  <2> HIDE DEF head, played, result
  <2>8. /\ result \in ReadStates /\ result.ok /\ result.head = head /\ result.after = state.after
        /\ result.items = Append(state.items, item)
    <3>1. HasHead(played, WithHead(played, head), head)
      BY <2>5, <2>7, StateWithHead
    <3> QED BY <2>5, <2>6, <3>1 DEF HasHead
  <2>9. next.items = Append(whole.items, item) /\ next.head = AddItem(whole.head, item)
    BY <1>2, <1>5 DEF item
  <2>10. Len(next.items) = Len(whole.items) + 1
    BY <1>4, <2>3, <2>9, AppendProperties
  <2>11. result.items = SubSeq(next.items, state.after + 1, Len(next.items))
    <3>1. SubSeq(Append(whole.items, item), state.after + 1, Len(whole.items) + 1)
            = Append(SubSeq(whole.items, state.after + 1, Len(whole.items)), item)
      BY <1>3, <1>4, <2>3, AppendToRest
    <3> QED BY <1>3, <2>8, <2>9, <2>10, <3>1
  <2>12. state.after \in 0 .. Len(next.items)
    BY <1>3, <1>4, <2>10
  <2>13. /\ result \in ReadStates /\ result.ok
         /\ Mirroring(result.head, next.head, records, k + 1) /\ result.head.located
         /\ result.after \in 0 .. Len(next.items)
         /\ result.items = SubSeq(next.items, result.after + 1, Len(next.items))
         /\ result.after = state.after
    BY <2>1, <2>3, <2>8, <2>9, <2>11, <2>12
  <2> QED BY <2>13 DEF Stands, StandsOn, next, result, f
<1>6. CASE record.type = "operation"
  <2> DEFINE saved == SaveOperation(state.head, record.op, record.value)
             head == NoteRecord(saved, record, k + 1)
             played == WithHead(state, saved)
  <2>0. ~IsItem(record)
    BY <1>6 DEF IsItem
  <2>1. DOMAIN state.head.ops = DOMAIN whole.head.ops
    BY <1>3 DEF Mirroring
  <2>2. CanSave(whole.head, record.op) /\ CanSave(state.head, record.op)
    BY <1>2, <1>6, <2>1 DEF CanSave
  <2>3. ReplayOperation(state, record) = played
    BY <2>2, Zenon DEF ReplayOperation, WithHead
  <2>4. result = [played EXCEPT !.head = NoteRecord(@, record, k + 1)]
    <3>1. result = [ReplayOperation(state, record) EXCEPT !.head = NoteRecord(@, record, k + 1)]
      BY <1>3, <1>6, <2>0, Zenon DEF ReplaySuffix, record
    <3> QED BY <2>3, <3>1
  <2>5. /\ Mirroring(head, SaveOperation(whole.head, record.op, record.value), records, k + 1)
        /\ head.located = state.head.located
    <3>1. record = records[k + 1] /\ record \in Records /\ CanSave(whole.head, record.op)
      BY <1>2, <2>2 DEF record
    <3>2. SaveMirrored(state.head, whole.head, records, k, record)
      BY <1>3, <1>6, <3>1, MirrorsOperation
    <3> QED BY <3>2 DEF SaveMirrored
  <2>6. record.op \in DOMAIN state.head.ops /\ record.value \in Values
    BY <1>2, <1>6, <2>2, RecordKinds, Marks DEF CanSave
  <2>7. saved \in Heads
    <3>1. SavedTo(state.head, saved, record.op, record.value)
      BY <1>3, <2>6, SavedOperation
    <3> QED BY <3>1 DEF SavedTo
  <2> HIDE DEF saved
  <2>8. played \in ReadStates /\ played.ok /\ played.head = saved /\ played.after = state.after
        /\ played.items = state.items
    <3>1. HasHead(state, WithHead(state, saved), saved)
      BY <1>3, <2>7, StateWithHead
    <3> QED BY <1>3, <3>1 DEF HasHead
  <2>9. result = WithHead(played, head)
    <3> HIDE DEF result, played
    <3>1. played.head = saved
      BY <2>8
    <3> QED BY <2>4, <3>1, Zenon DEF WithHead, head
  <2>10. head \in Heads
    BY <2>5 DEF Mirroring
  <2> HIDE DEF head, played, result
  <2>11. /\ result \in ReadStates /\ result.ok /\ result.head = head /\ result.after = state.after
        /\ result.items = state.items
    <3>1. HasHead(played, WithHead(played, head), head)
      BY <2>8, <2>10, StateWithHead
    <3> QED BY <2>8, <2>9, <3>1 DEF HasHead
  <2>12. next.items = whole.items /\ next.head = SaveOperation(whole.head, record.op, record.value)
    BY <1>2, <1>6
  <2>13. /\ result \in ReadStates /\ result.ok
         /\ Mirroring(result.head, next.head, records, k + 1) /\ result.head.located
         /\ result.after \in 0 .. Len(next.items)
         /\ result.items = SubSeq(next.items, result.after + 1, Len(next.items))
         /\ result.after = state.after
    BY <1>3, <2>5, <2>11, <2>12
  <2> QED BY <2>13 DEF Stands, StandsOn, next, result, f
<1>7. CASE record.type = "checkpoint"
  <2>0. ~IsItem(record) /\ record.type # "operation"
    BY <1>7 DEF IsItem
  <2>1. result = state
    BY <1>3, <1>7, <2>0 DEF ReplaySuffix, record
  <2>2. next = whole
    BY <1>2, <1>7
  <2>3. Mirroring(state.head, whole.head, records, k + 1)
    <3>1. MirroredPlaces(state.head, whole.head, records, k + 1)
      BY <1>3, MorePlaces DEF Mirroring
    <3> QED BY <1>3, <3>1 DEF Mirroring
  <2> HIDE DEF result
  <2> QED BY <1>3, <2>1, <2>2, <2>3 DEF Stands, StandsOn, next, result, f
<1> QED BY <1>2, <1>5, <1>6, <1>7, RecordKinds DEF IsItem, f

\* What is read from a checkpoint on: n records after the one at from.
Replayed(records, state, k) == IF state.ok THEN ReplaySuffix(records, state, k) ELSE state

ResumeBy(f, records, from, start, n) ==
  f = [i \in 0 .. n |->
         IF i = 0 THEN start
         ELSE CHOOSE next \in {IF state.ok THEN ReplaySuffix(records, state, from + i) ELSE state :
                                 state \in {f[i - 1]}} : TRUE]

LEMMA OneReplayed ==
  ASSUME NEW s, NEW records, NEW k
  PROVE  (CHOOSE next \in {IF state.ok THEN ReplaySuffix(records, state, k) ELSE state :
                             state \in {s}} : TRUE)
           = Replayed(records, s, k)
<1> DEFINE e == IF s.ok THEN ReplaySuffix(records, s, k) ELSE s
<1>1. {IF state.ok THEN ReplaySuffix(records, state, k) ELSE state : state \in {s}} = {e}
  OBVIOUS
<1>2. e = Replayed(records, s, k)
  BY DEF Replayed
<1> HIDE DEF e
<1>3. (CHOOSE next \in {e} : TRUE) = e
  OBVIOUS
<1> QED BY <1>1, <1>2, <1>3

LEMMA ResumeByDef ==
  ASSUME NEW f, NEW records, NEW from, NEW start, NEW n \in Nat
  PROVE  ResumeBy(f, records, from, start, n) <=>
           f = [i \in 0 .. n |-> IF i = 0 THEN start ELSE Replayed(records, f[i - 1], from + i)]
<1> DEFINE Chosen(i) == CHOOSE next \in {IF state.ok THEN ReplaySuffix(records, state, from + i) ELSE state :
                                 state \in {f[i - 1]}} : TRUE
<1>1. \A i \in 0 .. n : Chosen(i) = Replayed(records, f[i - 1], from + i)
  <2> TAKE i \in 0 .. n
  <2> QED BY OneReplayed
<1>2. ResumeBy(f, records, from, start, n) <=> f = [i \in 0 .. n |-> IF i = 0 THEN start ELSE Chosen(i)]
  BY Zenon DEF ResumeBy
<1> HIDE DEF Chosen
<1>3. [i \in 0 .. n |-> IF i = 0 THEN start ELSE Chosen(i)]
        = [i \in 0 .. n |-> IF i = 0 THEN start ELSE Replayed(records, f[i - 1], from + i)]
  BY <1>1
<1> QED BY <1>2, <1>3

LEMMA ResumeByExists ==
  ASSUME NEW records, NEW from, NEW start, NEW n \in Nat
  PROVE  \E f : ResumeBy(f, records, from, start, n)
<1> DEFINE S == {m \in Nat : \E f : ResumeBy(f, records, from, start, m)}
<1>1. 0 \in S
  <2> DEFINE f == [i \in 0 .. 0 |-> start]
  <2>1. f = [i \in 0 .. 0 |-> IF i = 0 THEN start ELSE Replayed(records, f[i - 1], from + i)]
    OBVIOUS
  <2> HIDE DEF f
  <2>2. ResumeBy(f, records, from, start, 0)
    BY <2>1, ResumeByDef
  <2> QED BY <2>2
<1>2. ASSUME NEW m \in Nat, m \in S PROVE m + 1 \in S
  <2>0. PICK f : ResumeBy(f, records, from, start, m)
    BY <1>2
  <2> DEFINE g == [i \in 0 .. m + 1 |->
                     IF i = m + 1 THEN Replayed(records, f[m], from + i) ELSE f[i]]
  <2>1. \A i \in 0 .. m : f[i] = IF i = 0 THEN start ELSE Replayed(records, f[i - 1], from + i)
    <3>1. f = [i \in 0 .. m |-> IF i = 0 THEN start ELSE Replayed(records, f[i - 1], from + i)]
      BY <2>0, ResumeByDef
    <3> QED BY <3>1
  <2>2. \A i \in 0 .. m : g[i] = f[i]
    OBVIOUS
  <2>3. \A i \in 0 .. m + 1 : g[i] = IF i = 0 THEN start ELSE Replayed(records, g[i - 1], from + i)
    <3> SUFFICES ASSUME NEW i \in 0 .. m + 1
                 PROVE  g[i] = IF i = 0 THEN start ELSE Replayed(records, g[i - 1], from + i)
      OBVIOUS
    <3>1. CASE i = m + 1
      <4>1. i # 0 /\ i - 1 = m /\ m \in 0 .. m
        BY <3>1
      <4> QED BY <2>2, <3>1, <4>1
    <3>2. CASE i \in 0 .. m
      <4>1. i = 0 \/ i - 1 \in 0 .. m
        BY <3>2
      <4>2. g[i] = f[i] /\ (i # 0 => g[i - 1] = f[i - 1])
        BY <2>2, <3>2, <4>1
      <4> HIDE DEF g
      <4> QED BY <2>1, <3>2, <4>2
    <3> QED BY <3>1, <3>2
  <2>4. g = [i \in 0 .. m + 1 |-> g[i]]
    OBVIOUS
  <2> HIDE DEF g
  <2>5. g = [i \in 0 .. m + 1 |-> IF i = 0 THEN start ELSE Replayed(records, g[i - 1], from + i)]
    BY <2>3, <2>4
  <2>6. ResumeBy(g, records, from, start, m + 1)
    BY <2>5, ResumeByDef
  <2> QED BY <2>6
<1> HIDE DEF S
<1>3. Nat \subseteq S
  BY <1>1, <1>2, NatSetInduction
<1> QED BY <1>3 DEF S

\* From a checkpoint that stands for the file up to it, the resumed state stands for all of it.
LEMMA ResumesAt ==
  ASSUME NEW records \in Seq(Records), Legible(records),
         NEW from \in Nat, from >= LastFork(records), from <= Len(records),
         NEW start, Stands(records, LastFork(records), from, start),
         NEW n \in Nat, n = Len(records) - from
  PROVE  LET state == (CHOOSE f : ResumeBy(f, records, from, start, n))[n]
         IN Stands(records, LastFork(records), Len(records), state) /\ state.after = start.after
<1> DEFINE f == CHOOSE f : ResumeBy(f, records, from, start, n)
           last == LastFork(records)
           S == {i \in Nat : i <= n => Stands(records, last, from + i, f[i]) /\ f[i].after = start.after}
<1>0. ResumeBy(f, records, from, start, n)
  BY ResumeByExists, Zenon
<1>1. f = [i \in 0 .. n |-> IF i = 0 THEN start ELSE Replayed(records, f[i - 1], from + i)]
  <2> HIDE DEF f
  <2> QED BY <1>0, ResumeByDef
<1> HIDE DEF f
<1>2. \A i \in 0 .. n : f[i] = IF i = 0 THEN start ELSE Replayed(records, f[i - 1], from + i)
  BY <1>1
<1>a. last \in Nat /\ Len(records) \in Nat
  <2>1. Len(records) \in Nat
    BY LenProperties
  <2> QED BY <2>1, ForkPlace
<1>g. from >= last
  OBVIOUS
<1> HIDE DEF last
<1>3. 0 \in S
  <2>1. f[0] = start /\ from + 0 = from
    BY <1>2
  <2> QED BY <2>1 DEF last
<1>4. ASSUME NEW i \in Nat, i \in S PROVE i + 1 \in S
  <2> SUFFICES ASSUME i + 1 <= n
               PROVE  Stands(records, last, from + (i + 1), f[i + 1]) /\ f[i + 1].after = start.after
    OBVIOUS
  <2>1. /\ i + 1 \in 0 .. n /\ i + 1 # 0 /\ (i + 1) - 1 = i /\ from + (i + 1) = (from + i) + 1
        /\ from + i \in Nat /\ from + i >= last /\ (from + i) + 1 <= Len(records)
    BY <1>a, <1>g
  <2>2. Stands(records, last, from + i, f[i]) /\ f[i].after = start.after
    BY <1>4
  <2>3. f[i + 1] = Replayed(records, f[i], (from + i) + 1)
    BY <1>2, <2>1
  <2>4. f[i].ok
    BY <2>2 DEF Stands
  <2>5. f[i + 1] = ReplaySuffix(records, f[i], (from + i) + 1)
    BY <2>3, <2>4 DEF Replayed
  <2>6. StandsOn(records, last, from + i, f[i])
    BY <2>1, <2>2, SuffixStep DEF last
  <2> QED BY <2>1, <2>2, <2>5, <2>6 DEF StandsOn
<1> HIDE DEF S
<1>5. n \in S
  BY <1>3, <1>4, NatSetInduction
<1>6. from + n = Len(records)
  BY <1>a
<1> QED BY <1>5, <1>6 DEF S, f, last

\* A checkpoint of a file stands for all before it, and can be resumed from.
CheckpointAt(records, f, k) ==
  /\ k > f
  /\ ValidCheckpoint(records, k)
  /\ records[k].head \in Heads /\ records[k].head.located /\ records[k].head.seq # 0
  /\ Mirroring(records[k].head, Reading(records, f, k).head, records, k)

\* Every checkpoint after the last fork is valid, and stands for all before it.
LEMMA CheckpointStands ==
  ASSUME NEW records \in Seq(Records), Legible(records),
         NEW k \in 1 .. Len(records), records[k].type = "checkpoint"
  PROVE  CheckpointAt(records, LastFork(records), k)
<1> DEFINE f == LastFork(records)
           n == Len(records)
           head == records[k].head
           before == Reading(records, f, k - 1)
           whole == Reading(records, f, k)
<1>0. Parts(records, f, n)
  BY LegibleParts
<1>r. \A m \in 0 .. n : Read(records, f, m)
  BY ReadingIsReadable
<1> HIDE DEF f, n
<1>1. k \in 1 .. n /\ n \in Nat /\ f \in Nat /\ k \in Nat
  BY <1>0 DEF Parts, n
<1>2. records[k] \in Records /\ ~IsItem(records[k])
  BY <1>0, <1>1 DEF Parts, IsItem
<1>3. k > f /\ k \in f + 1 .. n
  BY <1>0, <1>1, <1>2 DEF Parts
<1>4. Follows(records[k], before.head, records, k)
  BY <1>0, <1>3 DEF Parts
<1>5. k - 1 \in 0 .. n /\ k - 1 >= f /\ k - 1 \in Nat /\ (k - 1) + 1 = k
  BY <1>1, <1>3
<1>6. Readable(before) /\ Sane(before.head)
  BY <1>5, <1>r DEF Read
<1>7. before \in ReadStates /\ before.ok /\ before.head \in Heads /\ Fresh(before.head)
  BY <1>6 DEF Readable, ReadStates
<1>8. whole = before
  <2>1. whole = DecodeRecord(before, records[k], k, f)
    <3>1. Reading(records, f, (k - 1) + 1) = DecodeRecord(Reading(records, f, k - 1), records[(k - 1) + 1], (k - 1) + 1, f)
      BY <1>1, <1>5, ReadingSteps
    <3> QED BY <1>5, <3>1
  <2> HIDE DEF whole, before
  <2>2. whole.ok
    <3>1. Read(records, f, k)
      BY <1>1, <1>r
    <3> QED BY <3>1 DEF Read, Readable, whole
  <2> QED BY <1>1, <1>2, <1>7, <2>1, <2>2, ReadOther
<1> HIDE DEF whole, before
<1>9. /\ records[k].at = k /\ head.seq # 0 /\ head.located
      /\ Mirrors(head, before.head, records, k - 1)
  BY <1>4 DEF Follows
<1>10. head \in Heads
  BY <1>2, RecordKinds
<1> HIDE DEF head
<1>11. Mirroring(head, before.head, records, k - 1)
  BY <1>5, <1>6, <1>7, <1>9, <1>10, MirroringIs
<1>12. /\ Equal(head, before.head) /\ DOMAIN head.ops = DOMAIN before.head.ops
       /\ head.archived \subseteq DOMAIN head.ops /\ MirroredOps(head, before.head)
       /\ MirroredPlaces(head, before.head, records, k - 1)
  BY <1>11 DEF Mirroring
<1>13. MirroredPlaces(head, before.head, records, k)
  BY <1>5, <1>12, MorePlaces
<1>14. Mirroring(head, whole.head, records, k)
  BY <1>1, <1>8, <1>11, <1>13 DEF Mirroring
<1>15. Restorable(head, k)
  <2>1. /\ head.latest \in head.turns \cup {None} /\ head.owned \subseteq head.turns
        /\ head.responded \subseteq head.owned
        /\ \A call \in head.calls : call[1] \in head.owned
    BY <1>6, <1>7, <1>12 DEF Equal, Sane, Fresh
  <2>2. \A o \in DOMAIN head.ops : head.offsets[o] \in 1 .. k - 1
    BY <1>9, <1>10, <1>12, HeadParts DEF MirroredPlaces
  <2>3. \A o \in head.archived : Finished(head.ops[o]) /\ o \notin head.pending /\ head.ops[o].state = Bare
    <3> SUFFICES ASSUME NEW o \in head.archived
                 PROVE  Finished(head.ops[o]) /\ o \notin head.pending /\ head.ops[o].state = Bare
      OBVIOUS
    <3>1. /\ Finished(before.head.ops[o]) /\ o \notin before.head.pending
          /\ head.ops[o] = [before.head.ops[o] EXCEPT !.state = Bare]
      BY <1>12 DEF MirroredOps
    <3>2. before.head.ops[o] \in Values
      BY <1>7, <1>12, OpsType
    <3>3. head.ops[o].state = Bare /\ (Finished(head.ops[o]) <=> Finished(before.head.ops[o]))
      BY <3>1, <3>2, BareValue
    <3> QED BY <1>12, <3>1, <3>3 DEF Equal
  <2> QED BY <1>9, <2>1, <2>2, <2>3 DEF Restorable
<1> QED BY <1>3, <1>9, <1>10, <1>14, <1>15 DEF CheckpointAt, ValidCheckpoint, head, whole, f

\* The head of the whole history stands for itself.
LEMMA MirrorsItself ==
  ASSUME NEW whole \in Heads, Sane(whole), Fresh(whole), NEW records, NEW n \in Nat
  PROVE  Mirroring(whole, whole, records, n)
<1>1. MirroredOps(whole, whole) /\ MirroredPlaces(whole, whole, records, n)
  BY DEF MirroredOps, MirroredPlaces, Fresh
<1> QED BY <1>1 DEF Mirroring, Equal, Fresh

\* What is read from the latest checkpoint on is what the whole file holds.
Resumed(records, state) ==
  LET whole == DecodeLog(records)
  IN /\ state \in ReadStates /\ state.ok
     /\ Mirroring(state.head, whole.head, records, Len(records))
     /\ state.after \in 0 .. Len(whole.items)
     /\ state.items = SubSeq(whole.items, state.after + 1, Len(whole.items))
     /\ state.after = 0 => state = whole

LEMMA AllOfIt ==
  ASSUME NEW S, NEW s \in Seq(S)
  PROVE  SubSeq(s, 1, Len(s)) = s
<1>0. Len(s) \in Nat
  BY LenProperties
<1>1. /\ SubSeq(s, 1, Len(s)) \in Seq(S)
      /\ Len(SubSeq(s, 1, Len(s))) = Len(s)
      /\ \A k \in 1 .. Len(s) : SubSeq(s, 1, Len(s))[k] = s[k]
  <2>1. 1 \in 1 .. Len(s) + 1 /\ Len(s) \in 0 .. Len(s)
    BY <1>0
  <2> QED BY <1>0, <2>1, SubSeqProperties
<1> QED BY <1>1, SeqEqual

LEMMA NoneOfIt ==
  ASSUME NEW S, NEW s \in Seq(S)
  PROVE  SubSeq(s, Len(s) + 1, Len(s)) = <<>>
<1>0. Len(s) \in Nat
  BY LenProperties
<1>1. /\ SubSeq(s, Len(s) + 1, Len(s)) \in Seq(S)
      /\ Len(SubSeq(s, Len(s) + 1, Len(s))) = 0
  BY <1>0, SubSeqProperties
<1> QED BY <1>1, EmptySeq

\* decodeResumeLog gives what decodeLog does: a head that stands for it, and the items since.
LEMMA Resuming ==
  ASSUME NEW records \in Seq(Records), Legible(records)
  PROVE  Resumed(records, DecodeResumeLog(records))
<1> DEFINE f == LastFork(records)
           n == Len(records)
           whole == Reading(records, f, n)
           valid == {k \in 1 .. n : ValidCheckpoint(records, k)}
           from == Max(valid)
           suffix == SubSeq(records, from + 1, n)
           head == records[from].head
           start == [Read0 EXCEPT !.head = head, !.after = head.seq]
           result == DecodeResumeLog(records)
<1>0. Parts(records, f, n)
  BY LegibleParts
<1>r. \A m \in 0 .. n : Read(records, f, m)
  BY ReadingIsReadable
<1> HIDE DEF f
<1>1. n \in Nat /\ f \in 0 .. n /\ DecodeLog(records) = whole
  BY <1>0 DEF Parts
<1>2. Readable(whole) /\ Sane(whole.head)
  BY <1>1, <1>r DEF Read
<1>3. whole \in ReadStates /\ whole.ok /\ whole.after = 0 /\ whole.head \in Heads /\ Fresh(whole.head)
      /\ whole.items \in Seq(WholeItems) /\ Len(whole.items) \in Nat
  <2>1. whole \in ReadStates /\ whole.ok /\ whole.after = 0 /\ Fresh(whole.head)
    BY <1>2 DEF Readable
  <2>2. whole.head \in Heads /\ whole.items \in Seq(WholeItems)
    BY <2>1 DEF ReadStates
  <2> QED BY <2>1, <2>2, LenProperties
<1>4. Resumed(records, whole)
  <2>1. Mirroring(whole.head, whole.head, records, n)
    BY <1>1, <1>2, <1>3, MirrorsItself
  <2>2. SubSeq(whole.items, 1, Len(whole.items)) = whole.items
    BY <1>3, AllOfIt
  <2>3. 0 + 1 = 1 /\ 0 \in 0 .. Len(whole.items)
    BY <1>3
  <2> HIDE DEF whole
  <2> QED BY <1>1, <1>3, <2>1, <2>2, <2>3 DEF Resumed
<1>5. CASE valid = {} \/ \E k \in 1 .. Len(suffix) : IsFork(suffix[k])
  <2>1. result = DecodeLog(records)
    BY <1>5, Zenon DEF DecodeResumeLog
  <2> QED BY <1>1, <1>4, <2>1
<1>6. CASE ~(valid = {} \/ \E k \in 1 .. Len(suffix) : IsFork(suffix[k]))
  <2>1. result = (CHOOSE g : ResumeBy(g, records, from, start, Len(suffix)))[Len(suffix)]
    BY <1>6, Zenon DEF DecodeResumeLog, Over, ResumeBy
  <2>2. valid \in SUBSET (1 .. n) /\ valid # {}
    BY <1>6
  <2>3. from \in valid
    BY <1>1, <2>2, LastPlace
  <2>4. from \in 1 .. n /\ records[from].type = "checkpoint"
    BY <2>3 DEF ValidCheckpoint
  <2> HIDE DEF valid, from
  <2>5. CheckpointAt(records, f, from)
    BY <2>4, CheckpointStands DEF f
  <2>6. /\ from \in Nat /\ from > f /\ from <= n /\ head \in Heads /\ head.located /\ head.seq # 0
        /\ Mirroring(head, Reading(records, f, from).head, records, from)
    BY <1>1, <2>4, <2>5 DEF CheckpointAt
  <2>7. Len(suffix) = n - from /\ n - from \in Nat
    <3>0. n = Len(records)
      OBVIOUS
    <3> HIDE DEF n
    <3>1. Len(suffix) = IF from + 1 <= n THEN n - (from + 1) + 1 ELSE 0
      <4>1. \A i \in from + 1 .. n : records[i] \in Records
        BY <2>6, <1>1, <3>0, ElementOfSeq
      <4> QED BY <1>1, <2>6, <3>0, <4>1, SubSeqProperties
    <3> HIDE DEF suffix
    <3> QED BY <1>1, <2>6, <3>1
  <2>8. Stands(records, f, from, start)
    <3> DEFINE at == Reading(records, f, from)
    <3>1. Readable(at)
      <4>1. Read(records, f, from)
        BY <2>4, <2>6, <1>r
      <4> QED BY <4>1 DEF Read
    <3>2. at.items \in Seq(WholeItems) /\ Len(at.items) = at.head.seq
      BY <3>1 DEF Readable, ReadStates
    <3>3. head.seq = at.head.seq
      BY <2>6 DEF Mirroring, Equal
    <3> HIDE DEF head, at
    <3>4. head.seq \in Nat
      BY <2>6, HeadParts
    <3>5. start \in ReadStates /\ start.ok /\ start.head = head /\ start.after = head.seq /\ start.items = <<>>
      <4>1. Readable(Read0)
        BY Read0IsReadable
      <4>2. Read0 \in ReadStates /\ Read0.ok /\ Read0.items = <<>>
        BY <4>1 DEF Readable, Read0
      <4>3. start \in ReadStates /\ start.ok = Read0.ok /\ start.head = head /\ start.after = head.seq
            /\ start.items = Read0.items
        <5> HIDE DEF Read0
        <5> QED BY <2>6, <3>4, <4>2 DEF ReadStates
      <4> QED BY <4>2, <4>3
    <3>6. SubSeq(at.items, start.after + 1, Len(at.items)) = <<>>
      BY <3>2, <3>3, <3>5, NoneOfIt
    <3>7. start.after \in 0 .. Len(at.items)
      BY <3>2, <3>3, <3>4, <3>5
    <3> HIDE DEF start
    <3> QED BY <2>6, <3>5, <3>6, <3>7 DEF Stands, at
  <2>9. start.after # 0
    <3> HIDE DEF head
    <3> QED BY <2>6 DEF Read0
  <2> HIDE DEF start, suffix
  <2>10. Stands(records, f, n, result) /\ result.after = start.after
    <3> DEFINE m == Len(suffix)
    <3>1. m \in Nat /\ m = Len(records) - from /\ from >= LastFork(records) /\ from <= Len(records)
          /\ Stands(records, LastFork(records), from, start) /\ from \in Nat
      BY <1>1, <2>6, <2>7, <2>8 DEF f
    <3> HIDE DEF m
    <3>2. Stands(records, LastFork(records), Len(records), (CHOOSE g : ResumeBy(g, records, from, start, m))[m])
          /\ (CHOOSE g : ResumeBy(g, records, from, start, m))[m].after = start.after
      BY <3>1, ResumesAt
    <3> QED BY <2>1, <3>2 DEF m, f
  <2> HIDE DEF result
  <2> QED BY <1>1, <2>9, <2>10 DEF Stands, Resumed, result
<1> QED BY <1>5, <1>6

-----------------------------------------------------------------------------
(* Files the store leaves *)

\* Files that are alike so far hold operations at the same places.
LEMMA PlacesAlike ==
  ASSUME NEW head, NEW whole, NEW a, NEW b, NEW n, \A i \in 1 .. n : a[i] = b[i],
         MirroredPlaces(head, whole, a, n)
  PROVE  MirroredPlaces(head, whole, b, n)
BY DEF MirroredPlaces

\* What a record follows are the records before it.
LEMMA FollowsAlike ==
  ASSUME NEW record, NEW whole, NEW a, NEW b, NEW k, \A i \in 1 .. k - 1 : a[i] = b[i],
         Follows(record, whole, a, k)
  PROVE  Follows(record, whole, b, k)
<1>1. ASSUME record.type = "checkpoint" PROVE Mirrors(record.head, whole, b, k - 1)
  <2> DEFINE n == k - 1
  <2>1. Mirrors(record.head, whole, a, n) /\ \A i \in 1 .. n : a[i] = b[i]
    BY <1>1 DEF Follows
  <2> HIDE DEF n
  <2>2. MirroredPlaces(record.head, whole, a, n)
    BY <2>1, MirrorsIs
  <2>3. MirroredPlaces(record.head, whole, b, n)
    BY <2>1, <2>2, PlacesAlike
  <2>4. Mirrors(record.head, whole, b, n)
    BY <2>1, <2>3, MirrorsIs
  <2> QED BY <2>4 DEF n
<1> QED BY <1>1 DEF Follows

\* What makes a file legible, in terms of its reading.
LEMMA LegibleIf ==
  ASSUME NEW records \in Seq(Records),
         \A k \in 1 .. LastFork(records) : IsItem(records[k]),
         \A k \in LastFork(records) + 1 .. Len(records) :
           Follows(records[k], Reading(records, LastFork(records), k - 1).head, records, k),
         Reading(records, LastFork(records), Len(records)).ok
  PROVE  Legible(records)
<1> DEFINE f == LastFork(records)
           n == Len(records)
<1>1. n \in Nat /\ f \in 0 .. n
  BY LenProperties, ForkPlace
<1>2. DecodeLog(records).ok
  BY DecodeIsReading
<1>3. ASSUME NEW k \in f + 1 .. n
      PROVE  Follows(records[k], DecodeLog(SubSeq(records, 1, k - 1)).head, records, k)
  <2>1. k - 1 \in Nat /\ k - 1 <= n /\ f <= k - 1
    BY <1>1
  <2>2. DecodeLog(SubSeq(records, 1, k - 1)) = Reading(records, f, k - 1)
    BY <2>1, PrefixIsReading
  <2>3. Follows(records[k], Reading(records, f, k - 1).head, records, k)
    OBVIOUS
  <2> QED BY <2>2, <2>3
<1> QED BY <1>2, <1>3 DEF Legible

\* The first records of a file, with all that it inherited.
LEMMA LegiblePrefix ==
  ASSUME NEW records \in Seq(Records), Legible(records),
         NEW n \in Nat, n <= Len(records), LastFork(records) <= n
  PROVE  Legible(SubSeq(records, 1, n))
<1> DEFINE p == SubSeq(records, 1, n)
           f == LastFork(records)
<1>0. Parts(records, f, Len(records))
  BY LegibleParts
<1>1. p \in Seq(Records) /\ Len(p) = n /\ (\A k \in 1 .. n : p[k] = records[k]) /\ LastFork(p) = f
  BY PrefixIsReading
<1>2. Len(records) \in Nat /\ f \in Nat /\ f <= n
  BY <1>0 DEF Parts
<1> HIDE DEF p, f
<1>a. ASSUME NEW m \in 0 .. n PROVE Reading(p, f, m) = Reading(records, f, m)
  <2>1. m \in Nat /\ Alike(p, records, f, f, m)
    BY <1>1, <1>2 DEF Alike
  <2> QED BY <1>2, <2>1, ReadingAlike
<1>3. \A k \in 1 .. f : IsItem(p[k])
  <2> SUFFICES ASSUME NEW k \in 1 .. f PROVE IsItem(p[k])
    OBVIOUS
  <2>1. k \in 1 .. n
    BY <1>2
  <2> QED BY <1>0, <1>1, <2>1 DEF Parts
<1>4. ASSUME NEW k \in f + 1 .. n PROVE Follows(p[k], Reading(p, f, k - 1).head, p, k)
  <2>1. k \in f + 1 .. Len(records) /\ k \in 1 .. n /\ k - 1 \in 0 .. n /\ \A i \in 1 .. k - 1 : i \in 1 .. n
    BY <1>2
  <2>2. Follows(records[k], Reading(records, f, k - 1).head, records, k)
    BY <1>0, <2>1 DEF Parts
  <2>3. Follows(records[k], Reading(records, f, k - 1).head, p, k)
    <3>1. \A i \in 1 .. k - 1 : records[i] = p[i]
      BY <1>1, <2>1
    <3> QED BY <2>2, <3>1, FollowsAlike
  <2> QED BY <1>1, <1>a, <2>1, <2>3
<1>5. Reading(p, f, n).ok
  <2>1. Reading(records, f, n).ok
    BY <1>0, <1>2, ReadingOk DEF Parts
  <2>2. n \in 0 .. n
    OBVIOUS
  <2> QED BY <1>a, <2>1, <2>2
<1> QED BY <1>1, <1>3, <1>4, <1>5, LegibleIf DEF p

\* A record that follows what is there and is accepted.
LEMMA LegibleAppend ==
  ASSUME NEW records \in Seq(Records), Legible(records),
         NEW record \in Records, ~IsFork(record),
         Follows(record, DecodeLog(records).head, records, Len(records) + 1),
         DecodeRecord(DecodeLog(records), record, Len(records) + 1, LastFork(records)).ok
  PROVE  Legible(Append(records, record))
<1> DEFINE more == Append(records, record)
           f == LastFork(records)
           n == Len(records)
<1>0. Parts(records, f, n)
  BY LegibleParts
<1>1. /\ more \in Seq(Records) /\ Len(more) = n + 1 /\ more[n + 1] = record
      /\ \A k \in 1 .. n : more[k] = records[k]
      /\ LastFork(more) = f
      /\ DecodeLog(more) = DecodeRecord(DecodeLog(records), record, n + 1, f)
  BY DecodeAppend
<1>2. n \in Nat /\ f \in Nat /\ f <= n /\ DecodeLog(records) = Reading(records, f, n)
  BY <1>0 DEF Parts
<1>3. Follows(record, DecodeLog(records).head, records, n + 1) /\ DecodeLog(more).ok
  BY <1>1
<1>4. DecodeLog(more) = Reading(more, f, n + 1)
  BY <1>1, DecodeIsReading
<1> HIDE DEF more, f, n
<1>a. ASSUME NEW m \in 0 .. n PROVE Reading(more, f, m) = Reading(records, f, m)
  <2>1. m \in Nat /\ Alike(more, records, f, f, m)
    BY <1>1, <1>2 DEF Alike
  <2> QED BY <1>2, <2>1, ReadingAlike
<1>5. \A k \in 1 .. f : IsItem(more[k])
  <2> SUFFICES ASSUME NEW k \in 1 .. f PROVE IsItem(more[k])
    OBVIOUS
  <2>1. k \in 1 .. n
    BY <1>2
  <2> QED BY <1>0, <1>1, <2>1 DEF Parts
<1>6. ASSUME NEW k \in f + 1 .. n + 1 PROVE Follows(more[k], Reading(more, f, k - 1).head, more, k)
  <2>0. k - 1 \in 0 .. n /\ \A i \in 1 .. k - 1 : i \in 1 .. n
    BY <1>2
  <2>1. \A i \in 1 .. k - 1 : records[i] = more[i]
    BY <1>1, <2>0
  <2>2. Follows(more[k], Reading(records, f, k - 1).head, records, k)
    <3>1. CASE k = n + 1
      <4>1. k - 1 = n
        BY <1>2, <3>1
      <4> QED BY <1>1, <1>2, <1>3, <3>1, <4>1
    <3>2. CASE k # n + 1
      <4>1. k \in f + 1 .. n /\ k \in 1 .. n
        BY <1>2, <3>2
      <4> QED BY <1>0, <1>1, <4>1 DEF Parts
    <3> QED BY <3>1, <3>2
  <2>3. Follows(more[k], Reading(records, f, k - 1).head, more, k)
    BY <2>1, <2>2, FollowsAlike
  <2> QED BY <1>a, <2>0, <2>3
<1> QED BY <1>1, <1>3, <1>4, <1>5, <1>6, LegibleIf DEF more

LEMMA LenOfAppend ==
  ASSUME NEW S, NEW s \in Seq(S), NEW e
  PROVE  Len(Append(s, e)) = Len(s) + 1
<1> DEFINE T == S \cup {e}
<1>1. s \in Seq(T)
  <2>1. Len(s) \in Nat /\ s \in [1 .. Len(s) -> S]
    BY LenProperties
  <2>2. s \in [1 .. Len(s) -> T]
    BY <2>1
  <2> QED BY <2>1, <2>2, SeqDef
<1> QED BY <1>1, AppendProperties

\* Records of another session's history: items in their order, without
\* operations, that end in a mark.
Inherits(records, n) ==
  /\ \A k \in 1 .. n : IsItem(records[k]) /\ records[k].seq = k
                         /\ (records[k].item.kind = "status" => records[k].item.value = None)

\* A file of items without operations that ends with a fork.
LEMMA InheritedIsLegible ==
  ASSUME NEW records \in Seq(Records), Inherits(records, Len(records)),
         Len(records) # 0 => IsFork(records[Len(records)])
  PROVE  Legible(records)
<1> DEFINE n == Len(records)
           f == LastFork(records)
           S == {k \in Nat : k <= n => /\ Readable(Reading(records, n, k))
                                       /\ Reading(records, n, k).head.ops = <<>>
                                       /\ Reading(records, n, k).head.seq = k}
<1>1. n \in Nat /\ \A k \in 1 .. n : records[k] \in Records
  BY LenProperties, ElementOfSeq
<1>2. f = n
  <2>1. f \in 0 .. n /\ \A k \in 1 .. n : IsFork(records[k]) => k <= f
    BY <1>1, ForkPlace
  <2>2. n # 0 => n \in 1 .. n /\ IsFork(records[n])
    BY <1>1
  <2>3. n # 0 => n <= f
    BY <2>1, <2>2
  <2> HIDE DEF f, n
  <2> QED BY <1>1, <2>1, <2>3
<1>i. Inherits(records, n)
  OBVIOUS
<1> HIDE DEF n, f
<1>3. 0 \in S
  <2>1. Reading(records, n, 0) = Read0
    BY <1>1, ReadingSteps
  <2> QED BY <2>1, Read0IsReadable
<1>4. ASSUME NEW k \in Nat, k \in S PROVE k + 1 \in S
  <2> SUFFICES ASSUME k + 1 <= n
               PROVE  /\ Readable(Reading(records, n, k + 1))
                      /\ Reading(records, n, k + 1).head.ops = <<>>
                      /\ Reading(records, n, k + 1).head.seq = k + 1
    OBVIOUS
  <2> DEFINE state == Reading(records, n, k)
             next == Reading(records, n, k + 1)
             record == records[k + 1]
  <2>1. Readable(state) /\ state.head.ops = <<>> /\ state.head.seq = k
    BY <1>1, <1>4
  <2>2. next = DecodeRecord(state, record, k + 1, n)
    BY <1>1, ReadingSteps
  <2>3. k + 1 \in 1 .. n /\ record \in Records /\ k + 1 \in Nat
    <3>1. k + 1 \in 1 .. n
      BY <1>1
    <3> QED BY <1>1, <3>1
  <2>4. IsItem(record) /\ record.seq = k + 1 /\ (record.item.kind = "status" => record.item.value = None)
    BY <1>i, <2>3 DEF Inherits
  <2>5. state.ok /\ state \in ReadStates /\ Len(state.items) = state.head.seq /\ state.head \in Heads
    BY <2>1 DEF Readable, ReadStates
  <2> HIDE DEF state, next, record
  <2>6. next = InheritItem(state, record)
    <3>1. ~(k + 1 > n) /\ record.type = "item"
      BY <1>1, <2>3, <2>4 DEF IsItem
    <3> QED BY <2>2, <2>4, <2>5, <3>1 DEF DecodeRecord, IsItem
  <2>7. next = With(state, Inherit(state.head, record.seq, record.item), record.item)
    <3>1. ~(\/ record.seq # state.head.seq + 1
            \/ record.item.kind = "status" /\ record.item.value # None)
      BY <2>1, <2>4
    <3> QED BY <2>6, <3>1, Zenon DEF InheritItem, With
  <2>8. next.ok
    BY <2>5, <2>7 DEF With, ReadStates
  <2>9. Readable(next) /\ next.head.ops = <<>>
    BY <1>1, <2>1, <2>2, <2>3, <2>4, <2>8, ReadableInherited
  <2>10. next.head.seq = k + 1
    <3>1. Len(next.items) = next.head.seq /\ Len(state.items) = k
      BY <2>1, <2>5, <2>9 DEF Readable
    <3>2. next.items = Append(state.items, record.item)
      BY <2>5, <2>7 DEF With, ReadStates
    <3>3. state.items \in Seq(WholeItems)
      BY <2>5 DEF ReadStates
    <3>4. Len(next.items) = Len(state.items) + 1
      BY <3>2, <3>3, LenOfAppend
    <3> QED BY <3>1, <3>4
  <2> QED BY <2>9, <2>10 DEF next
<1> HIDE DEF S
<1>5. n \in S
  BY <1>1, <1>3, <1>4, NatSetInduction
<1>6. Reading(records, f, n).ok
  BY <1>1, <1>2, <1>5 DEF S, Readable
<1>7. (\A k \in 1 .. f : IsItem(records[k])) /\ \A k \in f + 1 .. n : FALSE
  BY <1>1, <1>2, <1>i DEF Inherits
<1> QED BY <1>6, <1>7, LegibleIf DEF f, n

\* What the record after k adds.
Grows(records, f, k) ==
  LET a == Reading(records, f, k)
      b == Reading(records, f, k + 1)
      record == records[k + 1]
  IN /\ Readable(a) /\ Readable(b) /\ record \in Records
     /\ k + 1 <= f => /\ a.head.ops = <<>> /\ b.head.ops = <<>>
                      /\ IsItem(record) /\ record.seq = a.head.seq + 1
                      /\ record.item.kind = "status" => record.item.value = None
                      /\ b.items = Append(a.items, record.item)
     /\ k + 1 > f => ~IsFork(record) /\ a.head.owned \subseteq b.head.owned
     /\ IsItem(record) =>
          /\ b.head.seq = a.head.seq + 1
          /\ \E item \in WholeItems :
               /\ b.items = Append(a.items, item) /\ item.kind = record.item.kind
               /\ record.item.kind # "status" => item = record.item
     /\ ~IsItem(record) => b.head.seq = a.head.seq /\ b.items = a.items
     /\ IF IsStatus(record) /\ record.item.value # None
        THEN /\ DOMAIN b.head.ops = DOMAIN a.head.ops \cup {record.item.op}
             /\ \A o \in DOMAIN a.head.ops : b.head.ops[o] = a.head.ops[o]
        ELSE IF record.type = "operation"
        THEN /\ k + 1 > f /\ record.op \in DOMAIN a.head.ops
             /\ b.head.ops = [a.head.ops EXCEPT ![record.op] = record.value]
        ELSE b.head.ops = a.head.ops

LEMMA GrowsInherited ==
  ASSUME NEW records \in Seq(Records), Legible(records),
         NEW k \in Nat, k + 1 <= LastFork(records)
  PROVE  Grows(records, LastFork(records), k)
<1> DEFINE f == LastFork(records)
           n == Len(records)
           a == Reading(records, f, k)
           b == Reading(records, f, k + 1)
           record == records[k + 1]
<1>0. Parts(records, f, n)
  BY LegibleParts
<1>r. \A m \in 0 .. n : Read(records, f, m)
  BY ReadingIsReadable
<1>g. k + 1 <= f
  OBVIOUS
<1> HIDE DEF f, n
<1>1. n \in Nat /\ f \in Nat /\ f <= n
  BY <1>0 DEF Parts
<1>2. k + 1 \in 1 .. f /\ k + 1 \in 1 .. n /\ k \in 0 .. n /\ k + 1 \in 0 .. n /\ k <= f /\ k + 1 \in Nat /\ ~(k + 1 > f)
  BY <1>1, <1>g
<1>3. record \in Records /\ IsItem(record)
  BY <1>0, <1>2 DEF Parts
<1>4. Readable(a) /\ a.head.ops = <<>> /\ Readable(b) /\ b.head.ops = <<>>
  BY <1>2, <1>r, <1>g DEF Read
<1>5. b = DecodeRecord(a, record, k + 1, f)
  BY <1>1, ReadingSteps
<1> HIDE DEF a, b, record
<1>6. a \in ReadStates /\ a.head \in Heads /\ b.ok /\ b \in ReadStates
  BY <1>4 DEF Readable, ReadStates
<1>7. /\ record.seq = a.head.seq + 1
      /\ record.item.kind = "status" => record.item.value = None
      /\ b = With(a, Inherit(a.head, record.seq, record.item), record.item)
  BY <1>1, <1>2, <1>3, <1>5, <1>6, <1>g, ReadInherited
<1>8. record.item \in WholeItems
  <2>1. record.item \in RecordedItems
    BY <1>3, RecordKinds
  <2>2. record.item.kind # "status" => record.item \in WholeItems
    BY <2>1 DEF RecordedItems, WholeItems
  <2>3. record.item.kind = "status" => record.item \in WholeItems
    BY <1>7, <2>1 DEF RecordedItems, WholeItems
  <2> QED BY <2>2, <2>3
<1>9. b.items = Append(a.items, record.item)
  BY <1>6, <1>7 DEF With, ReadStates
<1>10. b.head.seq = a.head.seq + 1
  <2>1. a.items \in Seq(WholeItems)
    BY <1>6 DEF ReadStates
  <2> QED BY <1>4, <1>9, <2>1, LenOfAppend DEF Readable
<1>11. ~(IsStatus(record) /\ record.item.value # None) /\ record.type # "operation"
  BY <1>3, <1>7 DEF IsStatus, IsItem
<1> QED BY <1>2, <1>3, <1>4, <1>7, <1>8, <1>9, <1>10, <1>11 DEF Grows, a, b, record, f

LEMMA GrowsOwn ==
  ASSUME NEW records \in Seq(Records), Legible(records),
         NEW k \in Nat, k >= LastFork(records), k + 1 <= Len(records)
  PROVE  Grows(records, LastFork(records), k)
<1> DEFINE f == LastFork(records)
           a == Reading(records, f, k)
           b == Reading(records, f, k + 1)
           record == records[k + 1]
           item == Resolved(a.head, record.item)
<1>0. OwnStep(records, f, k)
  BY OwnSteps
<1>g. f \in Nat /\ k >= f
  <2>1. Parts(records, f, Len(records))
    BY LegibleParts
  <2> QED BY <2>1 DEF Parts
<1> HIDE DEF f
<1>1. k + 1 > f /\ ~(k + 1 <= f)
  BY <1>g
<1>2. /\ record \in Records /\ ~IsFork(record)
      /\ Readable(a) /\ Sane(a.head) /\ Readable(b) /\ Sane(b.head)
      /\ a \in ReadStates /\ b \in ReadStates
      /\ Follows(record, a.head, records, k + 1)
      /\ IsItem(record) =>
          /\ Resolvable(a.head, record.item) /\ Accepts(a.head, item)
          /\ record.seq = a.head.seq + 1 /\ item \in WholeItems
          /\ b.head = AddItem(a.head, item)
          /\ b.items = Append(a.items, item)
      /\ record.type = "operation" =>
          /\ CanSave(a.head, record.op)
          /\ b.head = SaveOperation(a.head, record.op, record.value)
          /\ b.items = a.items
      /\ record.type = "checkpoint" => b = a
  BY <1>0 DEF OwnStep
<1> HIDE DEF a, b, record
<1>3. a.head \in Heads /\ Fresh(a.head)
  BY <1>2 DEF ReadStates, Readable
<1>4. CASE IsItem(record)
  <2>1. record.type # "operation"
    BY <1>4 DEF IsItem
  <2>2. record.item \in RecordedItems /\ record.item.kind # "fork"
    BY <1>2, <1>4, RecordKinds DEF IsFork
  <2>3. record.item.kind = "status" => record.item.value # None
    BY <1>2, <1>4 DEF IsStatus, Follows
  <2>4. /\ item \in WholeItems /\ item.kind = record.item.kind
        /\ record.item.kind # "status" => item = record.item
        /\ record.item.kind = "status" => /\ item.op = record.item.op /\ item.turn = record.item.turn
                                          /\ item.value \in FullValues
    BY <1>2, <1>3, <1>4, <2>2, <2>3, ResolvedItem
  <2>5. /\ Accepts(a.head, item) /\ b.head = AddItem(a.head, item) /\ b.items = Append(a.items, item)
    BY <1>2, <1>4
  <2> HIDE DEF item
  <2>6. b.head.seq = a.head.seq + 1
    <3>1. a.items \in Seq(WholeItems)
      BY <1>2 DEF ReadStates
    <3> QED BY <1>2, <2>5, <3>1, LenOfAppend DEF Readable
  <2>7. CASE item.kind = "status"
    <3>1. item.value # None
      BY <2>4, <2>7, Marks
    <3> DEFINE key == <<item.turn, item.op>>
    <3>2. /\ b.head.ops = IF key \in a.head.calls THEN a.head.ops
                          ELSE [o \in DOMAIN a.head.ops \cup {item.op} |->
                                  IF o = item.op THEN item.value ELSE a.head.ops[o]]
          /\ Same(a.head, b.head, AllFields \ {"seq", "calls", "ops", "pending"})
      BY <1>3, <2>4, <2>5, <2>7, <3>1, AddedStatus
    <3>3. b.head.owned = a.head.owned
      BY <3>2 DEF Same, AllFields
    <3>4. /\ DOMAIN b.head.ops = DOMAIN a.head.ops \cup {item.op}
          /\ \A o \in DOMAIN a.head.ops : b.head.ops[o] = a.head.ops[o]
      <4>1. CASE key \in a.head.calls
        <5>1. item.op \in DOMAIN a.head.ops
          <6>1. key[2] = item.op
            OBVIOUS
          <6> HIDE DEF key
          <6> QED BY <1>2, <4>1, <6>1 DEF Sane
        <5> QED BY <3>2, <4>1, <5>1
      <4>2. CASE key \notin a.head.calls
        <5>1. item.op \notin DOMAIN a.head.ops
          BY <2>5, <2>7, <3>1, <4>2 DEF Accepts
        <5> QED BY <3>2, <4>2, <5>1
      <4> QED BY <4>1, <4>2
    <3> QED BY <1>1, <1>2, <1>4, <2>1, <2>3, <2>4, <2>5, <2>6, <2>7, <3>3, <3>4
            DEF Grows, IsStatus, a, b, record, f
  <2>8. CASE item.kind # "status"
    <3>1. item.kind \in {"input", "turn", "response"}
      BY <2>2, <2>4, <2>8 DEF WholeItems
    <3>2. b.head.ops = a.head.ops /\ a.head.owned \subseteq b.head.owned
      <4>1. b.head.ops = a.head.ops
        BY <1>3, <2>4, <2>5, <3>1, AddedElsewhere DEF Same
      <4>2. CASE item.kind = "input"
        BY <1>3, <2>4, <2>5, <4>1, <4>2, AddedInput DEF Same, AllFields
      <4>3. CASE item.kind = "turn"
        BY <1>3, <2>4, <2>5, <4>1, <4>3, AddedTurn DEF Same, AllFields
      <4>4. CASE item.kind = "response"
        BY <1>3, <2>4, <2>5, <4>1, <4>4, AddedResponse DEF Same, AllFields
      <4> QED BY <3>1, <4>2, <4>3, <4>4
    <3> QED BY <1>1, <1>2, <1>4, <2>1, <2>4, <2>5, <2>6, <2>8, <3>2
            DEF Grows, IsStatus, a, b, record, f
  <2> QED BY <2>7, <2>8
<1>5. CASE record.type = "operation"
  <2>1. ~IsItem(record) /\ ~IsStatus(record)
    BY <1>5 DEF IsItem, IsStatus
  <2>2. record.op \in DOMAIN a.head.ops /\ record.value \in Values
    BY <1>2, <1>5, RecordKinds, Marks DEF CanSave
  <2>3. SavedTo(a.head, b.head, record.op, record.value)
    BY <1>2, <1>3, <1>5, <2>2, SavedOperation
  <2>4. b.head.ops = [a.head.ops EXCEPT ![record.op] = record.value]
        /\ b.head.seq = a.head.seq /\ b.head.owned = a.head.owned
    BY <2>3 DEF SavedTo, Same, AllFields
  <2> QED BY <1>1, <1>2, <1>5, <2>1, <2>2, <2>4 DEF Grows, a, b, record, f
<1>6. CASE record.type = "checkpoint"
  <2>1. ~IsItem(record) /\ ~IsStatus(record) /\ record.type # "operation"
    BY <1>6 DEF IsItem, IsStatus
  <2>2. b = a
    BY <1>2, <1>6
  <2> QED BY <1>1, <1>2, <2>1, <2>2 DEF Grows, a, b, record, f
<1> QED BY <1>2, <1>4, <1>5, <1>6, RecordKinds DEF IsItem

\* What one record adds to the state that was read.
LEMMA Growing ==
  ASSUME NEW records \in Seq(Records), Legible(records),
         NEW k \in Nat, k + 1 <= Len(records)
  PROVE  Grows(records, LastFork(records), k)
<1>1. LastFork(records) \in Nat
  <2>1. Parts(records, LastFork(records), Len(records))
    BY LegibleParts
  <2> QED BY <2>1 DEF Parts
<1>2. k + 1 <= LastFork(records) \/ k >= LastFork(records)
  BY <1>1
<1> QED BY <1>2, GrowsInherited, GrowsOwn

-----------------------------------------------------------------------------
(* The cutter *)

CutStates ==
  [found : BOOLEAN, waiting : Seq(Records), keep : Nat, items : Nat, sinceFork : Nat,
   latest : Turns \cup {None}, owned : SUBSET Ops, forked : BOOLEAN, saves : Seq(Records)]

\* Settings that waited remain, all of them.
Forward(cut, i) ==
  [cut EXCEPT !.waiting = <<>>, !.items = cut.items + i, !.sinceFork = cut.sinceFork + i]

FlushBy(f, cut, n) ==
  f = [k \in 0 .. n |->
         IF k = 0 THEN [cut EXCEPT !.waiting = <<>>]
         ELSE CHOOSE next \in {Remain(state, cut.waiting[k]) : state \in {f[k - 1]}} : TRUE]

Flushed(cut) == (CHOOSE f : FlushBy(f, cut, Len(cut.waiting)))[Len(cut.waiting)]

LEMMA OneRemains ==
  ASSUME NEW s, NEW record
  PROVE  (CHOOSE next \in {Remain(state, record) : state \in {s}} : TRUE) = Remain(s, record)
<1> DEFINE e == Remain(s, record)
<1>1. {Remain(state, record) : state \in {s}} = {e}
  OBVIOUS
<1> HIDE DEF e
<1>2. (CHOOSE next \in {e} : TRUE) = e
  OBVIOUS
<1> QED BY <1>1, <1>2 DEF e

LEMMA FlushByDef ==
  ASSUME NEW f, NEW cut, NEW n \in Nat
  PROVE  FlushBy(f, cut, n) <=>
           f = [k \in 0 .. n |-> IF k = 0 THEN [cut EXCEPT !.waiting = <<>>]
                                 ELSE Remain(f[k - 1], cut.waiting[k])]
BY OneRemains, Zenon DEF FlushBy

\* The settings that wait are counted as they are flushed.
LEMMA ForwardStep ==
  ASSUME NEW cut \in CutStates, NEW record \in Records, IsSettings(record), NEW i \in Nat
  PROVE  Remain(Forward(cut, i), record) = Forward(cut, i + 1)
<1>0. cut.items \in Nat /\ cut.sinceFork \in Nat
  BY DEF CutStates
<1>1. IsItem(record) /\ record.item.kind = "input"
  BY DEF IsSettings
<1>2. Remain(Forward(cut, i), record)
        = [Forward(cut, i) EXCEPT !.items = @ + 1, !.sinceFork = @ + 1]
  BY <1>1, Zenon DEF Remain
<1> DEFINE w == <<>>
           a == [cut EXCEPT !.waiting = w, !.items = cut.items + i, !.sinceFork = cut.sinceFork + i]
           b == [cut EXCEPT !.waiting = w, !.items = cut.items + (i + 1), !.sinceFork = cut.sinceFork + (i + 1)]
<1>3. Forward(cut, i) = a /\ Forward(cut, i + 1) = b
  BY DEF Forward
<1> HIDE DEF w
<1>4. [a EXCEPT !.items = @ + 1, !.sinceFork = @ + 1] = b
  <2> DEFINE x == cut.items + i
             y == cut.sinceFork + i
             x1 == cut.items + (i + 1)
             y1 == cut.sinceFork + (i + 1)
  <2>1. x + 1 = x1 /\ y + 1 = y1
    BY <1>0
  <2> HIDE DEF x, y, x1, y1
  <2>2. [[cut EXCEPT !.waiting = w, !.items = x, !.sinceFork = y] EXCEPT !.items = @ + 1, !.sinceFork = @ + 1]
          = [cut EXCEPT !.waiting = w, !.items = x + 1, !.sinceFork = y + 1]
    BY DEF CutStates
  <2>3. [cut EXCEPT !.waiting = w, !.items = x + 1, !.sinceFork = y + 1]
          = [cut EXCEPT !.waiting = w, !.items = x1, !.sinceFork = y1]
    BY <2>1
  <2> QED BY <2>2, <2>3 DEF x, y, x1, y1
<1> HIDE DEF a, b
<1> QED BY <1>2, <1>3, <1>4

LEMMA Flushing ==
  ASSUME NEW cut \in CutStates, \A i \in 1 .. Len(cut.waiting) : IsSettings(cut.waiting[i])
  PROVE  Flushed(cut) = Forward(cut, Len(cut.waiting))
<1> DEFINE n == Len(cut.waiting)
           f == CHOOSE f : FlushBy(f, cut, n)
           g == [k \in 0 .. n |-> Forward(cut, k)]
<1>0. n \in Nat /\ \A i \in 1 .. n : cut.waiting[i] \in Records
  BY LenProperties, ElementOfSeq DEF CutStates
<1>s. \A i \in 1 .. n : IsSettings(cut.waiting[i])
  OBVIOUS
<1>a. Flushed(cut) = f[n]
  BY DEF Flushed
<1>1. Forward(cut, 0) = [cut EXCEPT !.waiting = <<>>]
  <2>1. cut.items + 0 = cut.items /\ cut.sinceFork + 0 = cut.sinceFork
    BY DEF CutStates
  <2> DEFINE w == <<>>
  <2> HIDE DEF w
  <2>2. [cut EXCEPT !.waiting = w, !.items = cut.items, !.sinceFork = cut.sinceFork]
          = [cut EXCEPT !.waiting = w]
    BY DEF CutStates
  <2> QED BY <2>1, <2>2 DEF Forward, w
<1> HIDE DEF n
<1>2. \A k \in 1 .. n : Forward(cut, k) = Remain(Forward(cut, k - 1), cut.waiting[k])
  <2> SUFFICES ASSUME NEW k \in 1 .. n
               PROVE  Forward(cut, k) = Remain(Forward(cut, k - 1), cut.waiting[k])
    OBVIOUS
  <2>1. k - 1 \in Nat /\ (k - 1) + 1 = k
    BY <1>0
  <2>2. Remain(Forward(cut, k - 1), cut.waiting[k]) = Forward(cut, (k - 1) + 1)
    BY <1>0, <1>s, <2>1, ForwardStep
  <2> QED BY <2>1, <2>2
<1>3. FlushBy(g, cut, n)
  <2>1. \A k \in 0 .. n : g[k] = IF k = 0 THEN [cut EXCEPT !.waiting = <<>>]
                                 ELSE Remain(g[k - 1], cut.waiting[k])
    <3> SUFFICES ASSUME NEW k \in 0 .. n
                 PROVE  g[k] = IF k = 0 THEN [cut EXCEPT !.waiting = <<>>]
                               ELSE Remain(g[k - 1], cut.waiting[k])
      OBVIOUS
    <3>1. k # 0 => k \in 1 .. n /\ k - 1 \in 0 .. n
      BY <1>0
    <3> QED BY <1>1, <1>2, <3>1
  <2>2. g = [k \in 0 .. n |-> g[k]]
    OBVIOUS
  <2> HIDE DEF g
  <2>3. g = [k \in 0 .. n |-> IF k = 0 THEN [cut EXCEPT !.waiting = <<>>]
                              ELSE Remain(g[k - 1], cut.waiting[k])]
    BY <2>1, <2>2
  <2> QED BY <1>0, <2>3, FlushByDef
<1>4. FlushBy(f, cut, n)
  <2> HIDE DEF g
  <2> QED BY <1>3, Zenon DEF f
<1>5. \A k \in 0 .. n : f[k] = IF k = 0 THEN [cut EXCEPT !.waiting = <<>>]
                               ELSE Remain(f[k - 1], cut.waiting[k])
  <2> HIDE DEF f
  <2>1. f = [k \in 0 .. n |-> IF k = 0 THEN [cut EXCEPT !.waiting = <<>>]
                              ELSE Remain(f[k - 1], cut.waiting[k])]
    BY <1>0, <1>4, FlushByDef
  <2> QED BY <2>1
<1> DEFINE S == {k \in Nat : k <= n => f[k] = Forward(cut, k)}
<1> HIDE DEF f, g
<1>6. 0 \in S
  BY <1>0, <1>1, <1>5
<1>7. ASSUME NEW k \in Nat, k \in S PROVE k + 1 \in S
  <2> SUFFICES ASSUME k + 1 <= n PROVE f[k + 1] = Forward(cut, k + 1)
    OBVIOUS
  <2>1. k + 1 \in 0 .. n /\ k + 1 # 0 /\ (k + 1) - 1 = k /\ k + 1 \in 1 .. n /\ k <= n
    BY <1>0
  <2>2. f[k] = Forward(cut, k)
    BY <1>7, <2>1
  <2> QED BY <1>2, <1>5, <2>1, <2>2
<1> HIDE DEF S
<1>8. n \in S
  BY <1>0, <1>6, <1>7, NatSetInduction
<1>9. f[n] = Forward(cut, n)
  <2>1. n <= n
    BY <1>0
  <2> QED BY <1>8, <2>1 DEF S
<1> QED BY <1>a, <1>9 DEF n

CutBy(f, records, prompt, n) ==
  f = [k \in 0 .. n |->
         IF k = 0 THEN Cutter
         ELSE CHOOSE next \in {CutterAdd(prompt, cut, records[k], k) : cut \in {f[k - 1]}} : TRUE]

LEMMA OneCut ==
  ASSUME NEW s, NEW prompt, NEW record, NEW k
  PROVE  (CHOOSE next \in {CutterAdd(prompt, cut, record, k) : cut \in {s}} : TRUE)
           = CutterAdd(prompt, s, record, k)
<1> DEFINE e == CutterAdd(prompt, s, record, k)
<1>1. {CutterAdd(prompt, cut, record, k) : cut \in {s}} = {e}
  OBVIOUS
<1> HIDE DEF e
<1>2. (CHOOSE next \in {e} : TRUE) = e
  OBVIOUS
<1> QED BY <1>1, <1>2 DEF e

\* What a cut is, record by record.
LEMMA CutByDef ==
  ASSUME NEW f, NEW records, NEW prompt, NEW n \in Nat
  PROVE  CutBy(f, records, prompt, n) <=>
           f = [k \in 0 .. n |-> IF k = 0 THEN Cutter ELSE CutterAdd(prompt, f[k - 1], records[k], k)]
BY OneCut, Zenon DEF CutBy

LEMMA CutByExists ==
  ASSUME NEW records, NEW prompt, NEW n \in Nat
  PROVE  \E f : CutBy(f, records, prompt, n)
<1> DEFINE S == {m \in Nat : \E f : CutBy(f, records, prompt, m)}
<1>1. 0 \in S
  <2> DEFINE f == [k \in 0 .. 0 |-> Cutter]
  <2>1. f = [k \in 0 .. 0 |-> IF k = 0 THEN Cutter ELSE CutterAdd(prompt, f[k - 1], records[k], k)]
    OBVIOUS
  <2> HIDE DEF f
  <2>2. CutBy(f, records, prompt, 0)
    BY <2>1, CutByDef
  <2> QED BY <2>2
<1>2. ASSUME NEW m \in Nat, m \in S PROVE m + 1 \in S
  <2>0. PICK f : CutBy(f, records, prompt, m)
    BY <1>2
  <2> DEFINE g == [k \in 0 .. m + 1 |->
                     IF k = m + 1 THEN CutterAdd(prompt, f[m], records[k], k) ELSE f[k]]
  <2>1. \A k \in 0 .. m : f[k] = IF k = 0 THEN Cutter ELSE CutterAdd(prompt, f[k - 1], records[k], k)
    <3>1. f = [k \in 0 .. m |-> IF k = 0 THEN Cutter ELSE CutterAdd(prompt, f[k - 1], records[k], k)]
      BY <2>0, CutByDef
    <3> QED BY <3>1
  <2>2. \A k \in 0 .. m : g[k] = f[k]
    OBVIOUS
  <2>3. \A k \in 0 .. m + 1 : g[k] = IF k = 0 THEN Cutter ELSE CutterAdd(prompt, g[k - 1], records[k], k)
    <3> SUFFICES ASSUME NEW k \in 0 .. m + 1
                 PROVE  g[k] = IF k = 0 THEN Cutter ELSE CutterAdd(prompt, g[k - 1], records[k], k)
      OBVIOUS
    <3>1. CASE k = m + 1
      <4>1. k # 0 /\ k - 1 = m /\ m \in 0 .. m
        BY <3>1
      <4> QED BY <2>2, <3>1, <4>1
    <3>2. CASE k \in 0 .. m
      <4>1. k = 0 \/ k - 1 \in 0 .. m
        BY <3>2
      <4>2. g[k] = f[k] /\ (k # 0 => g[k - 1] = f[k - 1])
        BY <2>2, <3>2, <4>1
      <4> HIDE DEF g
      <4> QED BY <2>1, <3>2, <4>2
    <3> QED BY <3>1, <3>2
  <2>4. g = [k \in 0 .. m + 1 |-> g[k]]
    OBVIOUS
  <2> HIDE DEF g
  <2>5. g = [k \in 0 .. m + 1 |-> IF k = 0 THEN Cutter ELSE CutterAdd(prompt, g[k - 1], records[k], k)]
    BY <2>3, <2>4
  <2>6. CutBy(g, records, prompt, m + 1)
    BY <2>5, CutByDef
  <2> QED BY <2>6
<1> HIDE DEF S
<1>3. Nat \subseteq S
  BY <1>1, <1>2, NatSetInduction
<1> QED BY <1>3 DEF S

\* The fields of a cut.
LEMMA CutParts ==
  ASSUME NEW cut \in CutStates
  PROVE  /\ cut.found \in BOOLEAN /\ cut.waiting \in Seq(Records) /\ Len(cut.waiting) \in Nat
         /\ cut.keep \in Nat /\ cut.items \in Nat /\ cut.sinceFork \in Nat
         /\ cut.latest \in Turns \cup {None} /\ cut.owned \subseteq Ops
         /\ cut.forked \in BOOLEAN /\ cut.saves \in Seq(Records)
<1>1. cut.waiting \in Seq(Records)
  BY DEF CutStates
<1> QED BY <1>1, LenProperties DEF CutStates

LEMMA CutterStarts ==
  /\ Cutter \in CutStates /\ ~Cutter.found /\ ~Cutter.forked /\ Cutter.saves = <<>>
  /\ Cutter.waiting = <<>> /\ Cutter.keep = 0 /\ Cutter.items = 0 /\ Cutter.sinceFork = 0
  /\ Cutter.owned = {}
<1> DEFINE w == <<>>
           s == <<>>
           cut == [found |-> FALSE, waiting |-> w, keep |-> 0, items |-> 0, sinceFork |-> 0,
                   latest |-> None, owned |-> {}, forked |-> FALSE, saves |-> s]
<1>1. Cutter = cut
  BY DEF Cutter
<1>2. w \in Seq(Records) /\ s \in Seq(Records)
  BY EmptySeq
<1> HIDE DEF w, s
<1>3. /\ cut \in CutStates /\ ~cut.found /\ ~cut.forked /\ cut.saves = s
      /\ cut.waiting = w /\ cut.keep = 0 /\ cut.items = 0 /\ cut.sinceFork = 0 /\ cut.owned = {}
  BY <1>2 DEF CutStates
<1> HIDE DEF cut
<1> QED BY <1>1, <1>3 DEF w, s

\* What a record that remains changes.
Remained(cut, next, record) ==
  /\ next \in CutStates
  /\ next.found = cut.found /\ next.waiting = cut.waiting /\ next.keep = cut.keep
  /\ next.forked = cut.forked /\ next.saves = cut.saves
  /\ next.items = IF IsItem(record) THEN cut.items + 1 ELSE cut.items
  /\ ~IsItem(record) => next.sinceFork = cut.sinceFork
  /\ IsItem(record) /\ ~IsFork(record) => next.sinceFork # 0
  /\ next.owned = IF IsFork(record) THEN {}
                  ELSE IF IsStatus(record) /\ record.item.value # None
                  THEN cut.owned \cup {record.item.op} ELSE cut.owned

\* A record that remains: what it adds to what the cutter counts.
LEMMA Remaining ==
  ASSUME NEW cut \in CutStates, NEW record \in Records
  PROVE  Remained(cut, Remain(cut, record), record)
<1> DEFINE items == cut.items + 1
           since == cut.sinceFork + 1
           more == [cut EXCEPT !.items = items, !.sinceFork = since]
           next == Remain(cut, record)
<1>0. items \in Nat /\ since \in Nat /\ since # 0 /\ 0 \in Nat /\ {} \subseteq Ops
  BY CutParts
<1>1. CASE ~IsItem(record)
  <2>1. next = cut
    BY <1>1 DEF Remain
  <2>2. ~IsFork(record) /\ ~IsStatus(record)
    BY <1>1 DEF IsFork, IsStatus
  <2> HIDE DEF next
  <2>3. Remained(cut, next, record)
    BY <1>1, <2>1, <2>2 DEF Remained
  <2> QED BY <2>3 DEF next
<1>2. CASE IsItem(record)
  <2>0. record.item \in RecordedItems
    BY <1>2, RecordKinds
  <2>1. next = CASE record.item.kind = "turn" -> [more EXCEPT !.latest = record.item.turn]
                 [] record.item.kind = "fork" -> [more EXCEPT !.sinceFork = 0, !.owned = {}]
                 [] record.item.kind = "status" /\ record.item.value # None ->
                      [more EXCEPT !.owned = @ \cup {record.item.op}]
                 [] OTHER -> more
    BY <1>2, Zenon DEF Remain
  <2> HIDE DEF items, since
  <2>2. CASE record.item.kind = "turn"
    <3> DEFINE turn == record.item.turn
               a == [cut EXCEPT !.items = items, !.sinceFork = since, !.latest = turn]
    <3>1. turn \in Turns
      BY <2>0, <2>2 DEF RecordedItems
    <3>2. next = a
      BY <2>1, <2>2 DEF CutStates
    <3> HIDE DEF turn
    <3>3. /\ a \in CutStates /\ a.found = cut.found /\ a.waiting = cut.waiting /\ a.keep = cut.keep
          /\ a.forked = cut.forked /\ a.saves = cut.saves /\ a.items = items /\ a.sinceFork = since
          /\ a.owned = cut.owned
      BY <1>0, <3>1 DEF CutStates
    <3>4. ~IsFork(record) /\ ~IsStatus(record)
      BY <2>2 DEF IsFork, IsStatus
    <3> HIDE DEF a
    <3>5. Remained(cut, a, record)
      BY <1>0, <1>2, <3>3, <3>4 DEF Remained, items
    <3> HIDE DEF next
    <3>6. Remained(cut, next, record)
      BY <3>2, <3>5
    <3> QED BY <3>6 DEF next
  <2>3. CASE record.item.kind = "fork"
    <3> DEFINE a == [cut EXCEPT !.items = items, !.sinceFork = 0, !.owned = {}]
    <3>2. next = a
      BY <2>1, <2>3 DEF CutStates
    <3>3. /\ a \in CutStates /\ a.found = cut.found /\ a.waiting = cut.waiting /\ a.keep = cut.keep
          /\ a.forked = cut.forked /\ a.saves = cut.saves /\ a.items = items /\ a.owned = {}
      BY <1>0 DEF CutStates
    <3>4. IsFork(record) /\ ~IsStatus(record)
      BY <1>2, <2>3 DEF IsFork, IsStatus
    <3> HIDE DEF a
    <3>5. Remained(cut, a, record)
      BY <1>0, <1>2, <3>3, <3>4 DEF Remained, items
    <3> HIDE DEF next
    <3>6. Remained(cut, next, record)
      BY <3>2, <3>5
    <3> QED BY <3>6 DEF next
  <2>4. CASE record.item.kind = "status" /\ record.item.value # None
    <3> DEFINE owned == cut.owned \cup {record.item.op}
               a == [cut EXCEPT !.items = items, !.sinceFork = since, !.owned = owned]
    <3>1. owned \subseteq Ops
      <4>1. record.item.op \in Ops
        BY <2>0, <2>4 DEF RecordedItems
      <4> QED BY <4>1, CutParts
    <3>2. next = a
      BY <2>1, <2>4 DEF CutStates
    <3> HIDE DEF owned
    <3>3. /\ a \in CutStates /\ a.found = cut.found /\ a.waiting = cut.waiting /\ a.keep = cut.keep
          /\ a.forked = cut.forked /\ a.saves = cut.saves /\ a.items = items /\ a.sinceFork = since
          /\ a.owned = owned
      BY <1>0, <3>1 DEF CutStates
    <3>4. ~IsFork(record) /\ IsStatus(record) /\ record.item.value # None
      BY <1>2, <2>4 DEF IsFork, IsStatus
    <3> HIDE DEF a
    <3>5. Remained(cut, a, record)
      BY <1>0, <1>2, <3>3, <3>4 DEF Remained, items, owned
    <3> HIDE DEF next
    <3>6. Remained(cut, next, record)
      BY <3>2, <3>5
    <3> QED BY <3>6 DEF next
  <2>5. CASE ~(record.item.kind = "turn" \/ record.item.kind = "fork"
               \/ (record.item.kind = "status" /\ record.item.value # None))
    <3>2. next = more
      BY <2>1, <2>5
    <3>3. /\ more \in CutStates /\ more.found = cut.found /\ more.waiting = cut.waiting
          /\ more.keep = cut.keep /\ more.forked = cut.forked /\ more.saves = cut.saves
          /\ more.items = items /\ more.sinceFork = since /\ more.owned = cut.owned
      BY <1>0 DEF CutStates
    <3>4. ~IsFork(record) /\ ~(IsStatus(record) /\ record.item.value # None)
      BY <1>2, <2>5 DEF IsFork, IsStatus
    <3> HIDE DEF more
    <3>5. Remained(cut, more, record)
      BY <1>0, <1>2, <3>3, <3>4 DEF Remained, items
    <3> HIDE DEF next
    <3>6. Remained(cut, next, record)
      BY <3>2, <3>5
    <3> QED BY <3>6 DEF next
  <2> QED BY <2>2, <2>3, <2>4, <2>5
<1> QED BY <1>1, <1>2

LEMMA ForwardParts ==
  ASSUME NEW cut \in CutStates, NEW i \in Nat
  PROVE  LET next == Forward(cut, i)
         IN /\ next \in CutStates
            /\ next.found = cut.found /\ next.waiting = <<>> /\ next.keep = cut.keep
            /\ next.forked = cut.forked /\ next.saves = cut.saves
            /\ next.items = cut.items + i /\ next.sinceFork = cut.sinceFork + i
            /\ next.owned = cut.owned
<1> DEFINE w == <<>>
           x == cut.items + i
           y == cut.sinceFork + i
           a == [cut EXCEPT !.waiting = w, !.items = x, !.sinceFork = y]
<1>1. w \in Seq(Records) /\ x \in Nat /\ y \in Nat
  BY EmptySeq, CutParts
<1>2. Forward(cut, i) = a
  BY DEF Forward
<1> HIDE DEF w, x, y
<1>3. /\ a \in CutStates /\ a.found = cut.found /\ a.waiting = w /\ a.keep = cut.keep
      /\ a.forked = cut.forked /\ a.saves = cut.saves /\ a.items = x /\ a.sinceFork = y
      /\ a.owned = cut.owned
  BY <1>1 DEF CutStates
<1> HIDE DEF a
<1> QED BY <1>2, <1>3 DEF w, x, y

\* The four things the cutter does with a record.
LEMMA AddsSettings ==
  ASSUME NEW cut \in CutStates, ~cut.found, NEW record \in Records, NEW prompt, NEW k,
         ~IsPrompt(record, prompt), IsSettings(record)
  PROVE  LET next == CutterAdd(prompt, cut, record, k)
         IN /\ next \in CutStates
            /\ next.found = cut.found /\ next.waiting = Append(cut.waiting, record)
            /\ next.keep = cut.keep /\ next.forked = cut.forked /\ next.saves = cut.saves
            /\ next.items = cut.items /\ next.sinceFork = cut.sinceFork /\ next.owned = cut.owned
<1> DEFINE w == Append(cut.waiting, record)
           a == [cut EXCEPT !.waiting = w]
<1>1. w \in Seq(Records)
  BY CutParts, AppendProperties
<1>2. CutterAdd(prompt, cut, record, k) = a
  BY Zenon DEF CutterAdd
<1> HIDE DEF w
<1>3. /\ a \in CutStates /\ a.found = cut.found /\ a.waiting = w /\ a.keep = cut.keep
      /\ a.forked = cut.forked /\ a.saves = cut.saves /\ a.items = cut.items
      /\ a.sinceFork = cut.sinceFork /\ a.owned = cut.owned
  BY <1>1 DEF CutStates
<1> HIDE DEF a
<1> QED BY <1>2, <1>3 DEF w

\* What the cutter does with a record: before the prompt,
LEMMA AddsOther ==
  ASSUME NEW cut \in CutStates, ~cut.found, NEW record \in Records, NEW prompt, NEW k,
         ~IsPrompt(record, prompt), ~IsSettings(record)
  PROVE  CutterAdd(prompt, cut, record, k) = Remain(Flushed(cut), record)
BY Zenon DEF CutterAdd, Over, FlushBy, Flushed

\* with the prompt,
LEMMA AddsPrompt ==
  ASSUME NEW cut \in CutStates, ~cut.found, NEW record \in Records, NEW prompt, NEW k \in Nat,
         IsPrompt(record, prompt), ~IsSettings(record), k - Len(cut.waiting) - 1 \in Nat
  PROVE  LET next == CutterAdd(prompt, cut, record, k)
         IN /\ next \in CutStates
            /\ next.found /\ next.keep = k - Len(cut.waiting) - 1
            /\ next.forked = cut.forked /\ next.saves = cut.saves
            /\ next.items = cut.items /\ next.sinceFork = cut.sinceFork /\ next.owned = cut.owned
<1> DEFINE w == <<>>
           keep == k - Len(cut.waiting) - 1
           a == [cut EXCEPT !.found = TRUE, !.keep = keep, !.waiting = w]
<1>1. w \in Seq(Records) /\ keep \in Nat
  BY EmptySeq
<1>2. CutterAdd(prompt, cut, record, k) = CutOff(a, record)
  BY Zenon DEF CutterAdd
<1>3. IsItem(record) /\ record.item.kind = "input"
  BY DEF IsPrompt, InputItem
<1>4. CutOff(a, record) = a
  <2>1. record.type # "operation" /\ ~IsFork(record)
    BY <1>3 DEF IsItem, IsFork
  <2> HIDE DEF a
  <2> QED BY <2>1 DEF CutOff
<1> HIDE DEF w, keep
<1>5. /\ a \in CutStates /\ a.found /\ a.keep = keep
      /\ a.forked = cut.forked /\ a.saves = cut.saves /\ a.items = cut.items
      /\ a.sinceFork = cut.sinceFork /\ a.owned = cut.owned
  BY <1>1 DEF CutStates
<1> HIDE DEF a
<1> QED BY <1>2, <1>4, <1>5 DEF keep

\* and after it.
LEMMA CutsOff ==
  ASSUME NEW cut \in CutStates, cut.found, NEW record \in Records, NEW prompt, NEW k
  PROVE  LET next == CutterAdd(prompt, cut, record, k)
         IN /\ next \in CutStates
            /\ next.found /\ next.keep = cut.keep /\ next.items = cut.items
            /\ next.sinceFork = cut.sinceFork /\ next.owned = cut.owned
            /\ next.latest = cut.latest
            /\ next.forked = (cut.forked \/ IsFork(record))
            /\ next.saves = IF record.type = "operation" /\ record.op \in cut.owned
                            THEN Append(cut.saves, record) ELSE cut.saves
<1>1. CutterAdd(prompt, cut, record, k) = CutOff(cut, record)
  BY Zenon DEF CutterAdd
<1>2. CASE record.type = "operation" /\ record.op \in cut.owned
  <2> DEFINE saves == Append(cut.saves, record)
             a == [cut EXCEPT !.saves = saves]
  <2>1. ~IsFork(record)
    BY <1>2 DEF IsFork, IsItem
  <2>2. CutOff(cut, record) = a
    BY <1>2, <2>1, Zenon DEF CutOff
  <2>3. saves \in Seq(Records)
    BY CutParts, AppendProperties
  <2> HIDE DEF saves
  <2>4. /\ a \in CutStates /\ a.found = cut.found /\ a.keep = cut.keep /\ a.items = cut.items
        /\ a.sinceFork = cut.sinceFork /\ a.owned = cut.owned /\ a.forked = cut.forked /\ a.saves = saves
        /\ a.latest = cut.latest
    BY <2>3 DEF CutStates
  <2> HIDE DEF a
  <2>5. cut.forked \in BOOLEAN
    BY CutParts
  <2> QED BY <1>1, <1>2, <2>1, <2>2, <2>4, <2>5 DEF saves
<1>3. CASE IsFork(record)
  <2> DEFINE a == [cut EXCEPT !.forked = TRUE]
  <2>1. record.type # "operation"
    BY <1>3 DEF IsFork, IsItem
  <2>2. CutOff(cut, record) = a
    BY <1>3, <2>1, Zenon DEF CutOff
  <2>4. /\ a \in CutStates /\ a.found = cut.found /\ a.keep = cut.keep /\ a.items = cut.items
        /\ a.sinceFork = cut.sinceFork /\ a.owned = cut.owned /\ a.saves = cut.saves
        /\ a.latest = cut.latest /\ a.forked = TRUE
    BY DEF CutStates
  <2>5. cut.forked \in BOOLEAN
    BY DEF CutStates
  <2> HIDE DEF a
  <2> QED BY <1>1, <1>3, <2>1, <2>2, <2>4, <2>5
<1>4. CASE ~(record.type = "operation" /\ record.op \in cut.owned) /\ ~IsFork(record)
  <2>1. CutOff(cut, record) = cut
    BY <1>4, Zenon DEF CutOff
  <2>2. cut.forked \in BOOLEAN
    BY CutParts
  <2> QED BY <1>1, <1>4, <2>1, <2>2
<1> QED BY <1>2, <1>3, <1>4

Begins(a, b) == Len(a) <= Len(b) /\ \A i \in 1 .. Len(a) : b[i] = a[i]

IsSettingsItem(item) == item.kind = "input" /\ item.id \in Settings

\* Settings only were recorded from j on.
Between(records, f, j, k) ==
  LET a == Reading(records, f, j)
      b == Reading(records, f, k)
  IN /\ Readable(a) /\ Readable(b)
     /\ \A i \in j + 1 .. k : IsSettings(records[i])
     /\ b.head.ops = a.head.ops
     /\ b.head.seq = a.head.seq + (k - j)
     /\ Begins(a.items, b.items)
     /\ \A i \in Len(a.items) + 1 .. Len(b.items) : IsSettingsItem(b.items[i])
     /\ j >= f => a.head.owned \subseteq b.head.owned

LEMMA BeginsMore ==
  ASSUME NEW S, NEW a \in Seq(S), NEW b \in Seq(S), Begins(a, b), NEW e \in S
  PROVE  Begins(a, Append(b, e))
<1>1. Len(a) \in Nat /\ Len(b) \in Nat
  BY LenProperties
<1>2. Len(Append(b, e)) = Len(b) + 1 /\ \A i \in 1 .. Len(b) : Append(b, e)[i] = b[i]
  BY AppendProperties
<1>3. Len(a) <= Len(b) /\ \A i \in 1 .. Len(a) : b[i] = a[i]
  BY DEF Begins
<1> DEFINE c == Append(b, e)
<1> HIDE DEF c
<1>4. Len(c) = Len(b) + 1 /\ \A i \in 1 .. Len(b) : c[i] = b[i]
  BY <1>2 DEF c
<1>5. Len(a) <= Len(c) /\ \A i \in 1 .. Len(a) : c[i] = a[i]
  <2>1. \A i \in 1 .. Len(a) : i \in 1 .. Len(b)
    BY <1>1, <1>3
  <2> QED BY <1>1, <1>3, <1>4, <2>1
<1> QED BY <1>5 DEF Begins, c

\* The fields of a state that is sound.
LEMMA ReadableParts ==
  ASSUME NEW a, Readable(a)
  PROVE  /\ a.items \in Seq(WholeItems) /\ Len(a.items) = a.head.seq /\ a.head.seq \in Nat
         /\ a.head \in Heads /\ Fresh(a.head) /\ a \in ReadStates /\ a.ok
<1>1. a \in ReadStates
  BY DEF Readable
<1>2. a.head \in Heads /\ a.items \in Seq(WholeItems)
  BY <1>1 DEF ReadStates
<1> QED BY <1>1, <1>2, HeadParts DEF Readable

LEMMA BetweenNone ==
  ASSUME NEW records, NEW f, NEW k \in Nat, Readable(Reading(records, f, k))
  PROVE  Between(records, f, k, k)
<1> DEFINE a == Reading(records, f, k)
<1>1. Readable(a)
  OBVIOUS
<1> HIDE DEF a
<1>2. a.head.seq \in Nat /\ Len(a.items) = a.head.seq
  BY <1>1, ReadableParts
<1>3. a.head.seq = a.head.seq + (k - k) /\ Begins(a.items, a.items)
  BY <1>2 DEF Begins
<1>4. (\A i \in k + 1 .. k : FALSE) /\ (\A i \in Len(a.items) + 1 .. Len(a.items) : FALSE)
  BY <1>2
<1> QED BY <1>1, <1>3, <1>4 DEF Between, a

LEMMA BetweenMore ==
  ASSUME NEW records \in Seq(Records), Legible(records),
         NEW j \in Nat, NEW k \in Nat, j <= k, k + 1 <= Len(records),
         Between(records, LastFork(records), j, k), IsSettings(records[k + 1])
  PROVE  Between(records, LastFork(records), j, k + 1)
<1> DEFINE f == LastFork(records)
           a == Reading(records, f, j)
           b == Reading(records, f, k)
           c == Reading(records, f, k + 1)
           record == records[k + 1]
<1>0. f \in Nat
  BY LegibleParts DEF Parts
<1>1. Grows(records, f, k)
  BY Growing
<1> HIDE DEF f
<1>2. IsItem(record) /\ ~IsStatus(record) /\ record.type # "operation" /\ IsSettingsItem(record.item)
      /\ record.item.kind # "status"
  BY DEF IsSettings, IsStatus, IsItem, IsSettingsItem
<1>3. /\ Readable(a) /\ Readable(b) /\ Readable(c)
      /\ c.head.ops = b.head.ops /\ c.head.seq = b.head.seq + 1
      /\ c.items = Append(b.items, record.item)
      /\ record.item \in WholeItems
      /\ k + 1 > f => b.head.owned \subseteq c.head.owned
  <2>1. PICK item \in WholeItems : c.items = Append(b.items, item) /\ item = record.item
    BY <1>1, <1>2 DEF Grows
  <2>2. c.head.ops = b.head.ops
    BY <1>1, <1>2 DEF Grows
  <2> QED BY <1>1, <1>2, <2>1, <2>2 DEF Grows, Between, f
<1>4. /\ \A i \in j + 1 .. k : IsSettings(records[i])
      /\ b.head.ops = a.head.ops
      /\ b.head.seq = a.head.seq + (k - j)
      /\ Begins(a.items, b.items)
      /\ \A i \in Len(a.items) + 1 .. Len(b.items) : IsSettingsItem(b.items[i])
      /\ j >= f => a.head.owned \subseteq b.head.owned
  BY DEF Between, f
<1>s. IsSettings(records[k + 1])
  OBVIOUS
<1> HIDE DEF a, b, c, record
<1>5. /\ a.items \in Seq(WholeItems) /\ b.items \in Seq(WholeItems) /\ c.items \in Seq(WholeItems)
      /\ a.head.seq \in Nat /\ b.head.seq \in Nat
      /\ Len(b.items) = b.head.seq /\ Len(a.items) = a.head.seq
  BY <1>3, ReadableParts
<1>6. Begins(a.items, c.items)
  BY <1>3, <1>4, <1>5, BeginsMore
<1>7. Len(c.items) = Len(b.items) + 1 /\ c.items[Len(b.items) + 1] = record.item
      /\ \A i \in 1 .. Len(b.items) : c.items[i] = b.items[i]
  BY <1>3, <1>5, AppendProperties
<1>8. \A i \in Len(a.items) + 1 .. Len(c.items) : IsSettingsItem(c.items[i])
  <2> SUFFICES ASSUME NEW i \in Len(a.items) + 1 .. Len(c.items) PROVE IsSettingsItem(c.items[i])
    OBVIOUS
  <2>1. CASE i = Len(b.items) + 1
    BY <1>2, <1>7, <2>1
  <2>2. CASE i # Len(b.items) + 1
    <3>1. i \in 1 .. Len(b.items) /\ i \in Len(a.items) + 1 .. Len(b.items)
      BY <1>5, <1>7, <2>2
    <3> QED BY <1>4, <1>7, <3>1
  <2> QED BY <2>1, <2>2
<1>9. \A i \in j + 1 .. k + 1 : IsSettings(records[i])
  <2> SUFFICES ASSUME NEW i \in j + 1 .. k + 1 PROVE IsSettings(records[i])
    OBVIOUS
  <2>1. i = k + 1 \/ i \in j + 1 .. k
    OBVIOUS
  <2> QED BY <1>4, <1>s, <2>1
<1>10. c.head.seq = a.head.seq + ((k + 1) - j) /\ (j >= f => k + 1 > f)
  BY <1>0, <1>3, <1>4, <1>5
<1>11. j >= f => a.head.owned \subseteq c.head.owned
  BY <1>3, <1>4, <1>10
<1> QED BY <1>3, <1>4, <1>6, <1>8, <1>9, <1>10, <1>11 DEF Between, a, c, f

\* A cutter that has not found its prompt in the first k records.
CleanFrom(records, f, j, k, cut) ==
  /\ cut \in CutStates /\ ~cut.found /\ ~cut.forked /\ cut.saves = <<>>
  /\ j \in Nat
  /\ \A i \in 1 .. Len(cut.waiting) : IsSettings(cut.waiting[i])
  /\ Between(records, f, j, k)
  /\ cut.items = Reading(records, f, j).head.seq
  /\ cut.owned = DOMAIN Reading(records, f, j).head.ops
  /\ j <= f /\ cut.sinceFork = 0 => j = 0 \/ IsFork(records[j])

Clean(records, f, k, cut) == CleanFrom(records, f, k - Len(cut.waiting), k, cut)

\* Before the prompt the cutter counts what was read, and what waits are settings.
LEMMA CleanStarts ==
  ASSUME NEW records \in Seq(Records), Legible(records)
  PROVE  Clean(records, LastFork(records), 0, Cutter)
<1> DEFINE f == LastFork(records)
           a == Reading(records, f, 0)
<1>0. Parts(records, f, Len(records))
  BY LegibleParts
<1> HIDE DEF f
<1>1. f \in Nat
  BY <1>0 DEF Parts
<1>2. a = Read0
  BY <1>1, ReadingSteps
<1>3. Readable(a) /\ a.head.seq = 0 /\ DOMAIN a.head.ops = {}
  BY <1>2, Read0IsReadable, NoOps
<1>4. Between(records, f, 0, 0)
  BY <1>3, BetweenNone
<1>5. Len(Cutter.waiting) = 0 /\ 0 - 0 = 0
  BY CutterStarts, EmptySeq
<1> HIDE DEF a
<1>6. \A i \in 1 .. 0 : FALSE
  OBVIOUS
<1> QED BY <1>3, <1>4, <1>5, <1>6, CutterStarts DEF Clean, CleanFrom, a, f

LEMMA CleanSettings ==
  ASSUME NEW records \in Seq(Records), Legible(records),
         NEW k \in Nat, k + 1 <= Len(records), NEW prompt,
         NEW cut, Clean(records, LastFork(records), k, cut),
         IsSettings(records[k + 1]), ~IsPrompt(records[k + 1], prompt)
  PROVE  Clean(records, LastFork(records), k + 1, CutterAdd(prompt, cut, records[k + 1], k + 1))
<1> DEFINE f == LastFork(records)
           w == Len(cut.waiting)
           j == k - w
           a == Reading(records, f, j)
           next == CutterAdd(prompt, cut, records[k + 1], k + 1)
           record == records[k + 1]
<1>1. /\ cut \in CutStates /\ ~cut.found /\ ~cut.forked /\ cut.saves = <<>>
      /\ w \in Nat /\ j \in Nat
      /\ \A i \in 1 .. w : IsSettings(cut.waiting[i])
      /\ Between(records, f, j, k)
      /\ cut.items = a.head.seq
      /\ cut.owned = DOMAIN a.head.ops
      /\ j <= f /\ cut.sinceFork = 0 => j = 0 \/ IsFork(records[j])
  <2>1. w \in Nat
    <3>1. cut \in CutStates
      BY DEF Clean, CleanFrom
    <3> QED BY <3>1, CutParts
  <2> QED BY <2>1 DEF Clean, CleanFrom
<1>2. record \in Records
  <2>1. k + 1 \in 1 .. Len(records)
    BY LenProperties
  <2> QED BY <2>1, ElementOfSeq
<1>3. Between(records, f, j, k + 1)
  BY <1>1, BetweenMore
<1>4. /\ next \in CutStates
      /\ next.found = cut.found /\ next.waiting = Append(cut.waiting, record)
      /\ next.keep = cut.keep /\ next.forked = cut.forked /\ next.saves = cut.saves
      /\ next.items = cut.items /\ next.sinceFork = cut.sinceFork /\ next.owned = cut.owned
  BY <1>1, <1>2, AddsSettings
<1>s. IsSettings(record)
  OBVIOUS
<1> HIDE DEF next
<1>5. Len(next.waiting) = w + 1 /\ (k + 1) - (w + 1) = j
      /\ \A i \in 1 .. w + 1 : IsSettings(next.waiting[i])
  <2>1. cut.waiting \in Seq(Records)
    BY <1>1, CutParts
  <2>2. /\ Len(next.waiting) = w + 1 /\ next.waiting[w + 1] = record
        /\ \A i \in 1 .. w : next.waiting[i] = cut.waiting[i]
    BY <1>2, <1>4, <2>1, AppendProperties
  <2> HIDE DEF w, record
  <2>3. \A i \in 1 .. w + 1 : i = w + 1 \/ i \in 1 .. w
    BY <1>1
  <2>4. (k + 1) - (w + 1) = j
    BY <1>1
  <2> QED BY <1>1, <1>s, <2>2, <2>3, <2>4
<1> HIDE DEF w, j, f
<1>6. CleanFrom(records, f, j, k + 1, next)
  BY <1>1, <1>3, <1>4, <1>5 DEF CleanFrom
<1>7. (k + 1) - Len(next.waiting) = j
  BY <1>5
<1>8. Clean(records, f, k + 1, next)
  BY <1>6, <1>7 DEF Clean
<1> QED BY <1>8 DEF next, f

LEMMA CleanOther ==
  ASSUME NEW records \in Seq(Records), Legible(records),
         NEW k \in Nat, k + 1 <= Len(records), NEW prompt,
         NEW cut, Clean(records, LastFork(records), k, cut),
         ~IsSettings(records[k + 1]), ~IsPrompt(records[k + 1], prompt)
  PROVE  Clean(records, LastFork(records), k + 1, CutterAdd(prompt, cut, records[k + 1], k + 1))
<1> DEFINE f == LastFork(records)
           w == Len(cut.waiting)
           j == k - w
           a == Reading(records, f, j)
           b == Reading(records, f, k)
           c == Reading(records, f, k + 1)
           next == CutterAdd(prompt, cut, records[k + 1], k + 1)
           record == records[k + 1]
           u == Forward(cut, w)
<1>1. /\ cut \in CutStates /\ ~cut.found /\ ~cut.forked /\ cut.saves = <<>>
      /\ w \in Nat /\ j \in Nat
      /\ \A i \in 1 .. w : IsSettings(cut.waiting[i])
      /\ Between(records, f, j, k)
      /\ cut.items = a.head.seq
      /\ cut.owned = DOMAIN a.head.ops
  <2>1. w \in Nat
    <3>1. cut \in CutStates
      BY DEF Clean, CleanFrom
    <3> QED BY <3>1, CutParts
  <2> QED BY <2>1 DEF Clean, CleanFrom
<1>2. record \in Records
  <2>1. k + 1 \in 1 .. Len(records)
    BY LenProperties
  <2> QED BY <2>1, ElementOfSeq
<1>f. f \in Nat
  BY LegibleParts DEF Parts
<1>3. Grows(records, f, k)
  BY Growing
<1>4. next = Remain(Flushed(cut), record)
  BY <1>1, <1>2, AddsOther
<1>5. Flushed(cut) = u
  BY <1>1, Flushing
<1>6. /\ u \in CutStates /\ u.found = cut.found /\ u.waiting = <<>> /\ u.keep = cut.keep
      /\ u.forked = cut.forked /\ u.saves = cut.saves
      /\ u.items = cut.items + w /\ u.owned = cut.owned
  BY <1>1, ForwardParts
<1> HIDE DEF u, next
<1>7. Remained(u, next, record)
  BY <1>2, <1>4, <1>5, <1>6, Remaining
<1> HIDE DEF a, b, c, f, w, record
<1>8. Readable(a) /\ Readable(b) /\ Readable(c) /\ b.head.ops = a.head.ops /\ b.head.seq = a.head.seq + w
  <2>1. k - j = w
    BY <1>1
  <2>2. Readable(a) /\ Readable(b) /\ b.head.ops = a.head.ops /\ b.head.seq = a.head.seq + (k - j)
    BY <1>1 DEF Between, a, b
  <2>3. Readable(c)
    BY <1>3 DEF Grows, c
  <2> QED BY <2>1, <2>2, <2>3
<1>9. next.items = c.head.seq
  <2>1. u.items = b.head.seq
    BY <1>1, <1>6, <1>8
  <2>2. c.head.seq = IF IsItem(record) THEN b.head.seq + 1 ELSE b.head.seq
    BY <1>3 DEF Grows, b, c, record
  <2> QED BY <1>7, <2>1, <2>2 DEF Remained
<1>10. next.owned = DOMAIN c.head.ops
  <2>1. u.owned = DOMAIN b.head.ops
    BY <1>1, <1>6, <1>8
  <2>2. CASE IsFork(record)
    <3>1. c.head.ops = <<>>
      BY <1>3, <1>f, <2>2 DEF Grows, c, record
    <3> QED BY <1>7, <2>2, <3>1, NoOps DEF Remained
  <2>3. CASE ~IsFork(record)
    <3>1. DOMAIN c.head.ops = IF IsStatus(record) /\ record.item.value # None
                              THEN DOMAIN b.head.ops \cup {record.item.op} ELSE DOMAIN b.head.ops
      BY <1>3 DEF Grows, b, c, record
    <3> QED BY <1>7, <2>1, <2>3, <3>1 DEF Remained
  <2> QED BY <2>2, <2>3
<1>11. next.waiting = <<>> /\ Len(next.waiting) = 0
  BY <1>6, <1>7, EmptySeq DEF Remained
<1>12. k + 1 <= f /\ next.sinceFork = 0 => IsFork(records[k + 1])
  <2>1. k + 1 <= f => IsItem(record)
    BY <1>3 DEF Grows, record
  <2> QED BY <1>7, <2>1 DEF Remained, record
<1>13. Between(records, f, k + 1, k + 1)
  BY <1>8, BetweenNone DEF c
<1>14. next \in CutStates /\ ~next.found /\ ~next.forked /\ next.saves = <<>>
  BY <1>1, <1>6, <1>7 DEF Remained
<1>15. CleanFrom(records, f, k + 1, k + 1, next)
  <2>1. \A i \in 1 .. Len(next.waiting) : FALSE
    BY <1>11
  <2> QED BY <1>9, <1>10, <1>12, <1>13, <1>14, <2>1 DEF CleanFrom, c
<1>16. (k + 1) - Len(next.waiting) = k + 1
  BY <1>11
<1>17. Clean(records, f, k + 1, next)
  BY <1>15, <1>16 DEF Clean
<1> QED BY <1>17 DEF next, f, record

\* What a cut brings back: the file up to it with the operations' later states.
Restores(rest, a, b) ==
  LET then == DecodeLog(rest)
  IN /\ rest \in Seq(Records) /\ Legible(rest)
     /\ then.items = a.items /\ then.head.owned = a.head.owned
     /\ DOMAIN then.head.ops = DOMAIN a.head.ops
     /\ DOMAIN a.head.ops \subseteq DOMAIN b.head.ops
     /\ \A o \in DOMAIN a.head.ops : then.head.ops[o] = b.head.ops[o]

\* The items go on with settings and the prompt they were recorded for.
PromptNext(items, n, prompt) ==
  \E i \in n + 1 .. Len(items) :
    items[i] = InputItem(prompt) /\ \A m \in n + 1 .. i - 1 : IsSettingsItem(items[m])

\* A cutter that has found its prompt and read k records.
CutAt(records, f, n, k, prompt, cut) ==
  LET a == Reading(records, f, n)
      b == Reading(records, f, k)
  IN /\ cut \in CutStates /\ cut.found /\ cut.keep = n /\ n \in Nat /\ n < k
     /\ Readable(a) /\ Readable(b)
     /\ cut.items = a.head.seq
     /\ cut.owned = DOMAIN a.head.ops
     /\ n <= f /\ cut.sinceFork = 0 => n = 0 \/ IsFork(records[n])
     /\ Begins(a.items, b.items)
     /\ PromptNext(b.items, Len(a.items), prompt)
     /\ cut.forked => n < f
     /\ n < f /\ f <= k => cut.forked
     /\ n < f => cut.owned = {} /\ cut.saves = <<>>
     /\ n >= f => /\ a.head.owned \subseteq b.head.owned
                  /\ Restores(SubSeq(records, 1, n) \o cut.saves, a, b)

LEMMA NothingMore ==
  ASSUME NEW S, NEW s \in Seq(S)
  PROVE  s \o <<>> = s
BY ConcatEmptySeq

\* At the prompt, the cut is where the settings before it began.
LEMMA FindsPrompt ==
  ASSUME NEW records \in Seq(Records), Legible(records),
         NEW k \in Nat, k + 1 <= Len(records), NEW prompt,
         NEW cut, Clean(records, LastFork(records), k, cut),
         IsPrompt(records[k + 1], prompt), ~IsSettings(records[k + 1])
  PROVE  CutAt(records, LastFork(records), k - Len(cut.waiting), k + 1, prompt,
               CutterAdd(prompt, cut, records[k + 1], k + 1))
<1> DEFINE f == LastFork(records)
           w == Len(cut.waiting)
           n == k - w
           a == Reading(records, f, n)
           b == Reading(records, f, k)
           c == Reading(records, f, k + 1)
           next == CutterAdd(prompt, cut, records[k + 1], k + 1)
           record == records[k + 1]
<1>1. /\ cut \in CutStates /\ ~cut.found /\ ~cut.forked /\ cut.saves = <<>>
      /\ w \in Nat /\ n \in Nat /\ n <= k
      /\ Between(records, f, n, k)
      /\ cut.items = a.head.seq
      /\ cut.owned = DOMAIN a.head.ops
      /\ n <= f /\ cut.sinceFork = 0 => n = 0 \/ IsFork(records[n])
  <2>1. w \in Nat
    <3>1. cut \in CutStates
      BY DEF Clean, CleanFrom
    <3> QED BY <3>1, CutParts
  <2> QED BY <2>1 DEF Clean, CleanFrom
<1>2. record \in Records
  <2>1. k + 1 \in 1 .. Len(records)
    BY LenProperties
  <2> QED BY <2>1, ElementOfSeq
<1>0. Parts(records, f, Len(records))
  BY LegibleParts
<1>3. Grows(records, f, k)
  BY Growing
<1>r. \A m \in 0 .. Len(records) : Read(records, f, m)
  BY ReadingIsReadable
<1>4. /\ next \in CutStates /\ next.found /\ next.keep = n
      /\ next.forked = cut.forked /\ next.saves = cut.saves
      /\ next.items = cut.items /\ next.sinceFork = cut.sinceFork /\ next.owned = cut.owned
  <2> DEFINE at == k + 1
             m == at - Len(cut.waiting) - 1
  <2>1. m = n /\ at \in Nat /\ m \in Nat
    BY <1>1
  <2>2. IsPrompt(record, prompt) /\ ~IsSettings(record)
    OBVIOUS
  <2>3. next = CutterAdd(prompt, cut, record, at)
    OBVIOUS
  <2> HIDE DEF at, record, next, n
  <2>4. /\ next \in CutStates /\ next.found /\ next.keep = m
        /\ next.forked = cut.forked /\ next.saves = cut.saves
        /\ next.items = cut.items /\ next.sinceFork = cut.sinceFork /\ next.owned = cut.owned
    BY <1>1, <1>2, <2>1, <2>2, <2>3, AddsPrompt
  <2> QED BY <2>1, <2>4
<1>5. IsItem(record) /\ record.item = InputItem(prompt) /\ record.item.kind = "input"
      /\ ~IsStatus(record) /\ record.type # "operation" /\ ~IsFork(record)
  BY DEF IsPrompt, InputItem, IsItem, IsStatus, IsFork
<1> HIDE DEF next, f, w, n, record
<1>6. f \in Nat /\ f <= Len(records) /\ Len(records) \in Nat /\ k + 1 <= Len(records) /\ n \in 0 .. Len(records)
  <2>1. f \in Nat /\ f <= Len(records) /\ Len(records) \in Nat
    BY <1>0 DEF Parts
  <2> QED BY <1>1, <2>1
<1>7. /\ Readable(a) /\ Readable(b) /\ b.head.ops = a.head.ops
      /\ \A i \in n + 1 .. k : IsSettings(records[i])
      /\ Begins(a.items, b.items)
      /\ \A i \in Len(a.items) + 1 .. Len(b.items) : IsSettingsItem(b.items[i])
      /\ n >= f => a.head.owned \subseteq b.head.owned
  BY <1>1 DEF Between
<1>8. /\ Readable(c) /\ c.head.ops = b.head.ops
      /\ c.items = Append(b.items, record.item) /\ record.item \in WholeItems
      /\ k + 1 > f => b.head.owned \subseteq c.head.owned
  <2>1. PICK item \in WholeItems : c.items = Append(b.items, item) /\ item = record.item
    BY <1>3, <1>5 DEF Grows, record
  <2>2. c.head.ops = b.head.ops
    BY <1>3, <1>5 DEF Grows, record
  <2> QED BY <1>3, <2>1, <2>2 DEF Grows
<1> HIDE DEF a, b, c
<1>9. /\ a.items \in Seq(WholeItems) /\ b.items \in Seq(WholeItems)
      /\ Len(a.items) \in Nat /\ Len(b.items) \in Nat
  BY <1>7, <1>8, ReadableParts, LenProperties
<1>10. Begins(a.items, c.items)
  BY <1>7, <1>8, <1>9, BeginsMore
<1>11. PromptNext(c.items, Len(a.items), prompt)
  <2> DEFINE i == Len(b.items) + 1
  <2>1. Len(c.items) = i /\ c.items[i] = record.item
        /\ \A m \in 1 .. Len(b.items) : c.items[m] = b.items[m]
    BY <1>8, <1>9, AppendProperties
  <2>2. Len(a.items) <= Len(b.items)
    BY <1>7 DEF Begins
  <2>3. i \in Len(a.items) + 1 .. i
        /\ \A m \in Len(a.items) + 1 .. i - 1 : m \in 1 .. Len(b.items) /\ m \in Len(a.items) + 1 .. Len(b.items)
    BY <1>9, <2>2
  <2> HIDE DEF i
  <2>4. \A m \in Len(a.items) + 1 .. i - 1 : IsSettingsItem(c.items[m])
    BY <1>7, <2>1, <2>3
  <2> QED BY <1>5, <2>1, <2>3, <2>4 DEF PromptNext
<1>12. ASSUME n < f, f <= k + 1 PROVE FALSE
  <2>1. f \in n + 1 .. k \/ f = k + 1
    BY <1>1, <1>6, <1>12
  <2>2. IsFork(records[f])
    BY <1>0, <1>1, <1>12 DEF Parts
  <2>3. f # k + 1
    BY <1>5, <2>2 DEF record
  <2>4. IsSettings(records[f])
    BY <1>7, <2>1, <2>3
  <2> QED BY <2>2, <2>4 DEF IsSettings, IsFork
<1>13. n < f => next.owned = {} /\ next.saves = <<>>
  <2>1. n <= f => a.head.ops = <<>>
    BY <1>6, <1>r DEF Read, a
  <2> QED BY <1>1, <1>4, <1>6, <2>1, NoOps DEF a
<1>14. ASSUME n >= f PROVE Restores(SubSeq(records, 1, n) \o next.saves, a, c)
  <2> DEFINE p == SubSeq(records, 1, n)
  <2>1. p \in Seq(Records) /\ DecodeLog(p) = a /\ Legible(p)
    BY <1>1, <1>6, <1>14, PrefixIsReading, LegiblePrefix DEF f, a
  <2> HIDE DEF p
  <2>2. p \o next.saves = p
    BY <1>1, <1>4, <2>1, NothingMore
  <2>3. Restores(p, a, c)
    BY <1>7, <1>8, <2>1 DEF Restores
  <2> QED BY <2>2, <2>3 DEF p
<1>15. n >= f => a.head.owned \subseteq c.head.owned
  BY <1>1, <1>6, <1>7, <1>8
<1>16. n < k + 1 /\ ~next.forked /\ next.items = a.head.seq /\ next.owned = DOMAIN a.head.ops
  BY <1>1, <1>4, <1>6 DEF a
<1>17. CutAt(records, f, n, k + 1, prompt, next)
  BY <1>1, <1>4, <1>7, <1>8, <1>10, <1>11, <1>12, <1>13, <1>14, <1>15, <1>16 DEF CutAt, a, c
<1> QED BY <1>17 DEF next, f, n, w, record

LEMMA PromptStays ==
  ASSUME NEW S, NEW items \in Seq(S), NEW e \in S, NEW n \in Nat, NEW prompt,
         PromptNext(items, n, prompt)
  PROVE  PromptNext(Append(items, e), n, prompt)
<1> DEFINE more == Append(items, e)
<1>1. Len(more) = Len(items) + 1 /\ Len(items) \in Nat /\ \A i \in 1 .. Len(items) : more[i] = items[i]
  BY AppendProperties, LenProperties
<1>2. PICK i \in n + 1 .. Len(items) :
        items[i] = InputItem(prompt) /\ \A m \in n + 1 .. i - 1 : IsSettingsItem(items[m])
  BY DEF PromptNext
<1> HIDE DEF more
<1>3. i \in 1 .. Len(items) /\ i \in n + 1 .. Len(more) /\ \A m \in n + 1 .. i - 1 : m \in 1 .. Len(items)
  BY <1>1
<1>4. more[i] = InputItem(prompt) /\ \A m \in n + 1 .. i - 1 : IsSettingsItem(more[m])
  BY <1>1, <1>2, <1>3
<1>5. PromptNext(more, n, prompt)
  BY <1>3, <1>4 DEF PromptNext
<1> QED BY <1>5 DEF more

\* A saved operation that is added back.
LEMMA RestoresSaved ==
  ASSUME NEW rest, NEW a, NEW b, NEW c, Restores(rest, a, b),
         NEW record \in Records, record.type = "operation", record.op \in DOMAIN a.head.ops,
         c.head.ops = [b.head.ops EXCEPT ![record.op] = record.value]
  PROVE  Restores(Append(rest, record), a, c)
<1> DEFINE then == DecodeLog(rest)
           more == Append(rest, record)
           next == DecodeLog(more)
           n == Len(rest)
           f == LastFork(rest)
<1>1. /\ rest \in Seq(Records) /\ Legible(rest)
      /\ then.items = a.items /\ then.head.owned = a.head.owned
      /\ DOMAIN then.head.ops = DOMAIN a.head.ops
      /\ DOMAIN a.head.ops \subseteq DOMAIN b.head.ops
      /\ \A o \in DOMAIN a.head.ops : then.head.ops[o] = b.head.ops[o]
  BY DEF Restores
<1>2. ~IsItem(record) /\ ~IsFork(record) /\ ~IsStatus(record) /\ record.type # "checkpoint"
  BY DEF IsItem, IsFork, IsStatus
<1>3. record.op \in Ops /\ record.value \in FullValues /\ record.value \in Values
  BY RecordKinds, Marks
<1>4. Parts(rest, f, n)
  BY <1>1, LegibleParts
<1>5. Read(rest, f, n)
  <2>1. n \in 0 .. n
    BY <1>4 DEF Parts
  <2> QED BY <1>1, <2>1, ReadingIsReadable
<1>6. Readable(then) /\ then \in ReadStates /\ then.ok /\ then.head \in Heads
  <2>1. then = Reading(rest, f, n)
    BY <1>4 DEF Parts
  <2>2. Readable(then)
    BY <1>5, <2>1 DEF Read
  <2> HIDE DEF then
  <2> QED BY <2>2, ReadableParts
<1>7. f \in Nat /\ n \in Nat /\ n + 1 > f /\ ~(n + 1 <= f)
  <2>1. f \in Nat /\ n \in Nat /\ f \in 0 .. n
    BY <1>4 DEF Parts
  <2> HIDE DEF f, n
  <2> QED BY <2>1
<1>8. /\ more \in Seq(Records)
      /\ next = DecodeRecord(then, record, n + 1, f)
  BY <1>1, <1>2, DecodeAppend
<1> HIDE DEF then, next, more, n, f
<1>9. CanSave(then.head, record.op)
  BY <1>1 DEF CanSave
<1> DEFINE head == SaveOperation(then.head, record.op, record.value)
<1>10. DecodeRecord(then, record, n + 1, f) = WithHead(then, head)
  <2>1. DecodeRecord(then, record, n + 1, f) = ReplayOperation(then, record)
    BY <1>2, <1>6, <1>7, Zenon DEF DecodeRecord
  <2>2. ReplayOperation(then, record) = WithHead(then, head)
    BY <1>9, Zenon DEF ReplayOperation, WithHead
  <2> QED BY <2>1, <2>2
<1>11. SavedTo(then.head, head, record.op, record.value)
  BY <1>1, <1>3, <1>6, SavedOperation
<1> HIDE DEF head
<1>12. HasHead(then, next, head)
  <2>1. head \in Heads
    BY <1>11 DEF SavedTo
  <2> QED BY <1>6, <1>8, <1>10, <2>1, StateWithHead
<1>13. next.ok /\ next.items = a.items /\ next.head = head /\ head.owned = a.head.owned
  BY <1>1, <1>6, <1>11, <1>12 DEF HasHead, SavedTo, Same, AllFields
<1>14. Legible(more)
  <2>1. Follows(record, then.head, rest, n + 1)
    BY <1>2 DEF Follows
  <2>2. DecodeRecord(then, record, n + 1, f).ok
    BY <1>8, <1>13
  <2> QED BY <1>1, <1>2, <2>1, <2>2, LegibleAppend DEF more, n, f, then
<1>15. head.ops = [then.head.ops EXCEPT ![record.op] = record.value]
  BY <1>11 DEF SavedTo
<1>16. /\ DOMAIN head.ops = DOMAIN a.head.ops
       /\ DOMAIN a.head.ops \subseteq DOMAIN c.head.ops
       /\ \A o \in DOMAIN a.head.ops : head.ops[o] = c.head.ops[o]
  <2>1. DOMAIN head.ops = DOMAIN a.head.ops /\ DOMAIN c.head.ops = DOMAIN b.head.ops
    BY <1>1, <1>15
  <2>2. ASSUME NEW o \in DOMAIN a.head.ops PROVE head.ops[o] = c.head.ops[o]
    BY <1>1, <1>15, <2>2
  <2> QED BY <1>1, <2>1, <2>2
<1>17. Restores(more, a, c)
  BY <1>1, <1>8, <1>13, <1>14, <1>16 DEF Restores, next
<1> QED BY <1>17 DEF more

LEMMA ConcatAppend ==
  ASSUME NEW S, NEW s \in Seq(S), NEW t \in Seq(S), NEW e \in S
  PROVE  s \o Append(t, e) = Append(s \o t, e)
<1> DEFINE one == <<e>>
<1>1. one \in Seq(S)
  OBVIOUS
<1>2. Append(t, e) = t \o one
  BY AppendIsConcat
<1>3. s \o t \in Seq(S)
  BY ConcatProperties
<1>4. Append(s \o t, e) = (s \o t) \o one
  BY <1>3, AppendIsConcat
<1> HIDE DEF one
<1>5. s \o (t \o one) = (s \o t) \o one
  BY <1>1, ConcatAssociative
<1> QED BY <1>2, <1>4, <1>5

\* After the prompt, what is kept with the saves is the state before it with the outcomes since.
LEMMA CutStep ==
  ASSUME NEW records \in Seq(Records), Legible(records),
         NEW k \in Nat, k + 1 <= Len(records), NEW prompt, NEW n,
         NEW cut, CutAt(records, LastFork(records), n, k, prompt, cut)
  PROVE  CutAt(records, LastFork(records), n, k + 1, prompt,
               CutterAdd(prompt, cut, records[k + 1], k + 1))
<1> DEFINE f == LastFork(records)
           a == Reading(records, f, n)
           b == Reading(records, f, k)
           c == Reading(records, f, k + 1)
           next == CutterAdd(prompt, cut, records[k + 1], k + 1)
           record == records[k + 1]
           p == SubSeq(records, 1, n)
<1>1. /\ cut \in CutStates /\ cut.found /\ cut.keep = n /\ n \in Nat /\ n < k
      /\ Readable(a) /\ Readable(b)
      /\ cut.items = a.head.seq
      /\ cut.owned = DOMAIN a.head.ops
      /\ n <= f /\ cut.sinceFork = 0 => n = 0 \/ IsFork(records[n])
      /\ Begins(a.items, b.items)
      /\ PromptNext(b.items, Len(a.items), prompt)
      /\ cut.forked => n < f
      /\ n < f /\ f <= k => cut.forked
      /\ n < f => cut.owned = {} /\ cut.saves = <<>>
      /\ n >= f => a.head.owned \subseteq b.head.owned /\ Restores(p \o cut.saves, a, b)
  BY DEF CutAt
<1>2. record \in Records
  <2>1. k + 1 \in 1 .. Len(records)
    BY LenProperties
  <2> QED BY <2>1, ElementOfSeq
<1>0. Parts(records, f, Len(records))
  BY LegibleParts
<1>3. Grows(records, f, k)
  BY Growing
<1>p. p \in Seq(Records)
  <2>1. n \in 0 .. Len(records) /\ 1 \in 1 .. Len(records) + 1
    BY <1>1, LenProperties
  <2> QED BY <2>1, SubSeqProperties
<1>4. /\ next \in CutStates
      /\ next.found /\ next.keep = cut.keep /\ next.items = cut.items
      /\ next.sinceFork = cut.sinceFork /\ next.owned = cut.owned
      /\ next.forked = (cut.forked \/ IsFork(record))
      /\ next.saves = IF record.type = "operation" /\ record.op \in cut.owned
                      THEN Append(cut.saves, record) ELSE cut.saves
  BY <1>1, <1>2, CutsOff
<1>5. f \in Nat /\ (f # 0 => IsFork(records[f])) /\ (k + 1 > f => ~IsFork(record))
  BY <1>0, <1>3 DEF Parts, Grows
<1> HIDE DEF next, f, record, p
<1>6. /\ Readable(c)
      /\ c.items = b.items \/ \E item \in WholeItems : c.items = Append(b.items, item)
      /\ k + 1 > f => b.head.owned \subseteq c.head.owned
      /\ IF IsStatus(record) /\ record.item.value # None
         THEN /\ DOMAIN c.head.ops = DOMAIN b.head.ops \cup {record.item.op}
              /\ \A o \in DOMAIN b.head.ops : c.head.ops[o] = b.head.ops[o]
         ELSE IF record.type = "operation"
         THEN /\ k + 1 > f /\ record.op \in DOMAIN b.head.ops
              /\ c.head.ops = [b.head.ops EXCEPT ![record.op] = record.value]
         ELSE c.head.ops = b.head.ops
  BY <1>3 DEF Grows, record
<1> HIDE DEF a, b, c
<1>7. /\ a.items \in Seq(WholeItems) /\ b.items \in Seq(WholeItems) /\ Len(a.items) \in Nat
  BY <1>1, ReadableParts, LenProperties
<1>8. Begins(a.items, c.items) /\ PromptNext(c.items, Len(a.items), prompt)
  <2>1. CASE c.items = b.items
    BY <1>1, <2>1
  <2>2. ASSUME NEW item \in WholeItems, c.items = Append(b.items, item)
        PROVE  Begins(a.items, c.items) /\ PromptNext(c.items, Len(a.items), prompt)
    BY <1>1, <1>7, <2>2, BeginsMore, PromptStays
  <2> QED BY <1>6, <2>1, <2>2
<1>9. next.forked => n < f
  <2>1. IsFork(record) => ~(k + 1 > f)
    BY <1>5
  <2>2. ~(k + 1 > f) => n < f
    BY <1>1, <1>5
  <2> QED BY <1>1, <1>4, <2>1, <2>2
<1>10. n < f /\ f <= k + 1 => next.forked
  <2> SUFFICES ASSUME n < f, f <= k + 1 PROVE next.forked
    OBVIOUS
  <2>1. CASE f <= k
    BY <1>1, <1>4, <2>1
  <2>2. CASE ~(f <= k)
    <3>1. f = k + 1 /\ f # 0
      BY <1>1, <1>5, <2>2
    <3>2. IsFork(record)
      BY <1>5, <3>1 DEF record
    <3> QED BY <1>4, <3>2
  <2> QED BY <2>1, <2>2
<1>11. n < f => next.owned = {} /\ next.saves = <<>>
  BY <1>1, <1>4
<1>12. ASSUME n >= f PROVE a.head.owned \subseteq c.head.owned /\ Restores(p \o next.saves, a, c)
  <2>1. k + 1 > f
    BY <1>1, <1>5, <1>12
  <2>2. a.head.owned \subseteq b.head.owned /\ Restores(p \o cut.saves, a, b)
    BY <1>1, <1>12
  <2>3. CASE record.type = "operation" /\ record.op \in cut.owned
    <3>1. ~(IsStatus(record) /\ record.item.value # None)
      BY <2>3 DEF IsStatus, IsItem
    <3>2. c.head.ops = [b.head.ops EXCEPT ![record.op] = record.value]
      BY <1>6, <2>3, <3>1
    <3>3. cut.saves \in Seq(Records)
      BY <1>1, CutParts
    <3>4. p \o next.saves = Append(p \o cut.saves, record)
      <4>1. next.saves = Append(cut.saves, record)
        BY <1>4, <2>3
      <4> QED BY <1>2, <1>p, <3>3, <4>1, ConcatAppend
    <3>5. record.op \in DOMAIN a.head.ops
      BY <1>1, <2>3
    <3>6. Restores(Append(p \o cut.saves, record), a, c)
      BY <1>2, <2>2, <2>3, <3>2, <3>5, RestoresSaved
    <3> QED BY <1>6, <2>1, <2>2, <3>4, <3>6
  <2>4. CASE ~(record.type = "operation" /\ record.op \in cut.owned)
    <3>1. next.saves = cut.saves
      BY <1>4, <2>4
    <3>2. /\ DOMAIN b.head.ops \subseteq DOMAIN c.head.ops
          /\ \A o \in DOMAIN a.head.ops : c.head.ops[o] = b.head.ops[o]
      <4>1. DOMAIN a.head.ops \subseteq DOMAIN b.head.ops
        BY <2>2 DEF Restores
      <4>2. CASE IsStatus(record) /\ record.item.value # None
        BY <1>6, <4>1, <4>2
      <4>3. CASE ~(IsStatus(record) /\ record.item.value # None) /\ record.type = "operation"
        <5>1. c.head.ops = [b.head.ops EXCEPT ![record.op] = record.value]
          BY <1>6, <4>3
        <5>2. record.op \notin DOMAIN a.head.ops
          BY <1>1, <2>4, <4>3
        <5> QED BY <4>1, <5>1, <5>2
      <4>4. CASE ~(IsStatus(record) /\ record.item.value # None) /\ record.type # "operation"
        BY <1>6, <4>4
      <4> QED BY <4>2, <4>3, <4>4
    <3>3. Restores(p \o cut.saves, a, c)
      <4> DEFINE rest == p \o cut.saves
      <4> HIDE DEF rest
      <4>1. Restores(rest, a, b)
        BY <2>2 DEF rest
      <4>2. Restores(rest, a, c)
        BY <3>2, <4>1 DEF Restores
      <4> QED BY <4>2 DEF rest
    <3> QED BY <1>6, <2>1, <2>2, <3>1, <3>3
  <2> QED BY <2>3, <2>4
<1>13. n < k + 1
  BY <1>1
<1>14. CutAt(records, f, n, k + 1, prompt, next)
  BY <1>1, <1>4, <1>6, <1>8, <1>9, <1>10, <1>11, <1>12, <1>13 DEF CutAt, a, c, p
<1> QED BY <1>14 DEF next, f, record

\* The cut of a whole file.
CutFound(records, prompt, cut) ==
  CutAt(records, LastFork(records), cut.keep, Len(records), prompt, cut)

\* So it is of the whole file.
LEMMA Cutting ==
  ASSUME NEW records \in Seq(Records), Legible(records), NEW prompt \in Prompts
  PROVE  /\ CutLog(records, prompt) \in CutStates
         /\ CutLog(records, prompt).found => CutFound(records, prompt, CutLog(records, prompt))
<1> DEFINE n == Len(records)
           f == LastFork(records)
           cuts == CHOOSE g : CutBy(g, records, prompt, n)
           S == {k \in Nat : k <= n => \/ Clean(records, f, k, cuts[k])
                                       \/ \E m : CutAt(records, f, m, k, prompt, cuts[k])}
<1>1. n \in Nat
  BY LenProperties
<1>2. CutLog(records, prompt) = cuts[n]
  BY Zenon DEF CutLog, Over, CutBy
<1>3. CutBy(cuts, records, prompt, n)
  BY <1>1, CutByExists, Zenon
<1> HIDE DEF cuts
<1>4. \A k \in 0 .. n : cuts[k] = IF k = 0 THEN Cutter ELSE CutterAdd(prompt, cuts[k - 1], records[k], k)
  <2>1. cuts = [k \in 0 .. n |-> IF k = 0 THEN Cutter ELSE CutterAdd(prompt, cuts[k - 1], records[k], k)]
    BY <1>1, <1>3, CutByDef
  <2> QED BY <2>1
<1> HIDE DEF n
<1>5. 0 \in S
  <2>1. cuts[0] = Cutter
    BY <1>1, <1>4
  <2>2. Clean(records, f, 0, cuts[0])
    BY <2>1, CleanStarts
  <2> QED BY <2>2
<1>6. ASSUME NEW k \in Nat, k \in S PROVE k + 1 \in S
  <2> SUFFICES ASSUME k + 1 <= n
               PROVE  \/ Clean(records, f, k + 1, cuts[k + 1])
                      \/ \E m : CutAt(records, f, m, k + 1, prompt, cuts[k + 1])
    OBVIOUS
  <2>1. k + 1 \in 0 .. n /\ k + 1 # 0 /\ (k + 1) - 1 = k /\ k <= n
    BY <1>1
  <2>2. cuts[k + 1] = CutterAdd(prompt, cuts[k], records[k + 1], k + 1)
    BY <1>4, <2>1
  <2>3. Clean(records, f, k, cuts[k]) \/ \E m : CutAt(records, f, m, k, prompt, cuts[k])
    BY <1>6, <2>1
  <2>l. k + 1 <= Len(records)
    BY DEF n
  <2> HIDE DEF f
  <2>4. ASSUME NEW m, CutAt(records, f, m, k, prompt, cuts[k])
        PROVE  CutAt(records, f, m, k + 1, prompt, cuts[k + 1])
    BY <2>2, <2>4, <2>l, CutStep DEF f
  <2>5. CASE Clean(records, f, k, cuts[k])
    <3>1. CASE IsPrompt(records[k + 1], prompt)
      <4>1. ~IsSettings(records[k + 1])
        BY <3>1, RecordsAssumption DEF IsPrompt, IsSettings, InputItem
      <4>2. CutAt(records, f, k - Len(cuts[k].waiting), k + 1, prompt, cuts[k + 1])
        BY <2>2, <2>5, <2>l, <3>1, <4>1, FindsPrompt DEF f
      <4> QED BY <4>2
    <3>2. CASE ~IsPrompt(records[k + 1], prompt) /\ IsSettings(records[k + 1])
      BY <2>2, <2>5, <2>l, <3>2, CleanSettings DEF f
    <3>3. CASE ~IsPrompt(records[k + 1], prompt) /\ ~IsSettings(records[k + 1])
      BY <2>2, <2>5, <2>l, <3>3, CleanOther DEF f
    <3> QED BY <3>1, <3>2, <3>3
  <2> QED BY <2>3, <2>4, <2>5
<1> HIDE DEF S, f
<1>7. n \in S
  BY <1>1, <1>5, <1>6, NatSetInduction
<1>8. Clean(records, f, n, cuts[n]) \/ \E m : CutAt(records, f, m, n, prompt, cuts[n])
  <2>1. n <= n
    BY <1>1
  <2> QED BY <1>7, <2>1 DEF S
<1>9. CASE Clean(records, f, n, cuts[n])
  BY <1>2, <1>9 DEF Clean, CleanFrom
<1>10. ASSUME NEW m, CutAt(records, f, m, n, prompt, cuts[n])
       PROVE  cuts[n] \in CutStates /\ CutAt(records, f, cuts[n].keep, n, prompt, cuts[n])
  <2>1. cuts[n].keep = m /\ cuts[n] \in CutStates
    BY <1>10 DEF CutAt
  <2> QED BY <1>10, <2>1
<1> QED BY <1>2, <1>8, <1>9, <1>10 DEF CutFound, n, f

\* The part of a file that is another session's.
InheritedTo(records, f, k) ==
  LET state == Reading(records, f, k)
  IN /\ Readable(state)
     /\ state.head.ops = <<>> /\ state.head.seq = k /\ Len(state.items) = k
     /\ \A i \in 1 .. k : state.items[i] = records[i].item
     /\ k # 0 /\ IsFork(records[k]) => state.head.owned = {}

LEMMA InheritedStep ==
  ASSUME NEW records \in Seq(Records), Legible(records),
         NEW k \in Nat, k + 1 <= LastFork(records), InheritedTo(records, LastFork(records), k)
  PROVE  /\ InheritedTo(records, LastFork(records), k + 1)
         /\ IsItem(records[k + 1]) /\ records[k + 1].seq = k + 1
         /\ records[k + 1].item.kind = "status" => records[k + 1].item.value = None
<1> DEFINE f == LastFork(records)
           a == Reading(records, f, k)
           b == Reading(records, f, k + 1)
           record == records[k + 1]
<1>0. Parts(records, f, Len(records))
  BY LegibleParts
<1>1. f \in Nat /\ k + 1 <= Len(records) /\ k + 1 \in Nat /\ k + 1 <= f /\ k + 1 # 0
  <2>1. f \in Nat /\ f \in 0 .. Len(records) /\ Len(records) \in Nat /\ k + 1 <= f
    BY <1>0 DEF Parts
  <2> HIDE DEF f
  <2> QED BY <2>1
<1>2. Grows(records, f, k)
  BY <1>1, Growing
<1>3. b = DecodeRecord(a, record, k + 1, f)
  BY <1>1, ReadingSteps
<1>s. InheritedTo(records, f, k)
  OBVIOUS
<1> HIDE DEF f, record
<1>4. /\ Readable(a) /\ Readable(b) /\ record \in Records
      /\ b.head.ops = <<>> /\ IsItem(record) /\ record.seq = a.head.seq + 1
      /\ record.item.kind = "status" => record.item.value = None
      /\ b.items = Append(a.items, record.item)
      /\ b.head.seq = a.head.seq + 1
  BY <1>1, <1>2 DEF Grows, record
<1>5. /\ a.head.seq = k /\ Len(a.items) = k /\ \A i \in 1 .. k : a.items[i] = records[i].item
  BY <1>s DEF InheritedTo
<1> HIDE DEF a, b
<1>6. a.items \in Seq(WholeItems) /\ a \in ReadStates /\ a.head \in Heads /\ b.ok
  BY <1>4, ReadableParts
<1>7. Len(b.items) = k + 1 /\ \A i \in 1 .. k + 1 : b.items[i] = records[i].item
  <2>1. b.head.seq = k + 1 /\ Len(b.items) = b.head.seq
    BY <1>4, <1>5, ReadableParts
  <2>2. record.item \in WholeItems
    <3>1. record.item \in RecordedItems
      BY <1>4, RecordKinds
    <3>2. record.item.kind # "status" => record.item \in WholeItems
      BY <3>1 DEF RecordedItems, WholeItems
    <3>3. record.item.kind = "status" => record.item \in WholeItems
      BY <1>4, <3>1 DEF RecordedItems, WholeItems
    <3> QED BY <3>2, <3>3
  <2>3. b.items[k + 1] = record.item /\ \A i \in 1 .. k : b.items[i] = a.items[i]
    BY <1>4, <1>5, <1>6, <2>2, AppendProperties
  <2>4. \A i \in 1 .. k + 1 : i = k + 1 \/ i \in 1 .. k
    OBVIOUS
  <2> QED BY <1>5, <2>1, <2>3, <2>4 DEF record
<1>8. IsFork(record) => b.head.owned = {}
  <2> SUFFICES ASSUME IsFork(record) PROVE b.head.owned = {}
    OBVIOUS
  <2>1. b = With(a, Inherit(a.head, record.seq, record.item), record.item)
    BY <1>1, <1>3, <1>4, <1>6, ReadInherited
  <2>2. b.head = Inherit(a.head, record.seq, record.item)
    BY <1>6, <2>1 DEF With, ReadStates
  <2>3. record.item \in RecordedItems /\ record.item.kind = "fork" /\ record.seq \in Nat
    BY <1>4, RecordKinds DEF IsFork
  <2>4. Forked(a.head, Inherit(a.head, record.seq, record.item), record.seq)
    BY <1>6, <2>3, InheritedFork
  <2> QED BY <2>2, <2>4 DEF Forked
<1>9. InheritedTo(records, f, k + 1)
  <2>1. b.head.seq = k + 1
    BY <1>4, <1>5
  <2> QED BY <1>4, <1>7, <1>8, <2>1 DEF InheritedTo, b, record
<1> QED BY <1>4, <1>5, <1>9 DEF f, record

\* What is before the last fork is read as it is, and owns no operation.
LEMMA InheritedPart ==
  ASSUME NEW records \in Seq(Records), Legible(records)
  PROVE  /\ Inherits(records, LastFork(records))
         /\ \A k \in 0 .. LastFork(records) : InheritedTo(records, LastFork(records), k)
<1> DEFINE f == LastFork(records)
           S == {k \in Nat : k <= f => InheritedTo(records, f, k)}
<1>0. Parts(records, f, Len(records))
  BY LegibleParts
<1>1. f \in Nat /\ Reading(records, f, 0) = Read0
  <2>1. f \in Nat
    BY <1>0 DEF Parts
  <2> QED BY <2>1, ReadingSteps
<1>3. 0 \in S
  <2>1. Readable(Read0) /\ Read0.head.ops = <<>> /\ Read0.head.seq = 0 /\ Len(Read0.items) = 0
    BY Read0IsReadable, ReadableParts
  <2>2. \A i \in 1 .. 0 : FALSE
    OBVIOUS
  <2>3. InheritedTo(records, f, 0)
    BY <1>1, <2>1, <2>2 DEF InheritedTo
  <2> QED BY <2>3
<1>4. ASSUME NEW k \in Nat, k \in S PROVE k + 1 \in S
  <2> SUFFICES ASSUME k + 1 <= f PROVE InheritedTo(records, f, k + 1)
    OBVIOUS
  <2>1. InheritedTo(records, f, k)
    <3>1. k <= f
      BY <1>1
    <3> QED BY <1>4, <3>1
  <2> QED BY <2>1, InheritedStep
<1> HIDE DEF S, f
<1>5. Nat \subseteq S
  BY <1>3, <1>4, NatSetInduction
<1>6. ASSUME NEW k \in 0 .. f PROVE InheritedTo(records, f, k)
  <2>1. k \in Nat /\ k <= f
    BY <1>1
  <2> QED BY <1>5, <2>1 DEF S
<1>7. ASSUME NEW k \in 1 .. f
      PROVE  /\ IsItem(records[k]) /\ records[k].seq = k
             /\ records[k].item.kind = "status" => records[k].item.value = None
  <2> DEFINE m == k - 1
  <2>1. m \in Nat /\ m \in 0 .. f /\ m + 1 = k /\ m + 1 <= f
    BY <1>1
  <2> HIDE DEF m
  <2>2. InheritedTo(records, f, m)
    BY <1>6, <2>1
  <2>3. /\ IsItem(records[m + 1]) /\ records[m + 1].seq = m + 1
        /\ records[m + 1].item.kind = "status" => records[m + 1].item.value = None
    BY <2>1, <2>2, InheritedStep DEF f
  <2> QED BY <2>1, <2>3
<1> QED BY <1>6, <1>7 DEF Inherits, f

\* A file of inherited records only.
LEMMA InheritedIsRead ==
  ASSUME NEW records \in Seq(Records), Inherits(records, Len(records)),
         Len(records) # 0 => IsFork(records[Len(records)])
  PROVE  /\ Legible(records)
         /\ DecodeLog(records).ok
         /\ DecodeLog(records).head.ops = <<>> /\ DecodeLog(records).head.owned = {}
         /\ DecodeLog(records).items \in Seq(WholeItems)
         /\ Len(DecodeLog(records).items) = Len(records)
         /\ \A i \in 1 .. Len(records) : DecodeLog(records).items[i] = records[i].item
<1> DEFINE n == Len(records)
           f == LastFork(records)
           state == DecodeLog(records)
<1>1. Legible(records)
  BY InheritedIsLegible
<1>2. Parts(records, f, n)
  BY <1>1, LegibleParts
<1>3. n \in Nat /\ f \in 0 .. n /\ state = Reading(records, f, n) /\ f \in Nat
  BY <1>2 DEF Parts
<1>4. f = n
  <2>1. \A k \in 1 .. n : IsFork(records[k]) => k <= f
    BY <1>3, ForkPlace
  <2>2. n # 0 => IsFork(records[n])
    OBVIOUS
  <2> HIDE DEF n, f
  <2>3. n # 0 => n \in 1 .. n
    BY <1>3
  <2> QED BY <1>3, <2>1, <2>2, <2>3
<1>5. InheritedTo(records, f, n)
  <2>1. n \in 0 .. f
    BY <1>3, <1>4
  <2> QED BY <1>1, <2>1, InheritedPart
<1>6. state.head.owned = {}
  <2>1. CASE n = 0
    <3>1. Reading(records, f, 0) = Read0
      BY <1>3, ReadingSteps
    <3>2. Read0.head.owned = {}
      BY DEF Read0, NewHead
    <3> QED BY <1>3, <2>1, <3>1, <3>2
  <2>2. CASE n # 0
    BY <1>3, <1>5, <2>2 DEF InheritedTo
  <2> QED BY <2>1, <2>2
<1> HIDE DEF state
<1>7. Readable(state) /\ state.head.ops = <<>> /\ Len(state.items) = n
      /\ \A i \in 1 .. n : state.items[i] = records[i].item
  BY <1>3, <1>5 DEF InheritedTo
<1>8. state.items \in Seq(WholeItems) /\ state.ok
  BY <1>7, ReadableParts
<1> QED BY <1>1, <1>6, <1>7, <1>8 DEF state

LEMMA PrefixIsBeginning ==
  ASSUME NEW S, NEW a \in Seq(S), NEW b \in Seq(S)
  PROVE  IsPrefix(a, b) <=> Begins(a, b)
<1>0. Len(a) \in Nat /\ Len(b) \in Nat
  BY LenProperties
<1>1. SubSeq(a, 1, Len(a)) = a
  BY AllOfIt
<1>2. ASSUME Len(a) <= Len(b)
      PROVE  SubSeq(a, 1, Len(a)) = SubSeq(b, 1, Len(a)) <=> \A i \in 1 .. Len(a) : b[i] = a[i]
  <2> DEFINE c == SubSeq(b, 1, Len(a))
  <2>1. c \in Seq(S) /\ Len(c) = Len(a) /\ \A i \in 1 .. Len(a) : c[i] = b[i]
    <3>1. 1 \in 1 .. Len(b) + 1 /\ Len(a) \in 0 .. Len(b)
      BY <1>0, <1>2
    <3> QED BY <1>0, <3>1, SubSeqProperties
  <2> HIDE DEF c
  <2>2. ASSUME \A i \in 1 .. Len(a) : b[i] = a[i] PROVE a = c
    BY <2>1, <2>2, SeqEqual
  <2>3. a = c => \A i \in 1 .. Len(a) : b[i] = a[i]
    BY <2>1
  <2> QED BY <1>1, <2>2, <2>3 DEF c
<1> QED BY <1>2 DEF IsPrefix, Begins

LEMMA FrontOfAppend ==
  ASSUME NEW S, NEW s \in Seq(S), NEW e \in S
  PROVE  Front(Append(s, e)) = s /\ Last(Append(s, e)) = e
<1> DEFINE more == Append(s, e)
<1>1. more \in Seq(S) /\ Len(more) = Len(s) + 1 /\ Len(s) \in Nat /\ more[Len(s) + 1] = e
      /\ \A i \in 1 .. Len(s) : more[i] = s[i]
  BY AppendProperties, LenProperties
<1> HIDE DEF more
<1>2. Last(more) = e
  BY <1>1 DEF Last
<1>3. Front(more) = SubSeq(more, 1, Len(s))
  <2>1. Len(more) - 1 = Len(s)
    BY <1>1
  <2> QED BY <2>1 DEF Front
<1> DEFINE c == SubSeq(more, 1, Len(s))
<1>4. c \in Seq(S) /\ Len(c) = Len(s) /\ \A i \in 1 .. Len(s) : c[i] = more[i]
  <2>1. 1 \in 1 .. Len(more) + 1 /\ Len(s) \in 0 .. Len(more)
    BY <1>1
  <2> QED BY <1>1, <2>1, SubSeqProperties
<1> HIDE DEF c
<1>5. c = s
  BY <1>1, <1>4, SeqEqual
<1> QED BY <1>2, <1>3, <1>5 DEF c, more

\* What remains of a file that is rewound before a prompt.
Rewound(records, prompt, rest) ==
  LET then == DecodeLog(rest)
      was == DecodeLog(records)
      n == Left(then.items, was.items)
  IN /\ rest \in Seq(Records) /\ Legible(rest) /\ then.ok
     /\ then.head.owned \subseteq was.head.owned
     /\ DOMAIN then.head.ops \subseteq DOMAIN was.head.ops
     /\ \A o \in DOMAIN then.head.ops : then.head.ops[o] = was.head.ops[o]
     /\ n \in Nat /\ PromptNext(was.items, n, prompt)

\* The first records, of which none is the session's own.
LEMMA KeptOfAnother ==
  ASSUME NEW records \in Seq(Records), Legible(records), NEW n \in Nat, n <= LastFork(records)
  PROVE  LET kept == SubSeq(records, 1, n)
         IN /\ kept \in Seq(Records) /\ Len(kept) = n /\ Inherits(kept, n)
            /\ \A i \in 1 .. n : kept[i] = records[i]
            /\ \A i \in 1 .. n : kept[i].item = Reading(records, LastFork(records), n).items[i]
<1> DEFINE f == LastFork(records)
           kept == SubSeq(records, 1, n)
<1>0. Parts(records, f, Len(records))
  BY LegibleParts
<1>1. f \in Nat /\ n <= Len(records) /\ Len(records) \in Nat /\ n \in 0 .. f
  <2>1. f \in 0 .. Len(records) /\ Len(records) \in Nat /\ n <= f
    BY <1>0 DEF Parts
  <2> HIDE DEF f
  <2> QED BY <2>1
<1>2. kept \in Seq(Records) /\ Len(kept) = n /\ \A i \in 1 .. n : kept[i] = records[i]
  <2>1. 1 \in 1 .. Len(records) + 1 /\ n \in 0 .. Len(records)
    BY <1>1
  <2> QED BY <2>1, SubSeqProperties
<1>3. Inherits(records, f) /\ InheritedTo(records, f, n)
  BY <1>1, InheritedPart
<1> HIDE DEF f, kept
<1>4. \A i \in 1 .. n : i \in 1 .. f
  BY <1>1
<1>5. Inherits(kept, n)
  BY <1>2, <1>3, <1>4 DEF Inherits
<1>6. \A i \in 1 .. n : kept[i].item = Reading(records, f, n).items[i]
  BY <1>2, <1>3 DEF InheritedTo
<1> QED BY <1>2, <1>5, <1>6 DEF f, kept

\* A rewind within what the session owns, and into what it inherited.
LEMMA RewindsOwn ==
  ASSUME NEW records \in Seq(Records), Legible(records), NEW prompt,
         NEW cut, CutFound(records, prompt, cut), ~cut.forked
  PROVE  Rewound(records, prompt, Remains(records, cut))
<1> DEFINE f == LastFork(records)
           n == cut.keep
           a == Reading(records, f, n)
           b == Reading(records, f, Len(records))
           rest == SubSeq(records, 1, n) \o cut.saves
           then == DecodeLog(rest)
<1>0. Parts(records, f, Len(records))
  BY LegibleParts
<1>1. f \in Nat /\ f <= Len(records) /\ DecodeLog(records) = b
  BY <1>0 DEF Parts
<1>2. CutAt(records, f, n, Len(records), prompt, cut)
  BY DEF CutFound
<1>3. Remains(records, cut) = rest
  BY DEF Remains
<1> HIDE DEF f, rest
<1>4. /\ Readable(a) /\ Readable(b) /\ n \in Nat
      /\ Begins(a.items, b.items) /\ PromptNext(b.items, Len(a.items), prompt)
      /\ n < f /\ f <= Len(records) => cut.forked
      /\ n >= f => a.head.owned \subseteq b.head.owned /\ Restores(rest, a, b)
  BY <1>2 DEF CutAt, rest
<1>5. Restores(rest, a, b) /\ a.head.owned \subseteq b.head.owned
  BY <1>1, <1>4
<1> HIDE DEF a, b, then
<1>6. /\ rest \in Seq(Records) /\ Legible(rest)
      /\ then.items = a.items /\ then.head.owned = a.head.owned
      /\ DOMAIN then.head.ops = DOMAIN a.head.ops
      /\ DOMAIN a.head.ops \subseteq DOMAIN b.head.ops
      /\ \A o \in DOMAIN a.head.ops : then.head.ops[o] = b.head.ops[o]
  BY <1>5 DEF Restores, then
<1>7. then.ok
  BY <1>6 DEF Legible, then
<1>8. a.items \in Seq(WholeItems) /\ b.items \in Seq(WholeItems) /\ Len(a.items) \in Nat
  BY <1>4, ReadableParts
<1>9. Left(then.items, b.items) = Len(a.items)
  <2>1. IsPrefix(a.items, b.items)
    BY <1>4, <1>8, PrefixIsBeginning
  <2> QED BY <1>6, <2>1 DEF Left
<1>10. Rewound(records, prompt, rest)
  BY <1>1, <1>4, <1>5, <1>6, <1>7, <1>8, <1>9 DEF Rewound, then
<1> QED BY <1>3, <1>10

LEMMA RewindsInherited ==
  ASSUME NEW records \in Seq(Records), Legible(records), NEW prompt,
         NEW cut, CutFound(records, prompt, cut), cut.forked
  PROVE  Rewound(records, prompt, Remains(records, cut))
<1> DEFINE f == LastFork(records)
           n == cut.keep
           a == Reading(records, f, n)
           b == Reading(records, f, Len(records))
           kept == SubSeq(records, 1, n)
           mark == ItemRecord(cut.items + 1, ForkItem(cut.latest))
<1>0. Parts(records, f, Len(records))
  BY LegibleParts
<1>1. f \in Nat /\ DecodeLog(records) = b
  BY <1>0 DEF Parts
<1>2. CutAt(records, f, n, Len(records), prompt, cut)
  BY DEF CutFound
<1> HIDE DEF f, n
<1>3. /\ cut \in CutStates /\ n \in Nat /\ n < f
      /\ Readable(a) /\ Readable(b)
      /\ cut.items = a.head.seq
      /\ n <= f /\ cut.sinceFork = 0 => n = 0 \/ IsFork(records[n])
      /\ Begins(a.items, b.items) /\ PromptNext(b.items, Len(a.items), prompt)
      /\ cut.saves = <<>>
  BY <1>2 DEF CutAt
<1>4. n <= f /\ n \in 0 .. f
  BY <1>1, <1>3
<1>5. /\ kept \in Seq(Records) /\ Len(kept) = n /\ Inherits(kept, n)
      /\ \A i \in 1 .. n : kept[i] = records[i]
      /\ \A i \in 1 .. n : kept[i].item = a.items[i]
  BY <1>3, <1>4, KeptOfAnother DEF f
<1>6. a.head.seq = n /\ Len(a.items) = n
  <2>1. InheritedTo(records, f, n)
    BY <1>4, InheritedPart DEF f
  <2> QED BY <2>1 DEF InheritedTo
<1> HIDE DEF kept, a, b
<1>7. a.items \in Seq(WholeItems) /\ b.items \in Seq(WholeItems)
  BY <1>3, ReadableParts
<1>8. PICK i \in n + 1 .. Len(b.items) :
        b.items[i] = InputItem(prompt) /\ \A m \in n + 1 .. i - 1 : IsSettingsItem(b.items[m])
  BY <1>3, <1>6 DEF PromptNext
<1>9. CASE cut.sinceFork > 0
  <2> DEFINE rest == Append(kept, mark)
             then == DecodeLog(rest)
  <2>1. Remains(records, cut) = kept \o <<mark>>
    BY <1>9, Zenon DEF Remains, kept, n
  <2>2. mark \in Records /\ IsFork(mark) /\ mark.seq = n + 1 /\ mark.item.kind = "fork"
        /\ mark.item \in WholeItems /\ IsItem(mark)
    <3>1. cut.latest \in Turns \cup {None} /\ cut.items + 1 = n + 1
      BY <1>3, <1>6, CutParts
    <3> DEFINE latest == cut.latest
               seq == cut.items + 1
               item == ForkItem(latest)
    <3> HIDE DEF latest, seq
    <3>2. item \in RecordedItems /\ item \in WholeItems /\ item.kind = "fork"
      BY <3>1 DEF RecordedItems, WholeItems, ForkItem, latest
    <3> HIDE DEF item
    <3>3. seq \in Nat /\ seq = n + 1
      BY <1>3, <3>1 DEF seq
    <3>4. mark = [type |-> "item", seq |-> seq, item |-> item]
      BY DEF ItemRecord, item, seq, latest
    <3>5. mark \in Records
      BY <3>2, <3>3, <3>4 DEF Records
    <3> QED BY <3>2, <3>3, <3>4, <3>5 DEF IsFork, IsItem
  <2> HIDE DEF mark
  <2>3. Append(kept, mark) = kept \o <<mark>>
    BY <1>5, <2>2, AppendIsConcat
  <2>4. /\ rest \in Seq(Records) /\ Len(rest) = n + 1 /\ rest[n + 1] = mark
        /\ \A m \in 1 .. n : rest[m] = kept[m]
    BY <1>5, <2>2, AppendProperties
  <2> HIDE DEF rest
  <2>5. \A m \in 1 .. n + 1 : m = n + 1 \/ m \in 1 .. n
    BY <1>3
  <2>6. Inherits(rest, n + 1)
    <3> SUFFICES ASSUME NEW m \in 1 .. n + 1
                 PROVE  /\ IsItem(rest[m]) /\ rest[m].seq = m
                        /\ (rest[m].item.kind = "status" => rest[m].item.value = None)
      BY DEF Inherits
    <3>1. CASE m = n + 1
      BY <2>2, <2>4, <3>1
    <3>2. CASE m \in 1 .. n
      BY <1>5, <2>4, <3>2 DEF Inherits
    <3> QED BY <2>5, <3>1, <3>2
  <2>7. /\ Legible(rest) /\ then.ok /\ then.head.ops = <<>> /\ then.head.owned = {}
        /\ then.items \in Seq(WholeItems) /\ Len(then.items) = n + 1
        /\ \A m \in 1 .. n + 1 : then.items[m] = rest[m].item
    <3>1. Inherits(rest, Len(rest)) /\ IsFork(rest[Len(rest)])
      BY <2>2, <2>4, <2>6
    <3>2. /\ Legible(rest) /\ then.ok /\ then.head.ops = <<>> /\ then.head.owned = {}
          /\ then.items \in Seq(WholeItems) /\ Len(then.items) = Len(rest)
          /\ \A m \in 1 .. Len(rest) : then.items[m] = rest[m].item
      BY <2>4, <3>1, InheritedIsRead
    <3> QED BY <2>4, <3>2
  <2> HIDE DEF then
  <2>8. then.items = Append(a.items, mark.item)
    <3> DEFINE c == Append(a.items, mark.item)
    <3>1. /\ c \in Seq(WholeItems) /\ Len(c) = n + 1 /\ c[n + 1] = mark.item
          /\ \A m \in 1 .. n : c[m] = a.items[m]
      BY <1>6, <1>7, <2>2, AppendProperties
    <3> HIDE DEF c
    <3>2. ASSUME NEW m \in 1 .. n + 1 PROVE then.items[m] = c[m]
      <4>1. then.items[m] = rest[m].item
        BY <2>7
      <4>2. CASE m = n + 1
        BY <2>4, <3>1, <4>1, <4>2
      <4>3. CASE m \in 1 .. n
        BY <1>5, <2>4, <3>1, <4>1, <4>3
      <4> QED BY <2>5, <4>2, <4>3
    <3>3. then.items = c
      BY <2>7, <3>1, <3>2, SeqEqual
    <3> QED BY <3>3 DEF c
  <2>9. Front(then.items) = a.items /\ Last(then.items) = mark.item
    BY <1>7, <2>2, <2>8, FrontOfAppend
  <2>10. ~IsPrefix(then.items, b.items)
    <3> SUFFICES ASSUME IsPrefix(then.items, b.items) PROVE FALSE
      OBVIOUS
    <3>1. Begins(then.items, b.items)
      BY <1>7, <2>7, PrefixIsBeginning
    <3>2. b.items[n + 1] = mark.item
      <4>1. n + 1 \in 1 .. n + 1
        BY <1>3
      <4> QED BY <2>4, <2>7, <3>1, <4>1 DEF Begins
    <3>3. b.items[n + 1].kind = "input"
      <4>1. CASE i = n + 1
        BY <1>8, <4>1 DEF InputItem
      <4>2. CASE i # n + 1
        <5>1. n + 1 \in n + 1 .. i - 1
          BY <1>3, <4>2
        <5> QED BY <1>8, <5>1 DEF IsSettingsItem
      <4> QED BY <4>1, <4>2
    <3> QED BY <2>2, <3>2, <3>3
  <2>11. Left(then.items, b.items) = n
    <3>1. IsPrefix(a.items, b.items)
      BY <1>3, <1>7, PrefixIsBeginning
    <3>2. (n + 1) - 1 = n
      BY <1>3
    <3> QED BY <2>2, <2>7, <2>9, <2>10, <3>1, <3>2 DEF Left
  <2>12. Rewound(records, prompt, rest)
    BY <1>1, <1>3, <1>6, <2>4, <2>7, <2>11, NoOps DEF Rewound, then
  <2> QED BY <2>1, <2>3, <2>12 DEF rest
<1>10. CASE ~(cut.sinceFork > 0)
  <2> DEFINE then == DecodeLog(kept)
  <2>1. cut.sinceFork = 0
    <3>1. cut.sinceFork \in Nat
      BY <1>3, CutParts
    <3> QED BY <1>10, <3>1
  <2>2. Remains(records, cut) = kept
    <3>1. Remains(records, cut) = kept \o cut.saves
      BY <1>10, Zenon DEF Remains, kept, n
    <3>2. kept \o cut.saves = kept
      BY <1>3, <1>5, NothingMore
    <3> QED BY <3>1, <3>2
  <2>3. n # 0 => IsFork(kept[n])
    <3> SUFFICES ASSUME n # 0 PROVE IsFork(kept[n])
      OBVIOUS
    <3>1. n \in 1 .. n
      BY <1>3
    <3>2. IsFork(records[n])
      BY <1>3, <1>4, <2>1
    <3> QED BY <1>5, <3>1, <3>2
  <2>4. /\ Legible(kept) /\ then.ok /\ then.head.ops = <<>> /\ then.head.owned = {}
        /\ then.items \in Seq(WholeItems) /\ Len(then.items) = n
        /\ \A m \in 1 .. n : then.items[m] = kept[m].item
    <3>1. Inherits(kept, Len(kept)) /\ (Len(kept) # 0 => IsFork(kept[Len(kept)]))
      BY <1>5, <2>3
    <3>2. /\ Legible(kept) /\ then.ok /\ then.head.ops = <<>> /\ then.head.owned = {}
          /\ then.items \in Seq(WholeItems) /\ Len(then.items) = Len(kept)
          /\ \A m \in 1 .. Len(kept) : then.items[m] = kept[m].item
      BY <1>5, <3>1, InheritedIsRead
    <3> QED BY <1>5, <3>2
  <2> HIDE DEF then
  <2>5. then.items = a.items
    <3>1. \A m \in 1 .. n : then.items[m] = a.items[m]
      BY <1>5, <2>4
    <3>2. Len(then.items) = Len(a.items) /\ \A m \in 1 .. Len(then.items) : then.items[m] = a.items[m]
      BY <1>6, <2>4, <3>1
    <3> HIDE DEF n
    <3> QED BY <1>7, <2>4, <3>2, SeqEqual
  <2>6. Left(then.items, b.items) = n
    <3>1. IsPrefix(a.items, b.items)
      BY <1>3, <1>7, PrefixIsBeginning
    <3> QED BY <1>6, <2>5, <3>1 DEF Left
  <2>7. Rewound(records, prompt, kept)
    BY <1>1, <1>3, <1>5, <1>6, <2>4, <2>6, NoOps DEF Rewound, then
  <2> QED BY <2>2, <2>7
<1> QED BY <1>9, <1>10

\* A rewind leaves a file that can be read, with all that its operations came to.
LEMMA Rewinding ==
  ASSUME NEW records \in Seq(Records), Legible(records), NEW prompt \in Prompts,
         CutLog(records, prompt).found
  PROVE  Rewound(records, prompt, Remains(records, CutLog(records, prompt)))
<1> DEFINE cut == CutLog(records, prompt)
<1>1. CutFound(records, prompt, cut)
  BY Cutting
<1> HIDE DEF cut
<1>2. Rewound(records, prompt, Remains(records, cut))
  BY <1>1, RewindsOwn, RewindsInherited
<1> QED BY <1>2 DEF cut
=============================================================================
