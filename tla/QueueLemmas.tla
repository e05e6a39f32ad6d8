------------------------------ MODULE QueueLemmas ------------------------------
(***************************************************************************)
(* What removing and appending a node does to an intrusive queue without   *)
(* duplicates, and induction over the numbers up to a bound, for the       *)
(* proofs about the modules that keep a queue or compute a sum.            *)
(***************************************************************************)
EXTENDS Naturals, SequencesExt, SequenceTheorems, WellFoundedInduction,
        TLAPS

NoDuplicates(q) == \A i, j \in DOMAIN q : q[i] = q[j] => i = j

\* Removing an element moves those after it.
LEMMA RemoveAtIs ==
  ASSUME NEW S, NEW q \in Seq(S), NEW i \in 1 .. Len(q)
  PROVE  RemoveAt(q, i) =
           [j \in 1 .. Len(q) - 1 |-> IF j < i THEN q[j] ELSE q[j + 1]]
  <1> DEFINE r == [j \in 1 .. Len(q) - 1 |-> IF j < i THEN q[j] ELSE q[j + 1]]
             s == SubSeq(q, 1, i - 1)
             t == SubSeq(q, i + 1, Len(q))
  <1>1. RemoveAt(q, i) = s \o t BY DEF RemoveAt
  <1>2. r \in Seq(S) /\ Len(r) = Len(q) - 1 OBVIOUS
  <1>3. /\ s \in Seq(S) /\ Len(s) = i - 1
        /\ \A j \in 1 .. i - 1 : s[j] = q[j]
    OBVIOUS
  <1>4. /\ t \in Seq(S) /\ Len(t) = Len(q) - i
        /\ \A j \in 1 .. Len(q) - i : t[j] = q[i + j]
    OBVIOUS
  <1> HIDE DEF s, t
  <1>5. s \o t \in Seq(S) /\ Len(s \o t) = Len(q) - 1 BY <1>3, <1>4
  <1>6. ASSUME NEW j \in 1 .. Len(q) - 1 PROVE (s \o t)[j] = r[j]
    <2>1. (s \o t)[j] = IF j <= Len(s) THEN s[j] ELSE t[j - Len(s)]
      BY <1>3, <1>4
    <2>2. CASE j < i BY <1>3, <2>1, <2>2
    <2>3. CASE ~(j < i)
      <3>1. j - (i - 1) \in 1 .. Len(q) - i /\ i + (j - (i - 1)) = j + 1
        BY <2>3
      <3>2. t[j - (i - 1)] = q[j + 1] BY <1>4, <3>1
      <3> QED BY <1>3, <2>1, <2>3, <3>2
    <2> QED BY <2>2, <2>3
  <1>7. s \o t = r BY <1>2, <1>5, <1>6, SeqEqual
  <1> QED BY <1>1, <1>7

LEMMA RemovedNode ==
  ASSUME NEW S, NEW q \in Seq(S), NoDuplicates(q), NEW i \in 1 .. Len(q)
  PROVE  /\ RemoveAt(q, i) \in Seq(S)
         /\ NoDuplicates(RemoveAt(q, i))
         /\ Range(RemoveAt(q, i)) = Range(q) \ {q[i]}
         /\ Len(RemoveAt(q, i)) = Len(q) - 1
  <1> DEFINE a == q[i]
             r == [j \in 1 .. Len(q) - 1 |-> IF j < i THEN q[j] ELSE q[j + 1]]
  <1>1. i \in 1 .. Len(q) /\ q[i] = a OBVIOUS
  <1>2. RemoveAt(q, i) = r BY RemoveAtIs
  <1> HIDE DEF a
  <1>3. /\ r \in Seq(S) /\ Len(r) = Len(q) - 1
        /\ DOMAIN r = 1 .. Len(q) - 1
    BY <1>1
  <1>4. Range(r) = Range(q) \ {a}
    <2>1. ASSUME NEW b \in Range(r) PROVE b \in Range(q) \ {a}
      <3>1. PICK j \in 1 .. Len(q) - 1 : b = r[j] BY <1>3, <2>1 DEF Range
      <3>2. CASE j < i
        <4>1. j \in DOMAIN q /\ i \in DOMAIN q /\ b = q[j] /\ j # i
          BY <1>1, <3>1, <3>2
        <4> QED BY <1>1, <4>1 DEF NoDuplicates, Range
      <3>3. CASE ~(j < i)
        <4>1. j + 1 \in DOMAIN q /\ i \in DOMAIN q /\ b = q[j + 1] /\ j + 1 # i
          BY <1>1, <3>1, <3>3
        <4> QED BY <1>1, <4>1 DEF NoDuplicates, Range
      <3> QED BY <3>2, <3>3
    <2>2. ASSUME NEW b \in Range(q) \ {a} PROVE b \in Range(r)
      <3>1. PICK j \in 1 .. Len(q) : b = q[j] BY <2>2 DEF Range
      <3>2. j # i BY <1>1, <2>2, <3>1
      <3>3. CASE j < i
        <4>1. j \in 1 .. Len(q) - 1 /\ r[j] = b BY <1>1, <3>1, <3>3
        <4> QED BY <1>3, <4>1 DEF Range
      <3>4. CASE j > i
        <4>1. j - 1 \in 1 .. Len(q) - 1 /\ r[j - 1] = b BY <1>1, <3>1, <3>4
        <4> QED BY <1>3, <4>1 DEF Range
      <3> QED BY <1>1, <3>1, <3>2, <3>3, <3>4
    <2> QED BY <2>1, <2>2
  <1>5. NoDuplicates(r)
    <2> SUFFICES ASSUME NEW j \in 1 .. Len(q) - 1, NEW k \in 1 .. Len(q) - 1,
                        r[j] = r[k]
                 PROVE  j = k
      BY <1>3 DEF NoDuplicates
    <2> DEFINE f(n) == IF n < i THEN n ELSE n + 1
    <2>1. f(j) \in DOMAIN q /\ f(k) \in DOMAIN q BY <1>1
    <2>2. q[f(j)] = q[f(k)] BY <1>1
    <2>3. f(j) = f(k) BY <2>1, <2>2 DEF NoDuplicates
    <2> QED BY <1>1, <2>3
  <1> QED BY <1>2, <1>3, <1>4, <1>5 DEF a

LEMMA AppendedNode ==
  ASSUME NEW S, NEW q \in Seq(S), NoDuplicates(q), NEW a \in S, a \notin Range(q)
  PROVE  /\ Append(q, a) \in Seq(S)
         /\ NoDuplicates(Append(q, a))
         /\ Range(Append(q, a)) = Range(q) \cup {a}
         /\ Len(Append(q, a)) = Len(q) + 1
  <1> DEFINE r == Append(q, a)
  <1>1. /\ r \in Seq(S) /\ DOMAIN r = 1 .. Len(q) + 1
        /\ \A j \in 1 .. Len(q) : r[j] = q[j]
        /\ r[Len(q) + 1] = a
    OBVIOUS
  <1> HIDE DEF r
  <1>2. NoDuplicates(r) BY <1>1 DEF NoDuplicates, Range
  <1>3. Range(r) = Range(q) \cup {a}
    <2>1. DOMAIN r = DOMAIN q \cup {Len(q) + 1} BY <1>1
    <2> QED BY <1>1, <2>1 DEF Range
  <1> QED BY <1>1, <1>2, <1>3 DEF r

\* A set of natural numbers has a least one, and Min is in it.
LEMMA LeastIndex ==
  ASSUME NEW I, I \subseteq Nat, I # {}
  PROVE  Min(I) \in I /\ \A j \in I : Min(I) <= j
  <1> DEFINE R == OpToRel(<, Nat)
  <1>1. \A i, j \in I : <<j, i>> \in R <=> j < i BY DEF OpToRel
  <1>2. IsWellFoundedOn(R, Nat) BY NatLessThanWellFounded
  <1> HIDE DEF R
  <1>3. PICK i \in I : \A j \in I : ~(<<j, i>> \in R)
    BY <1>2, WFMin, Zenon
  <1>4. \A j \in I : ~(j < i) BY <1>1, <1>3, Zenon
  <1>5. \A j \in I : i <= j BY <1>4
  <1> QED BY <1>5 DEF Min

\* A set of numbers that holds 0 and what comes after each of its numbers.
LEMMA Induction ==
  ASSUME NEW N \in Nat, NEW S, 0 \in S,
         \A n \in 0 .. N - 1 : n \in S => n + 1 \in S
  PROVE  0 .. N \subseteq S
  <1> DEFINE T == {n \in 0 .. N : n \notin S}
  <1>1. T = {}
    <2> SUFFICES ASSUME T # {} PROVE FALSE
      OBVIOUS
    <2>1. T \in SUBSET Nat OBVIOUS
    <2>2. PICK m \in T : \A n \in T : m <= n BY <2>1, LeastIndex
    <2>3. m \in 1 .. N BY <2>2
    <2>4. m - 1 \in 0 .. N - 1 /\ m - 1 \notin T /\ (m - 1) + 1 = m
      BY <2>2, <2>3
    <2>5. m - 1 \in S BY <2>4
    <2>6. (m - 1) + 1 \in S BY <2>4, <2>5
    <2> QED BY <2>2, <2>4, <2>6
  <1> QED BY <1>1

=============================================================================
