----------------------------- MODULE Checksum_proof -----------------------------
(***************************************************************************)
(* The checksum for every segment, every pair of addresses and every size  *)
(* of a byte.                                                              *)
(*                                                                         *)
(* The argument: the four additions of uint32_t amount to one reduction of *)
(* the exact sum modulo Full; a fold keeps a sum modulo Word - 1, which is *)
(* what a sum in ones' complement is; and so does an exchange of the two   *)
(* bytes of every word, for Byte * Byte is Word.  What a lost carry or a   *)
(* byte in the wrong place adds is too small to be a multiple of Word - 1. *)
(***************************************************************************)
EXTENDS Checksum, QueueLemmas

-----------------------------------------------------------------------------
(* Division *)

LEMMA DivMod ==
  ASSUME NEW x \in Nat, NEW m \in Nat \ {0}
  PROVE  /\ x \div m \in Nat /\ x % m \in 0 .. m - 1 /\ x % m \in Nat
         /\ x = (x \div m) * m + (x % m)
  OBVIOUS

\* A multiple of m that is less than m apart from 0 is 0.
LEMMA SmallMultiple ==
  ASSUME NEW m \in Nat \ {0}, NEW k \in Int, k * m < m, -m < k * m
  PROVE  k = 0
  <1>1. CASE k >= 1
    <2>1. (k - 1) * m >= 0 BY <1>1
    <2>2. k * m = (k - 1) * m + m OBVIOUS
    <2> QED BY <2>1, <2>2
  <1>2. CASE k <= -1
    <2>1. (-1 - k) * m >= 0 BY <1>2
    <2>2. k * m = -((-1 - k) * m) - m OBVIOUS
    <2> QED BY <2>1, <2>2
  <1> QED BY <1>1, <1>2

LEMMA ModUnique ==
  ASSUME NEW m \in Nat \ {0}, NEW x \in Nat, NEW q \in Int,
         NEW r \in 0 .. m - 1, x = q * m + r
  PROVE  x % m = r
  <1> DEFINE p == x \div m
             s == x % m
  <1>1. p \in Int /\ s \in 0 .. m - 1 /\ x = p * m + s BY DivMod
  <1> HIDE DEF p, s
  <1>2. (p - q) * m = r - s BY <1>1
  <1>3. (p - q) * m < m /\ -m < (p - q) * m BY <1>1, <1>2
  <1>4. p - q = 0 BY <1>1, <1>3, SmallMultiple
  <1>5. s = r BY <1>1, <1>4
  <1> QED BY <1>5 DEF s

LEMMA ModPlus ==
  ASSUME NEW m \in Nat \ {0}, NEW x \in Nat, NEW y \in Nat
  PROVE  ((x % m) + y) % m = (x + y) % m
  <1> DEFINE p == x \div m
             s == x % m
             u == (s + y) \div m
             v == (s + y) % m
  <1>1. p \in Nat /\ s \in Nat /\ x = p * m + s BY DivMod
  <1> HIDE DEF p, s
  <1>2. u \in Nat /\ v \in 0 .. m - 1 /\ s + y = u * m + v
    <2>1. s + y \in Nat BY <1>1
    <2> QED BY <2>1, DivMod
  <1> HIDE DEF u, v
  <1>3. x + y = (p + u) * m + v BY <1>1, <1>2
  <1>4. x + y \in Nat /\ p + u \in Int BY <1>1, <1>2
  <1>5. (x + y) % m = v BY <1>2, <1>3, <1>4, ModUnique
  <1> QED BY <1>5 DEF s, v

\* x and y are the same modulo m.
Congruent(x, y, m) == \E k \in Int : x - y = k * m

LEMMA CongruentTransitive ==
  ASSUME NEW x \in Int, NEW y \in Int, NEW z \in Int, NEW m \in Int,
         Congruent(x, y, m), Congruent(y, z, m)
  PROVE  Congruent(x, z, m)
  <1>1. PICK k \in Int : x - y = k * m BY DEF Congruent
  <1>2. PICK l \in Int : y - z = l * m BY DEF Congruent
  <1>3. k + l \in Int /\ x - z = (k + l) * m BY <1>1, <1>2
  <1> QED BY <1>3 DEF Congruent

LEMMA CongruentSymmetric ==
  ASSUME NEW x \in Int, NEW y \in Int, NEW m \in Int, Congruent(x, y, m)
  PROVE  Congruent(y, x, m)
  <1>1. PICK k \in Int : x - y = k * m BY DEF Congruent
  <1>2. y - x = (-k) * m BY <1>1
  <1> QED BY <1>2 DEF Congruent

LEMMA CongruentPlus ==
  ASSUME NEW x \in Int, NEW y \in Int, NEW u \in Int, NEW v \in Int,
         NEW m \in Int, Congruent(x, y, m), Congruent(u, v, m)
  PROVE  Congruent(x + u, y + v, m)
  <1>1. PICK k \in Int : x - y = k * m BY DEF Congruent
  <1>2. PICK l \in Int : u - v = l * m BY DEF Congruent
  <1>3. k + l \in Int /\ (x + u) - (y + v) = (k + l) * m
    BY <1>1, <1>2
  <1> QED BY <1>3 DEF Congruent

LEMMA CongruentTimes ==
  ASSUME NEW x \in Int, NEW y \in Int, NEW b \in Int, NEW m \in Int,
         Congruent(x, y, m)
  PROVE  Congruent(b * x, b * y, m)
  <1>1. PICK k \in Int : x - y = k * m BY DEF Congruent
  <1>2. b * x - b * y = (b * k) * m
    <2>1. b * (x - y) = b * (k * m) BY <1>1
    <2> QED BY <2>1
  <1> QED BY <1>2 DEF Congruent

-----------------------------------------------------------------------------
(* Ones' complement: sums modulo Word - 1 *)

LEMMA Sizes ==
  /\ Byte \in Nat /\ Byte > 2
  /\ Word \in Nat /\ Word = Byte * Byte /\ Word >= 9 /\ Word >= 3 * Byte
  /\ Full \in Nat /\ Full = Word * Word /\ Full >= 9 * Word
  <1>1. Byte \in Nat /\ Byte >= 3 BY ByteAssumption DEF ByteAssumption
  <1>2. Byte * Byte >= 3 * Byte
    <2>1. (Byte - 3) * Byte >= 0 BY <1>1
    <2> QED BY <1>1, <2>1
  <1>3. Word \in Nat /\ Word = Byte * Byte /\ Word >= 9
    BY <1>1, <1>2 DEF Word
  <1>4. Word * Word >= 9 * Word
    <2>1. (Word - 9) * Word >= 0 BY <1>3
    <2> QED BY <1>3, <2>1
  <1> QED BY <1>1, <1>2, <1>3, <1>4 DEF Full

\* The sums that ones' complement does not distinguish.
Same1s(x, y) == (x = 0 <=> y = 0) /\ Congruent(x, y, Word - 1)

LEMMA Same1sTransitive ==
  ASSUME NEW x \in Nat, NEW y \in Nat, NEW z \in Nat, Same1s(x, y), Same1s(y, z)
  PROVE  Same1s(x, z)
  <1>1. Word - 1 \in Int BY Sizes
  <1> QED BY <1>1, CongruentTransitive DEF Same1s

LEMMA Same1sSymmetric ==
  ASSUME NEW x \in Nat, NEW y \in Nat, Same1s(x, y)
  PROVE  Same1s(y, x)
  <1>1. Word - 1 \in Int BY Sizes
  <1> QED BY <1>1, CongruentSymmetric DEF Same1s

LEMMA Same1sPlus ==
  ASSUME NEW x \in Nat, NEW y \in Nat, NEW u \in Nat, NEW v \in Nat,
         Same1s(x, y), Same1s(u, v)
  PROVE  Same1s(x + u, y + v)
  <1>1. Word - 1 \in Int BY Sizes
  <1>2. Congruent(x, y, Word - 1) /\ Congruent(u, v, Word - 1) BY DEF Same1s
  <1>3. Congruent(x + u, y + v, Word - 1) BY <1>1, <1>2, CongruentPlus
  <1>4. (x = 0 <=> y = 0) /\ (u = 0 <=> v = 0) BY DEF Same1s
  <1>5. x + u = 0 <=> y + v = 0 BY <1>4
  <1> QED BY <1>3, <1>5 DEF Same1s

LEMMA Same1sTimes ==
  ASSUME NEW x \in Nat, NEW y \in Nat, NEW b \in Nat \ {0}, Same1s(x, y)
  PROVE  Same1s(b * x, b * y)
  <1>1. Word - 1 \in Int BY Sizes
  <1>2. Congruent(b * x, b * y, Word - 1) BY <1>1, CongruentTimes DEF Same1s
  <1>3. \A z \in Nat : b * z = 0 <=> z = 0
    <2> TAKE z \in Nat
    <2>1. CASE z = 0 BY <2>1
    <2>2. CASE z # 0
      <3>1. b * z = (b - 1) * z + z /\ (b - 1) * z >= 0 OBVIOUS
      <3> QED BY <2>2, <3>1
    <2> QED BY <2>1, <2>2
  <1>4. b * x = 0 <=> b * y = 0 BY <1>3 DEF Same1s
  <1> QED BY <1>2, <1>4 DEF Same1s

LEMMA Same1sReflexive ==
  ASSUME NEW x \in Nat
  PROVE  Same1s(x, x)
  <1>1. x - x = 0 * (Word - 1) BY Sizes
  <1> QED BY <1>1 DEF Same1s, Congruent

\* Below Word a sum is its own ones' complement sum.
LEMMA Same1sSmall ==
  ASSUME NEW x \in 0 .. Word - 1, NEW y \in 0 .. Word - 1, Same1s(x, y)
  PROVE  x = y
  <1>1. Word - 1 \in Nat \ {0} /\ x \in Nat /\ y \in Nat BY Sizes
  <1> DEFINE m == Word - 1
  <1>2. PICK k \in Int : x - y = k * m BY DEF Same1s, Congruent
  <1> HIDE DEF m
  <1>3. CASE x = 0 BY <1>3 DEF Same1s
  <1>4. CASE x # 0
    <2>1. x \in 1 .. m /\ y \in 1 .. m BY <1>1, <1>4 DEF Same1s, m
    <2>2. m \in Nat \ {0} BY <1>1 DEF m
    <2>3. k * m < m /\ -m < k * m BY <1>2, <2>1, <2>2
    <2>4. k = 0 BY <2>2, <2>3, SmallMultiple
    <2> QED BY <1>1, <1>2, <2>2, <2>4
  <1> QED BY <1>3, <1>4

LEMMA OnesComplementIs ==
  ASSUME NEW x \in Nat
  PROVE  /\ OnesComplement(x) \in 0 .. Word - 1
         /\ Same1s(OnesComplement(x), x)
  <1> DEFINE m == Word - 1
             q == (x - 1) \div m
             r == (x - 1) % m
  <1>1. m \in Nat \ {0} BY Sizes
  <1>2. CASE x = 0
    <2>1. 0 - 0 = 0 * m BY <1>1
    <2>2. OnesComplement(x) = 0 BY <1>2 DEF OnesComplement
    <2> QED BY <1>1, <1>2, <2>1, <2>2 DEF Same1s, Congruent
  <1>3. CASE x # 0
    <2>1. x - 1 \in Nat BY <1>3
    <2>2. OnesComplement(x) = r + 1 BY <1>3 DEF OnesComplement
    <2> HIDE DEF m
    <2>3. q \in Nat /\ r \in 0 .. m - 1 /\ r \in Nat /\ x - 1 = q * m + r
      BY <1>1, <2>1, DivMod
    <2> HIDE DEF q, r
    <2>4. (r + 1) - x = (-q) * m /\ -q \in Int BY <1>1, <2>3
    <2>5. r + 1 \in 1 .. m BY <1>1, <2>3
    <2>6. Congruent(r + 1, x, m) BY <2>4 DEF Congruent
    <2> QED BY <1>1, <1>3, <2>2, <2>5, <2>6 DEF Same1s, m
  <1> QED BY <1>2, <1>3

\* A sum below Word is what ones' complement makes of all that are the same.
LEMMA OnesComplementOf ==
  ASSUME NEW x \in Nat, NEW y \in 0 .. Word - 1
  PROVE  OnesComplement(x) = y <=> Same1s(x, y)
  <1>1. /\ OnesComplement(x) \in 0 .. Word - 1
        /\ Same1s(OnesComplement(x), x)
    BY OnesComplementIs
  <1>2. OnesComplement(x) \in Nat /\ y \in Nat BY <1>1, Sizes
  <1>3. ASSUME OnesComplement(x) = y PROVE Same1s(x, y)
    BY <1>1, <1>2, <1>3, Same1sSymmetric
  <1>4. ASSUME Same1s(x, y) PROVE OnesComplement(x) = y
    <2>1. Same1s(OnesComplement(x), y)
      BY <1>1, <1>2, <1>4, Same1sTransitive
    <2> QED BY <1>1, <2>1, Same1sSmall
  <1> QED BY <1>3, <1>4

\* A fold keeps the sum, and makes it smaller until it fits.
LEMMA FoldedSame ==
  ASSUME NEW s \in 0 .. Full - 1
  PROVE  Folded(s) \in 0 .. Full - 1 /\ Same1s(Folded(s), s)
  <1> DEFINE q == s \div Word
             r == s % Word
  <1>1. Word \in Nat \ {0} /\ Word >= 9 /\ Full = Word * Word /\ s \in Nat
    BY Sizes
  <1>2. q \in Nat /\ r \in 0 .. Word - 1 /\ r \in Nat /\ s = q * Word + r
    BY <1>1, DivMod
  <1>3. Folded(s) = r + q BY DEF Folded
  <1> HIDE DEF q, r
  <1>4. s - (r + q) = q * (Word - 1) BY <1>1, <1>2
  <1>5. q * (Word - 1) >= 0 BY <1>1, <1>2
  <1>6. r + q \in 0 .. Full - 1 BY <1>1, <1>2, <1>4, <1>5, Sizes
  <1>7. r + q = 0 <=> s = 0
    <2>1. s = 0 => r + q = 0 BY <1>2, <1>4, <1>5
    <2>2. r + q = 0 => s = 0
      <3> SUFFICES ASSUME r + q = 0 PROVE s = 0
        OBVIOUS
      <3>1. r = 0 /\ q = 0 BY <1>2
      <3> QED BY <1>1, <1>2, <3>1
    <2> QED BY <2>1, <2>2
  <1>8. (r + q) - s = (-q) * (Word - 1) /\ -q \in Int BY <1>1, <1>2, <1>4
  <1>9. Congruent(r + q, s, Word - 1) BY <1>8 DEF Congruent
  <1> QED BY <1>3, <1>6, <1>7, <1>9 DEF Same1s

-----------------------------------------------------------------------------
(* Sums of words *)

\* The definition of a recursive function is a choice: there is one to choose.
LEMMA SumsExist ==
  ASSUME NEW N \in Nat, NEW word
  PROVE  \E f : f = [n \in 0 .. N |-> IF n = 0 THEN 0 ELSE f[n - 1] + word[n]]
  <1> DEFINE Is(f, m) ==
               f = [n \in 0 .. m |-> IF n = 0 THEN 0 ELSE f[n - 1] + word[n]]
             S == {m \in Nat : \E f : Is(f, m)}
  <1>1. 0 \in S
    <2>1. Is([n \in 0 .. 0 |-> 0], 0) OBVIOUS
    <2> QED BY <2>1
  <1>2. ASSUME NEW m \in 0 .. N - 1, m \in S PROVE m + 1 \in S
    <2>1. PICK f : Is(f, m) BY <1>2
    <2>2. Is([n \in 0 .. m + 1 |->
               IF n = m + 1 THEN f[m] + word[n] ELSE f[n]], m + 1)
      BY <2>1
    <2>3. m + 1 \in Nat OBVIOUS
    <2> QED BY <2>2, <2>3
  <1> HIDE DEF S
  <1>3. 0 .. N \subseteq S BY <1>1, <1>2, Induction
  <1>4. N \in S BY <1>3
  <1> QED BY <1>4 DEF S

LEMMA SumsAre ==
  ASSUME NEW word, Len(data) \in Nat
  PROVE  Sums(word) = [n \in 0 .. Len(data) \div 2 |->
                         IF n = 0 THEN 0 ELSE Sums(word)[n - 1] + word[n]]
  <1>1. Len(data) \div 2 \in Nat OBVIOUS
  <1> QED BY <1>1, SumsExist DEF Sums

\* The sums of words that are all below a bound.
LEMMA SumsBounded ==
  ASSUME NEW word, Len(data) \in Nat, NEW M \in Nat,
         \A n \in 1 .. Len(data) \div 2 : word[n] \in 0 .. M
  PROVE  \A n \in 0 .. Len(data) \div 2 :
           Sums(word)[n] \in Nat /\ Sums(word)[n] <= n * M
  <1> DEFINE N == Len(data) \div 2
             s == Sums(word)
             S == {n \in 0 .. N : s[n] \in Nat /\ s[n] <= n * M}
  <1>1. N \in Nat OBVIOUS
  <1>2. s = [n \in 0 .. N |-> IF n = 0 THEN 0 ELSE s[n - 1] + word[n]]
    BY SumsAre
  <1>3. \A n \in 1 .. N : word[n] \in 0 .. M OBVIOUS
  <1> HIDE DEF N, s
  <1>4. 0 \in S BY <1>1, <1>2
  <1>5. ASSUME NEW n \in 0 .. N - 1, n \in S PROVE n + 1 \in S
    <2>1. n + 1 \in 1 .. N /\ (n + 1) - 1 = n BY <1>1
    <2>2. s[n + 1] = s[n] + word[n + 1] BY <1>1, <1>2, <2>1
    <2>3. s[n] \in Nat /\ s[n] <= n * M BY <1>5
    <2>4. word[n + 1] \in 0 .. M BY <1>3, <2>1
    <2>5. (n + 1) * M = n * M + M BY <1>1
    <2>6. n * M \in Nat BY <1>1
    <2>7. s[n + 1] \in Nat /\ s[n + 1] <= (n + 1) * M
      BY <2>2, <2>3, <2>4, <2>5, <2>6
    <2> QED BY <1>1, <2>1, <2>7
  <1> HIDE DEF S
  <1>6. 0 .. N \subseteq S BY <1>1, <1>4, <1>5, Induction
  <1> QED BY <1>6 DEF S, N, s

\* Sums of words that are the same, but for a factor, are the same.
LEMMA SumsSame ==
  ASSUME NEW word, NEW other, Len(data) \in Nat, NEW b \in Nat \ {0},
         \A n \in 1 .. Len(data) \div 2 :
           /\ word[n] \in 0 .. Word - 1 /\ other[n] \in 0 .. Word - 1
           /\ Same1s(word[n], b * other[n])
  PROVE  Same1s(SumOfWords(word), b * SumOfWords(other))
  <1> DEFINE N == Len(data) \div 2
             s == Sums(word)
             t == Sums(other)
             S == {n \in 0 .. N : Same1s(s[n], b * t[n])}
  <1>1. N \in Nat OBVIOUS
  <1>2. /\ s = [n \in 0 .. N |-> IF n = 0 THEN 0 ELSE s[n - 1] + word[n]]
        /\ t = [n \in 0 .. N |-> IF n = 0 THEN 0 ELSE t[n - 1] + other[n]]
    BY SumsAre
  <1>3. \A n \in 0 .. N : s[n] \in Nat /\ t[n] \in Nat
    <2>1. Word - 1 \in Nat BY Sizes
    <2>2. \A n \in 0 .. N : s[n] \in Nat BY <2>1, SumsBounded
    <2>3. \A n \in 0 .. N : t[n] \in Nat BY <2>1, SumsBounded
    <2> QED BY <2>2, <2>3
  <1>4. \A n \in 1 .. N :
           /\ word[n] \in Nat /\ other[n] \in Nat
           /\ Same1s(word[n], b * other[n])
    BY Sizes
  <1> HIDE DEF N, s, t
  <1>5. 0 \in S
    <2>1. s[0] = 0 /\ b * t[0] = 0 BY <1>1, <1>2
    <2>2. Same1s(0, 0) BY Same1sReflexive
    <2> QED BY <1>1, <2>1, <2>2
  <1>6. ASSUME NEW n \in 0 .. N - 1, n \in S PROVE n + 1 \in S
    <2>1. n + 1 \in 1 .. N /\ (n + 1) - 1 = n /\ n \in 0 .. N BY <1>1
    <2>2. s[n + 1] = s[n] + word[n + 1] /\ t[n + 1] = t[n] + other[n + 1]
      BY <1>1, <1>2, <2>1
    <2>3. /\ s[n] \in Nat /\ t[n] \in Nat
          /\ word[n + 1] \in Nat /\ other[n + 1] \in Nat
      BY <1>3, <1>4, <2>1
    <2>4. b * t[n] \in Nat /\ b * other[n + 1] \in Nat BY <2>3
    <2>5. Same1s(s[n], b * t[n]) BY <1>6
    <2>6. Same1s(word[n + 1], b * other[n + 1]) BY <1>4, <2>1
    <2>7. Same1s(s[n] + word[n + 1], b * t[n] + b * other[n + 1])
      BY <2>3, <2>4, <2>5, <2>6, Same1sPlus
    <2>8. b * t[n] + b * other[n + 1] = b * t[n + 1] BY <2>2, <2>3
    <2>9. Same1s(s[n + 1], b * t[n + 1]) BY <2>2, <2>7, <2>8
    <2> QED BY <1>1, <2>1, <2>9
  <1> HIDE DEF S
  <1>7. 0 .. N \subseteq S BY <1>1, <1>5, <1>6, Induction
  <1>8. N \in 0 .. N BY <1>1
  <1> QED BY <1>7, <1>8 DEF S, N, s, t, SumOfWords

-----------------------------------------------------------------------------
(* The two byte orders *)

Bytes == 0 .. Byte - 1

\* What a host takes two bytes for is what they are on the network, times
\* Scale.
Scale == IF order = "big" THEN 1 ELSE Byte

LEMMA ScaleIs == Scale \in Nat \ {0}
  BY Sizes DEF Scale

LEMMA Net16Is ==
  ASSUME NEW a \in Bytes, NEW b \in Bytes
  PROVE  Net16(a, b) \in 0 .. Word - 1
  <1>1. a * Byte + b \in Nat /\ a * Byte <= (Byte - 1) * Byte
    <2>1. (Byte - 1 - a) * Byte >= 0 BY Sizes DEF Bytes
    <2>2. a * Byte \in Nat BY Sizes DEF Bytes
    <2> QED BY <2>1, <2>2, Sizes DEF Bytes
  <1>2. (Byte - 1) * Byte + (Byte - 1) = Word - 1 BY Sizes
  <1> QED BY <1>1, <1>2, Sizes DEF Net16, Bytes

LEMMA Load16Is ==
  ASSUME NEW a \in Bytes, NEW b \in Bytes
  PROVE  /\ Load16(a, b) \in 0 .. Word - 1
         /\ Same1s(Load16(a, b), Scale * Net16(a, b))
  <1>1. Net16(a, b) \in 0 .. Word - 1 /\ Net16(b, a) \in 0 .. Word - 1
    BY Net16Is
  <1>2. Net16(a, b) \in Nat BY <1>1, Sizes
  <1>3. CASE order = "big"
    <2>1. Load16(a, b) = Net16(a, b) /\ Scale = 1
      BY <1>3 DEF Load16, Net16, Scale
    <2>2. Scale * Net16(a, b) = Net16(a, b) BY <1>2, <2>1
    <2> QED BY <1>1, <1>2, <2>1, <2>2, Same1sReflexive
  <1>4. CASE order # "big"
    <2>1. Load16(a, b) = Net16(b, a) /\ Scale = Byte
      BY <1>4 DEF Load16, Net16, Scale
    <2>2. a \in Nat /\ b \in Nat /\ Byte \in Nat /\ Byte > 2 /\ Word = Byte * Byte
      BY Sizes DEF Bytes
    <2>3. (b * Byte + a) - Byte * (a * Byte + b) = (-a) * (Word - 1)
      BY <2>2
    <2>4. Congruent(b * Byte + a, Byte * (a * Byte + b), Word - 1)
      BY <2>2, <2>3 DEF Congruent
    <2>5. ASSUME NEW c \in Nat, NEW d \in Nat PROVE c * Byte + d = 0 <=> c = 0 /\ d = 0
      <3>1. c * Byte = c + c * (Byte - 1) /\ c * (Byte - 1) >= 0 BY <2>2
      <3> QED BY <2>2, <3>1
    <2>6. b * Byte + a = 0 <=> a * Byte + b = 0 BY <2>2, <2>5
    <2>7. Byte * (a * Byte + b) = 0 <=> a * Byte + b = 0
      <3> DEFINE n == a * Byte + b
      <3>1. n \in Nat BY <2>2
      <3> HIDE DEF n
      <3>2. n * Byte + 0 = 0 <=> n = 0 BY <2>5, <3>1
      <3>3. Byte * n = n * Byte + 0 BY <2>2, <3>1
      <3>4. Byte * n = 0 <=> n = 0 BY <3>2, <3>3
      <3> QED BY <3>4 DEF n
    <2>8. Same1s(b * Byte + a, Byte * (a * Byte + b)) BY <2>4, <2>6, <2>7 DEF Same1s
    <2> QED BY <1>1, <2>1, <2>8 DEF Net16
  <1> QED BY <1>3, <1>4

\* The two halves of a word.
LEMMA HalvesOf ==
  ASSUME NEW n \in 0 .. Word - 1
  PROVE  /\ n \div Byte \in Bytes /\ n % Byte \in Bytes
         /\ Net16(n \div Byte, n % Byte) = n
  <1> DEFINE q == n \div Byte
             r == n % Byte
  <1>1. Byte \in Nat \ {0} /\ Byte > 2 /\ Word = Byte * Byte /\ n \in Nat /\ n < Word
    BY Sizes
  <1>2. q \in Nat /\ r \in 0 .. Byte - 1 /\ r \in Nat /\ n = q * Byte + r
    BY <1>1, DivMod
  <1> HIDE DEF q, r
  <1>3. q < Byte
    <2> SUFFICES ASSUME q >= Byte PROVE FALSE
      BY <1>1, <1>2
    <2>1. (q - Byte) * Byte >= 0 BY <1>1, <1>2
    <2>2. q * Byte = (q - Byte) * Byte + Word BY <1>1, <1>2
    <2> QED BY <1>1, <1>2, <2>1, <2>2
  <1>4. q \in Bytes /\ r \in Bytes BY <1>1, <1>2, <1>3 DEF Bytes
  <1>5. Net16(q, r) = n BY <1>2 DEF Net16
  <1> QED BY <1>4, <1>5 DEF q, r

LEMMA HtonsIs ==
  ASSUME NEW n \in 0 .. Word - 1
  PROVE  /\ Htons(n) \in 0 .. Word - 1
         /\ Same1s(Htons(n), Scale * n)
  BY HalvesOf, Load16Is DEF Htons

\* An exchange of bytes and a complement can be done in either order.
LEMMA HtonsComplement ==
  ASSUME NEW n \in 0 .. Word - 1
  PROVE  Htons(Word - 1 - n) = Word - 1 - Htons(n)
  <1> DEFINE q == n \div Byte
             r == n % Byte
             p == Byte - 1 - q
             s == Byte - 1 - r
             c == Word - 1 - n
  <1>1. q \in Bytes /\ r \in Bytes /\ Net16(q, r) = n BY HalvesOf
  <1>2. Byte \in Nat \ {0} /\ Word = Byte * Byte BY Sizes
  <1>3. Htons(n) = Load16(q, r) BY DEF Htons
  <1> HIDE DEF q, r
  <1>4. c \in Nat /\ p \in Nat /\ s \in 0 .. Byte - 1 /\ c = p * Byte + s
    <2>1. n = q * Byte + r BY <1>1 DEF Net16
    <2> QED BY <1>1, <1>2, <2>1, Sizes DEF Bytes
  <1> HIDE DEF c, p, s
  <1>5. c % Byte = s BY <1>2, <1>4, ModUnique
  <1>6. c \div Byte = p
    <2> DEFINE u == c \div Byte
    <2>1. u \in Nat /\ c = u * Byte + s BY <1>2, <1>4, <1>5, DivMod
    <2> HIDE DEF u
    <2>2. (u - p) * Byte = 0 BY <1>2, <1>4, <2>1
    <2>3. u - p = 0 BY <1>2, <1>4, <2>1, <2>2, SmallMultiple
    <2> QED BY <1>4, <2>1, <2>3 DEF u
  <1>7. Load16(p, s) = Word - 1 - Load16(q, r)
    <2>1. q \in Nat /\ r \in Nat BY <1>1, <1>2 DEF Bytes
    <2>2. p * Byte + s = Word - 1 - (q * Byte + r) BY <1>2, <2>1 DEF p, s
    <2>3. s * Byte + p = Word - 1 - (r * Byte + q) BY <1>2, <2>1 DEF p, s
    <2> QED BY <2>2, <2>3 DEF Load16
  <1>8. Htons(c) = Load16(p, s) BY <1>5, <1>6 DEF Htons
  <1> QED BY <1>3, <1>7, <1>8 DEF c

-----------------------------------------------------------------------------
(* The segment and the pseudo header on the host and on the network *)

LEMMA AddressIs ==
  ASSUME NEW m \in [1 .. 4 -> Bytes]
  PROVE  /\ Load32(m) \in 0 .. Full - 1 /\ NetAddress(m) \in Nat
         /\ Same1s(Load32(m), Scale * NetAddress(m))
  <1> DEFINE hi == IF order = "big" THEN Load16(m[1], m[2]) ELSE Load16(m[3], m[4])
             lo == IF order = "big" THEN Load16(m[3], m[4]) ELSE Load16(m[1], m[2])
             nhi == IF order = "big" THEN Net16(m[1], m[2]) ELSE Net16(m[3], m[4])
             nlo == IF order = "big" THEN Net16(m[3], m[4]) ELSE Net16(m[1], m[2])
  <1>1. m[1] \in Bytes /\ m[2] \in Bytes /\ m[3] \in Bytes /\ m[4] \in Bytes
    OBVIOUS
  <1>2. /\ hi \in 0 .. Word - 1 /\ lo \in 0 .. Word - 1
        /\ nhi \in 0 .. Word - 1 /\ nlo \in 0 .. Word - 1
    BY <1>1, Load16Is, Net16Is
  <1>3. Same1s(hi, Scale * nhi) /\ Same1s(lo, Scale * nlo) BY <1>1, Load16Is
  <1>4. Load32(m) = hi * Word + lo BY DEF Load32
  <1>5. NetAddress(m) = nhi + nlo
    <2>1. /\ Net16(m[1], m[2]) \in 0 .. Word - 1
          /\ Net16(m[3], m[4]) \in 0 .. Word - 1
      BY <1>1, Net16Is
    <2>2. Word \in Nat BY Sizes
    <2> QED BY <2>1, <2>2 DEF NetAddress
  <1> HIDE DEF hi, lo, nhi, nlo
  <1>6. /\ Word \in Nat /\ Word >= 9 /\ Full = Word * Word /\ Scale \in Nat \ {0}
        /\ hi \in Nat /\ lo \in Nat /\ nhi \in Nat /\ nlo \in Nat
    BY <1>2, Sizes, ScaleIs
  <1>7. hi * Word + lo \in 0 .. Full - 1
    <2>1. (Word - 1 - hi) * Word >= 0 BY <1>2, <1>6
    <2>2. hi * Word >= 0 BY <1>6
    <2> QED BY <1>2, <1>6, <2>1, <2>2
  <1>8. Same1s(hi * Word + lo, hi + lo)
    <2>1. (hi * Word + lo) - (hi + lo) = hi * (Word - 1) BY <1>6
    <2>2. hi * (Word - 1) >= 0 BY <1>6
    <2>3. hi * Word + lo = 0 <=> hi + lo = 0
      <3>1. hi * Word + lo = 0 => hi + lo = 0 BY <1>6, <2>1, <2>2
      <3>2. hi + lo = 0 => hi = 0 /\ lo = 0 BY <1>6
      <3>3. hi = 0 /\ lo = 0 => hi * Word + lo = 0 BY <1>6
      <3> QED BY <3>1, <3>2, <3>3
    <2>4. Congruent(hi * Word + lo, hi + lo, Word - 1)
      BY <1>6, <2>1 DEF Congruent
    <2> QED BY <2>3, <2>4 DEF Same1s
  <1>9. Scale * nhi \in Nat /\ Scale * nlo \in Nat BY <1>6
  <1>10. Same1s(hi + lo, Scale * nhi + Scale * nlo)
    BY <1>3, <1>6, <1>9, Same1sPlus
  <1>11. Scale * nhi + Scale * nlo = Scale * (nhi + nlo) BY <1>6
  <1>12. Same1s(hi * Word + lo, Scale * nhi + Scale * nlo)
    <2>1. /\ hi * Word + lo \in Nat /\ hi + lo \in Nat
          /\ Scale * nhi + Scale * nlo \in Nat
      BY <1>6, <1>9
    <2> QED BY <1>8, <1>10, <2>1, Same1sTransitive
  <1>13. nhi + nlo \in Nat BY <1>6
  <1> QED BY <1>4, <1>5, <1>7, <1>11, <1>12, <1>13

LEMMA LengthIs ==
  ASSUME TypeOK
  PROVE  /\ Len(data) \in Nat /\ Len(data) \in 0 .. Word - 1
         /\ Len(data) \div 2 \in Nat /\ 2 * (Len(data) \div 2) <= Len(data)
         /\ Odd => 2 * (Len(data) \div 2) + 1 = Len(data)
         /\ ~Odd => 2 * (Len(data) \div 2) = Len(data)
         /\ \A n \in 1 .. Len(data) : data[n] \in Bytes
  <1>1. data \in Seq(Bytes) /\ Len(data) \in 0 .. Word - 1
    BY LengthAssumption DEF TypeOK, Bytes, LengthAssumption
  <1>2. Len(data) \in Nat BY <1>1
  <1>3. \A n \in 1 .. Len(data) : data[n] \in Bytes BY <1>1
  <1>4. /\ Len(data) \div 2 \in Nat /\ Len(data) % 2 \in 0 .. 1
        /\ Len(data) = (Len(data) \div 2) * 2 + (Len(data) % 2)
    <2> DEFINE n == Len(data)
    <2>1. n \in Nat BY <1>2
    <2> HIDE DEF n
    <2>2. /\ n \div 2 \in Nat /\ n % 2 \in 0 .. 1
          /\ n = (n \div 2) * 2 + (n % 2)
      BY <2>1
    <2> QED BY <2>2 DEF n
  <1>5. Odd <=> Len(data) % 2 = 1 BY DEF Odd
  <1> DEFINE l == Len(data)
             q == Len(data) \div 2
             r == Len(data) % 2
  <1>6. /\ l \in Nat /\ q \in Nat /\ r \in 0 .. 1 /\ l = q * 2 + r /\ (Odd <=> r = 1)
    BY <1>2, <1>4, <1>5
  <1> HIDE DEF l, q, r
  <1>7. 2 * q <= l /\ (Odd => 2 * q + 1 = l) /\ (~Odd => 2 * q = l) BY <1>6
  <1> QED BY <1>1, <1>2, <1>3, <1>4, <1>7 DEF l, q

LEMMA WordsAre ==
  ASSUME TypeOK
  PROVE  \A n \in 1 .. Len(data) \div 2 :
           /\ HostWords[n] = Load16(data[2 * n - 1], data[2 * n])
           /\ HostWords[n] \in 0 .. Word - 1 /\ NetWords[n] \in 0 .. Word - 1
           /\ Same1s(HostWords[n], Scale * NetWords[n])
  <1> TAKE n \in 1 .. Len(data) \div 2
  <1>1. 2 * n - 1 \in 1 .. Len(data) /\ 2 * n \in 1 .. Len(data)
    <2> DEFINE l == Len(data)
               q == Len(data) \div 2
    <2>1. l \in Nat /\ q \in Nat /\ 2 * q <= l /\ n \in 1 .. q BY LengthIs
    <2> HIDE DEF l, q
    <2>2. 2 * n - 1 \in 1 .. l /\ 2 * n \in 1 .. l BY <2>1
    <2> QED BY <2>2 DEF l
  <1>2. data[2 * n - 1] \in Bytes /\ data[2 * n] \in Bytes BY <1>1, LengthIs
  <1>3. HostWords[n] = Load16(data[2 * n - 1], data[2 * n]) BY DEF HostWords
  <1>4. NetWords[n] = Net16(data[2 * n - 1], data[2 * n]) BY DEF NetWords
  <1> QED BY <1>2, <1>3, <1>4, Load16Is, Net16Is

\* The sum that starts from the host's words and has a last byte in its place.
ProperSum ==
  Load32(ends[1]) + Load32(ends[2]) + Htons(Protocol) + Htons(Len(data))
    + SumOfWords(HostWords) + (IF Odd THEN Load16(data[Len(data)], 0) ELSE 0)

LEMMA SumOfWordsIs ==
  ASSUME TypeOK
  PROVE  /\ SumOfWords(HostWords) \in Nat /\ SumOfWords(NetWords) \in Nat
         /\ 2 * SumOfWords(HostWords) <= Full
         /\ Same1s(SumOfWords(HostWords), Scale * SumOfWords(NetWords))
  <1> DEFINE q == Len(data) \div 2
             h == SumOfWords(HostWords)
             t == SumOfWords(NetWords)
  <1>1. Len(data) \in Nat /\ q \in Nat /\ 2 * q <= Word - 1
    <2> DEFINE l == Len(data)
    <2>1. l \in 0 .. Word - 1 /\ q \in Nat /\ 2 * q <= l BY LengthIs
    <2> HIDE DEF l, q
    <2>2. l \in Nat /\ 2 * q <= Word - 1 BY <2>1, Sizes
    <2> QED BY <2>1, <2>2 DEF l
  <1>2. Word - 1 \in Nat /\ q \in 0 .. q BY <1>1, Sizes
  <1>3. h \in Nat /\ h <= q * (Word - 1)
    BY <1>1, <1>2, WordsAre, SumsBounded DEF SumOfWords
  <1>4. t \in Nat
    BY <1>1, <1>2, WordsAre, SumsBounded DEF SumOfWords
  <1>5. Same1s(h, Scale * t) BY <1>1, WordsAre, ScaleIs, SumsSame
  <1> HIDE DEF q, h, t
  <1>6. 2 * h <= Full
    <2>1. (Word - 1 - 2 * q) * (Word - 1) >= 0 BY <1>1, <1>2
    <2>2. (Word - 1) * (Word - 1) <= Full BY Sizes
    <2>3. (2 * q) * (Word - 1) <= (Word - 1) * (Word - 1)
      BY <1>1, <1>2, <2>1
    <2>4. (2 * q) * (Word - 1) = 2 * (q * (Word - 1)) BY <1>1, <1>2
    <2>5. q * (Word - 1) \in Nat /\ (Word - 1) * (Word - 1) \in Nat
      BY <1>1, <1>2
    <2> QED BY <1>3, <2>2, <2>3, <2>4, <2>5, Sizes
  <1> QED BY <1>3, <1>4, <1>5, <1>6 DEF h, t

LEMMA PartsAre ==
  ASSUME TypeOK
  PROVE  /\ ends[1] \in [1 .. 4 -> Bytes] /\ ends[2] \in [1 .. 4 -> Bytes]
         /\ Protocol \in 0 .. Word - 1 /\ Len(data) \in 0 .. Word - 1
         /\ Odd => data[Len(data)] \in Bytes
  <1>1. ends[1] \in Addresses /\ ends[2] \in Addresses BY DEF TypeOK
  <1>2. Protocol \in 0 .. Word - 1
    BY ByteAssumption, Sizes DEF ByteAssumption
  <1>3. ASSUME Odd PROVE Len(data) \in 1 .. Len(data)
    <2> DEFINE l == Len(data)
               q == Len(data) \div 2
    <2>1. l \in Nat /\ q \in Nat /\ 2 * q + 1 = l BY <1>3, LengthIs
    <2> HIDE DEF l, q
    <2>2. l \in 1 .. l BY <2>1
    <2> QED BY <2>2 DEF l
  <1> QED BY <1>1, <1>2, <1>3, AddressAssumption, LengthIs
      DEF AddressAssumption, Bytes

\* What a last byte adds that is not where it should be.
Misplaced ==
  IF Odd THEN Load16(data[Len(data)], 0) - data[Len(data)] ELSE 0

\* A host that misplaces nothing: little-endian, or no byte is left, or a 0.
InPlace == order = "little" \/ ~Odd \/ data[Len(data)] = 0

LEMMA LastByteIs ==
  ASSUME TypeOK
  PROVE  /\ (IF Odd THEN data[Len(data)] ELSE 0) \in Bytes
         /\ (IF Odd THEN Load16(data[Len(data)], 0) ELSE 0) \in 0 .. Word - 1
         /\ (IF Odd THEN Net16(data[Len(data)], 0) ELSE 0) \in 0 .. Word - 1
         /\ Same1s(IF Odd THEN Load16(data[Len(data)], 0) ELSE 0,
                   Scale * (IF Odd THEN Net16(data[Len(data)], 0) ELSE 0))
         /\ (IF Odd THEN Load16(data[Len(data)], 0) ELSE 0)
              = (IF Odd THEN data[Len(data)] ELSE 0) + Misplaced
         /\ Misplaced \in Nat /\ Misplaced + 2 < Word - 1
         /\ Misplaced = 0 <=> InPlace
  <1>1. /\ Byte \in Nat /\ Byte > 2 /\ Word = Byte * Byte /\ Word >= 3 * Byte
        /\ Word \in Nat
    BY Sizes
  <1>2. CASE ~Odd
    <2>1. /\ (IF Odd THEN data[Len(data)] ELSE 0) = 0
          /\ (IF Odd THEN Load16(data[Len(data)], 0) ELSE 0) = 0
          /\ (IF Odd THEN Net16(data[Len(data)], 0) ELSE 0) = 0
          /\ Misplaced = 0 /\ InPlace
      BY <1>2 DEF Misplaced, InPlace
    <2>2. Scale * 0 = 0 BY ScaleIs
    <2>3. Same1s(0, 0) BY Same1sReflexive
    <2>4. 0 \in Bytes /\ 0 \in 0 .. Word - 1 /\ 0 \in Nat /\ 0 + 2 < Word - 1
      BY Sizes DEF Bytes
    <2>5. 0 = 0 + 0 OBVIOUS
    <2>6. Same1s(0, Scale * 0) BY <2>2, <2>3
    <2> QED BY <2>1, <2>4, <2>5, <2>6
  <1>3. CASE Odd
    <2> DEFINE b == data[Len(data)]
               x == Load16(b, 0)
               y == Net16(b, 0)
    <2>1. b \in Bytes BY <1>3, PartsAre
    <2>2. 0 \in Bytes BY <1>1 DEF Bytes
    <2>3. x \in 0 .. Word - 1 /\ y \in 0 .. Word - 1 /\ Same1s(x, Scale * y)
      BY <2>1, <2>2, Load16Is, Net16Is
    <2>4. /\ (IF Odd THEN data[Len(data)] ELSE 0) = b
          /\ (IF Odd THEN Load16(data[Len(data)], 0) ELSE 0) = x
          /\ (IF Odd THEN Net16(data[Len(data)], 0) ELSE 0) = y
          /\ Misplaced = x - b
          /\ InPlace <=> order = "little" \/ b = 0
      BY <1>3 DEF Misplaced, InPlace
    <2>5. order \in {"little", "big"}
      BY OrderAssumption DEF TypeOK, OrderAssumption
    <2>6. x = IF order = "big" THEN b * Byte + 0 ELSE 0 * Byte + b
      BY DEF Load16
    <2> HIDE DEF b, x, y
    <2>7. b \in Nat /\ b <= Byte - 1 BY <1>1, <2>1 DEF Bytes
    <2>8. CASE order = "little"
      <3>1. x = b BY <1>1, <2>6, <2>7, <2>8
      <3>2. x = b + (x - b) /\ x - b = 0 BY <2>7, <3>1
      <3> QED BY <1>1, <2>1, <2>3, <2>4, <2>8, <3>2
    <2>9. CASE order = "big"
      <3>1. x - b = b * (Byte - 1) BY <1>1, <2>6, <2>7, <2>9
      <3>2. b * (Byte - 1) <= (Byte - 1) * (Byte - 1)
        <4>1. (Byte - 1 - b) * (Byte - 1) >= 0 BY <1>1, <2>7
        <4> QED BY <1>1, <2>7, <4>1
      <3>3. (Byte - 1) * (Byte - 1) = Word - 2 * Byte + 1 BY <1>1
      <3>4. b * (Byte - 1) \in Nat BY <1>1, <2>7
      <3>5. x - b + 2 < Word - 1 BY <1>1, <3>1, <3>2, <3>3, <3>4
      <3>6. x - b = 0 <=> b = 0
        <4>1. b * (Byte - 1) = b + b * (Byte - 2) /\ b * (Byte - 2) >= 0
          BY <1>1, <2>7
        <4>2. b = 0 => b * (Byte - 1) = 0 BY <1>1
        <4> QED BY <1>1, <2>7, <3>1, <3>4, <4>1, <4>2
      <3>7. x = b + (x - b) BY <2>3, <2>7, <1>1
      <3>8. order # "little" BY <2>9
      <3> QED BY <2>1, <2>3, <2>4, <3>1, <3>4, <3>5, <3>6, <3>7, <3>8
    <2> QED BY <2>5, <2>8, <2>9
  <1> QED BY <1>2, <1>3

LEMMA SumsAgree ==
  ASSUME TypeOK
  PROVE  /\ ExactSum \in Nat /\ ExactSum < 3 * Full
         /\ ProperSum = ExactSum + Misplaced
         /\ WordSum \in Nat /\ Same1s(ProperSum, Scale * WordSum)
  <1> DEFINE l1 == Load32(ends[1])
             n1 == NetAddress(ends[1])
             l2 == Load32(ends[2])
             n2 == NetAddress(ends[2])
             l3 == Htons(Protocol)
             n3 == Protocol
             l4 == Htons(Len(data))
             n4 == Len(data)
             l5 == SumOfWords(HostWords)
             n5 == SumOfWords(NetWords)
             l6 == IF Odd THEN Load16(data[Len(data)], 0) ELSE 0
             n6 == IF Odd THEN Net16(data[Len(data)], 0) ELSE 0
             e6 == IF Odd THEN data[Len(data)] ELSE 0
  <1>1. /\ l1 \in 0 .. Full - 1 /\ n1 \in Nat /\ Same1s(l1, Scale * n1)
        /\ l2 \in 0 .. Full - 1 /\ n2 \in Nat /\ Same1s(l2, Scale * n2)
    BY PartsAre, AddressIs
  <1>2. n3 \in 0 .. Word - 1 /\ n4 \in 0 .. Word - 1 BY PartsAre
  <1>3. /\ l3 \in 0 .. Word - 1 /\ Same1s(l3, Scale * n3)
        /\ l4 \in 0 .. Word - 1 /\ Same1s(l4, Scale * n4)
    BY <1>2, HtonsIs
  <1>4. /\ l5 \in Nat /\ n5 \in Nat /\ 2 * l5 <= Full /\ Same1s(l5, Scale * n5)
    BY SumOfWordsIs
  <1>5. /\ e6 \in Bytes /\ l6 \in 0 .. Word - 1 /\ n6 \in 0 .. Word - 1
        /\ Same1s(l6, Scale * n6) /\ l6 = e6 + Misplaced /\ Misplaced \in Nat
    BY LastByteIs
  <1>6. /\ ExactSum = l1 + l2 + l3 + l4 + l5 + e6
        /\ ProperSum = l1 + l2 + l3 + l4 + l5 + l6
        /\ WordSum = n1 + n2 + n3 + n4 + n5 + n6
    BY DEF ExactSum, ProperSum, WordSum
  <1> HIDE DEF l1, l2, l3, l4, l5, l6, n1, n2, n3, n4, n5, n6, e6
  <1>7. /\ Byte \in Nat /\ Word \in Nat /\ Full \in Nat
        /\ Word >= 3 * Byte /\ Full >= 9 * Word /\ Word >= 9
        /\ Scale \in Nat \ {0}
    BY Sizes, ScaleIs
  <1>8. /\ l1 \in Nat /\ l2 \in Nat /\ l3 \in Nat /\ l4 \in Nat /\ l6 \in Nat
        /\ n3 \in Nat /\ n4 \in Nat /\ n6 \in Nat /\ e6 \in Nat /\ e6 < Byte
    BY <1>1, <1>2, <1>3, <1>5, <1>7 DEF Bytes
  <1>9. ExactSum \in Nat /\ ExactSum < 3 * Full
    BY <1>1, <1>3, <1>4, <1>6, <1>7, <1>8
  <1>10. ProperSum = ExactSum + Misplaced BY <1>4, <1>5, <1>6, <1>8
  <1>11. WordSum \in Nat BY <1>1, <1>4, <1>6, <1>8
  <1> DEFINE t1 == Scale * n1
             t2 == Scale * n2
             t3 == Scale * n3
             t4 == Scale * n4
             t5 == Scale * n5
             t6 == Scale * n6
  <1>12. /\ t1 \in Nat /\ t2 \in Nat /\ t3 \in Nat
         /\ t4 \in Nat /\ t5 \in Nat /\ t6 \in Nat
    BY <1>1, <1>4, <1>7, <1>8
  <1>13. Scale * (n1 + n2 + n3 + n4 + n5 + n6) = t1 + t2 + t3 + t4 + t5 + t6
    BY <1>1, <1>4, <1>7, <1>8
  <1>14. /\ Same1s(l1, t1) /\ Same1s(l2, t2) /\ Same1s(l3, t3)
         /\ Same1s(l4, t4) /\ Same1s(l5, t5) /\ Same1s(l6, t6)
    BY <1>1, <1>3, <1>4, <1>5
  <1> HIDE DEF t1, t2, t3, t4, t5, t6
  <1>15. Same1s(l1 + l2, t1 + t2) BY <1>8, <1>12, <1>14, Same1sPlus
  <1>16. Same1s(l1 + l2 + l3, t1 + t2 + t3)
    <2>1. l1 + l2 \in Nat /\ t1 + t2 \in Nat BY <1>8, <1>12
    <2> QED BY <1>8, <1>12, <1>14, <1>15, <2>1, Same1sPlus
  <1>17. Same1s(l1 + l2 + l3 + l4, t1 + t2 + t3 + t4)
    <2>1. l1 + l2 + l3 \in Nat /\ t1 + t2 + t3 \in Nat BY <1>8, <1>12
    <2> QED BY <1>8, <1>12, <1>14, <1>16, <2>1, Same1sPlus
  <1>18. Same1s(l1 + l2 + l3 + l4 + l5, t1 + t2 + t3 + t4 + t5)
    <2>1. l1 + l2 + l3 + l4 \in Nat /\ t1 + t2 + t3 + t4 \in Nat BY <1>8, <1>12
    <2> QED BY <1>4, <1>12, <1>14, <1>17, <2>1, Same1sPlus
  <1>19. Same1s(l1 + l2 + l3 + l4 + l5 + l6, t1 + t2 + t3 + t4 + t5 + t6)
    <2>1. l1 + l2 + l3 + l4 + l5 \in Nat /\ t1 + t2 + t3 + t4 + t5 \in Nat
      BY <1>4, <1>8, <1>12
    <2> QED BY <1>8, <1>12, <1>14, <1>18, <2>1, Same1sPlus
  <1> QED BY <1>6, <1>9, <1>10, <1>11, <1>13, <1>19

-----------------------------------------------------------------------------
(* The invariant: what the loops have summed *)

LEMMA ModSum ==
  ASSUME NEW m \in Nat \ {0}, NEW x \in Nat, NEW y \in Nat
  PROVE  ((x % m) + (y % m)) % m = (x + y) % m
  <1>1. y % m \in Nat BY DivMod
  <1>2. ((x % m) + (y % m)) % m = (x + (y % m)) % m BY <1>1, ModPlus
  <1>3. ((y % m) + x) % m = (y + x) % m BY ModPlus
  <1>4. x + (y % m) = (y % m) + x /\ x + y = y + x BY <1>1
  <1> QED BY <1>2, <1>3, <1>4

\* The words and a last byte, as sum_every_16_bits adds them.
SegmentSum == SumOfWords(HostWords) + (IF Odd THEN data[Len(data)] ELSE 0)

\* While sum_every_16_bits runs its sum is that of the words it has passed,
\* and at last of the last byte too; the sum of the pseudo header waits.
Summing ==
  pc = "sum" =>
    /\ ans = StartSum
    /\ \/ \E j \in 0 .. Len(data) \div 2 :
            temp = 2 * j /\ ans16 = Sums(HostWords)[j] % Full
       \/ temp = Len(data) /\ ans16 = SegmentSum % Full

\* From then on the sum is, but for carries that are added at the other end,
\* what uint32_t holds of the exact sum.
Folding ==
  /\ pc # "sum" => Same1s(ans, ExactSum % Full)
  /\ Done => ans < Word

SumInv == TypeOK /\ Summing /\ Folding

LEMMA StartSumIs ==
  ASSUME TypeOK
  PROVE  /\ StartSum \in 0 .. Full - 1 /\ SegmentSum \in Nat
         /\ (StartSum + (SegmentSum % Full)) % Full = ExactSum % Full
  <1> DEFINE l1 == Load32(ends[1])
             l2 == Load32(ends[2])
             l3 == Htons(Protocol)
             l4 == Htons(Len(data))
             l5 == SumOfWords(HostWords)
             e6 == IF Odd THEN data[Len(data)] ELSE 0
  <1>1. l1 \in 0 .. Full - 1 /\ l2 \in 0 .. Full - 1 BY PartsAre, AddressIs
  <1>2. l3 \in 0 .. Word - 1 /\ l4 \in 0 .. Word - 1 BY PartsAre, HtonsIs
  <1>3. l5 \in Nat BY SumOfWordsIs
  <1>4. e6 \in 0 .. Byte - 1 BY LastByteIs DEF Bytes
  <1>5. /\ StartSum = (((l1 + l2) % Full) + l3 + l4) % Full
        /\ SegmentSum = l5 + e6
        /\ ExactSum = l1 + l2 + l3 + l4 + l5 + e6
    BY DEF StartSum, SumOf, SegmentSum, ExactSum
  <1> HIDE DEF l1, l2, l3, l4, l5, e6
  <1>6. /\ l1 \in Nat /\ l2 \in Nat /\ l3 \in Nat /\ l4 \in Nat /\ e6 \in Nat
        /\ Full \in Nat \ {0}
    BY <1>1, <1>2, <1>4, Sizes
  <1> DEFINE p == (l1 + l2) % Full
             a == l1 + l2 + (l3 + l4)
             b == l5 + e6
  <1>7. p \in Nat /\ l3 + l4 \in Nat /\ l1 + l2 \in Nat BY <1>6, DivMod
  <1>8. (p + (l3 + l4)) % Full = a % Full BY <1>6, <1>7, ModPlus
  <1>9. a \in Nat /\ b \in Nat BY <1>3, <1>6
  <1> HIDE DEF p
  <1>10. p + l3 + l4 = p + (l3 + l4) BY <1>6, <1>7
  <1>11. StartSum = a % Full BY <1>5, <1>8, <1>10 DEF p
  <1>12. SegmentSum = b /\ ExactSum = a + b BY <1>3, <1>5, <1>6
  <1> HIDE DEF a, b
  <1>13. ((a % Full) + (b % Full)) % Full = (a + b) % Full BY <1>6, <1>9, ModSum
  <1>14. a % Full \in 0 .. Full - 1 BY <1>6, <1>9, DivMod
  <1> QED BY <1>9, <1>11, <1>12, <1>13, <1>14

\* Nothing writes to what is summed.
LEMMA InputsStay ==
  ASSUME UNCHANGED <<order, ends, data>>
  PROVE  /\ StartSum' = StartSum /\ ExactSum' = ExactSum
         /\ SegmentSum' = SegmentSum /\ Sums(HostWords)' = Sums(HostWords)
  <1>1. /\ order' = order /\ ends' = ends /\ data' = data OBVIOUS
  <1>2. HostWords' = HostWords BY <1>1 DEF HostWords, Load16
  <1>3. Sums(HostWords)' = Sums(HostWords) BY <1>1, <1>2 DEF Sums
  <1>4. SumOfWords(HostWords)' = SumOfWords(HostWords)
    BY <1>1, <1>3 DEF SumOfWords
  <1>5. Odd' = Odd BY <1>1 DEF Odd
  <1>6. /\ Load32(ends[1])' = Load32(ends[1])
        /\ Load32(ends[2])' = Load32(ends[2])
    BY <1>1 DEF Load32, Load16
  <1>7. /\ Htons(Protocol)' = Htons(Protocol)
        /\ Htons(Len(data))' = Htons(Len(data))
    BY <1>1 DEF Htons, Load16
  <1>8. StartSum' = StartSum BY <1>6, <1>7 DEF StartSum, SumOf
  <1>9. SegmentSum' = SegmentSum BY <1>1, <1>4, <1>5 DEF SegmentSum
  <1>10. ExactSum' = ExactSum BY <1>1, <1>4, <1>5, <1>6, <1>7 DEF ExactSum
  <1> QED BY <1>3, <1>8, <1>9, <1>10

LEMMA IsSequence ==
  ASSUME NEW S, NEW n \in Nat, NEW f \in [1 .. n -> S]
  PROVE  f \in Seq(S) /\ Len(f) = n
  <1>1. f \in Seq(S) OBVIOUS
  <1>2. DOMAIN f = 1 .. Len(f) /\ Len(f) \in Nat BY <1>1
  <1>3. DOMAIN f = 1 .. n OBVIOUS
  <1>4. Len(f) = n BY <1>2, <1>3
  <1> QED BY <1>1, <1>4

LEMMA SumInit ==
  ASSUME Init
  PROVE  SumInv
  <1>1. /\ data \in Seq(0 .. Byte - 1) /\ Len(data) \in Lengths
        /\ Len(data) \in Nat
    <2>1. PICK n \in Lengths : data \in [1 .. n -> 0 .. Byte - 1] BY DEF Init
    <2>2. n \in Nat BY <2>1, LengthAssumption, Sizes DEF LengthAssumption
    <2>3. data \in Seq(0 .. Byte - 1) /\ Len(data) = n
      BY <2>1, <2>2, IsSequence
    <2> QED BY <2>1, <2>2, <2>3
  <1>2. TypeOK /\ ans = StartSum
    <2> DEFINE Sum == (SumOf(ends) + Htons(Protocol) + Htons(Len(data))) % Full
    <2>1. /\ ends[1] \in [1 .. 4 -> Bytes] /\ ends[2] \in [1 .. 4 -> Bytes]
      BY AddressAssumption DEF Init, AddressAssumption, Bytes
    <2>2. Load32(ends[1]) \in 0 .. Full - 1 /\ Load32(ends[2]) \in 0 .. Full - 1
      BY <2>1, AddressIs
    <2>3. Protocol \in 0 .. Word - 1 /\ Len(data) \in 0 .. Word - 1
      BY <1>1, ByteAssumption, LengthAssumption, Sizes
      DEF ByteAssumption, LengthAssumption
    <2>4. Htons(Protocol) \in 0 .. Word - 1 /\ Htons(Len(data)) \in 0 .. Word - 1
      BY <2>3, HtonsIs
    <2>5. SumOf(ends) \in Nat
      <3> DEFINE n == Load32(ends[1]) + Load32(ends[2])
      <3>1. n \in Nat /\ Full \in Nat \ {0} BY <2>2, Sizes
      <3> HIDE DEF n
      <3>2. n % Full \in Nat BY <3>1, DivMod
      <3> QED BY <3>2 DEF n, SumOf
    <2>6. StartSum \in 0 .. Full - 1
      <3> DEFINE n == SumOf(ends) + Htons(Protocol) + Htons(Len(data))
      <3>1. n \in Nat /\ Full \in Nat \ {0} BY <2>4, <2>5, Sizes
      <3> HIDE DEF n
      <3>2. n % Full \in 0 .. Full - 1 BY <3>1, DivMod
      <3> QED BY <3>2 DEF n, StartSum
    <2>7. 0 \in 0 .. Len(data) /\ 0 \in 0 .. Full - 1 BY <1>1, Sizes
    <2> QED BY <1>1, <2>6, <2>7 DEF Init, TypeOK
  <1>3. pc = "sum" /\ temp = 0 /\ ans16 = 0 BY DEF Init
  <1>4. Summing
    <2>1. Len(data) \div 2 \in Nat BY <1>2, LengthIs
    <2>2. 0 \in 0 .. Len(data) \div 2 /\ 0 = 2 * 0 BY <2>1
    <2>3. Sums(HostWords)[0] = 0 BY <1>1, <2>2, SumsAre
    <2>4. 0 % Full = 0 BY Sizes, ModUnique
    <2> QED BY <1>2, <1>3, <2>2, <2>3, <2>4 DEF Summing
  <1>5. Folding BY <1>3 DEF Folding, Done
  <1> QED BY <1>2, <1>4, <1>5 DEF SumInv

LEMMA AddWordKeeps ==
  ASSUME SumInv, AddWord
  PROVE  SumInv'
  <1>1. TypeOK /\ Summing /\ pc = "sum" BY DEF SumInv, AddWord
  <1>2. /\ UNCHANGED <<order, ends, data, ans, pc>>
        /\ Len(data) - temp > 1 /\ temp' = temp + 2
        /\ ans16' = (ans16 + Load16(data[temp + 1], data[temp + 2])) % Full
    BY DEF AddWord, count
  <1> DEFINE l == Len(data)
             q == Len(data) \div 2
             s == Sums(HostWords)
  <1>3. /\ l \in Nat /\ q \in Nat /\ 2 * q <= l
        /\ (Odd => 2 * q + 1 = l) /\ (~Odd => 2 * q = l)
    BY <1>1, LengthIs
  <1>4. s = [n \in 0 .. q |-> IF n = 0 THEN 0 ELSE s[n - 1] + HostWords[n]]
    BY <1>3, SumsAre
  <1>5. \A n \in 0 .. q : s[n] \in Nat
    <2>1. Word - 1 \in Nat BY Sizes
    <2> QED BY <1>1, <1>3, <2>1, WordsAre, SumsBounded
  <1>6. \A n \in 1 .. q :
          /\ HostWords[n] = Load16(data[2 * n - 1], data[2 * n])
          /\ HostWords[n] \in 0 .. Word - 1
    BY <1>1, WordsAre
  <1>7. l - temp > 1 /\ temp \in Nat BY <1>1, <1>2 DEF TypeOK
  <1>8. PICK j \in 0 .. q : temp = 2 * j /\ ans16 = s[j] % Full
    BY <1>1, <1>3, <1>7 DEF Summing
  <1>9. s' = s BY <1>2, InputsStay
  <1> HIDE DEF l, q, s
  <1>10. /\ j + 1 \in 1 .. q /\ j \in 0 .. q
         /\ 2 * (j + 1) - 1 = temp + 1 /\ 2 * (j + 1) = temp + 2
    BY <1>3, <1>7, <1>8
  <1>11. s[j + 1] = s[j] + HostWords[j + 1] BY <1>3, <1>4, <1>10
  <1>12. HostWords[j + 1] = Load16(data[temp + 1], data[temp + 2])
    BY <1>6, <1>10
  <1>13. ((s[j] % Full) + HostWords[j + 1]) % Full = s[j + 1] % Full
    <2>1. HostWords[j + 1] \in Nat BY <1>6, <1>10, Sizes
    <2>2. s[j] \in Nat /\ Full \in Nat \ {0} BY <1>5, <1>10, Sizes
    <2> QED BY <1>11, <2>1, <2>2, ModPlus, ZenonT(60)
  <1>14. ans16' = s[j + 1] % Full BY <1>2, <1>8, <1>12, <1>13
  <1>15. temp' = 2 * (j + 1) /\ j + 1 \in 0 .. q BY <1>2, <1>10
  <1>16. TypeOK'
    <2>1. temp' \in 0 .. l BY <1>2, <1>3, <1>7
    <2>2. s[j + 1] \in Nat /\ Full \in Nat \ {0} BY <1>5, <1>10, Sizes
    <2>3. ans16' \in 0 .. Full - 1 BY <1>14, <2>2, DivMod
    <2> QED BY <1>1, <1>2, <2>1, <2>3 DEF TypeOK, l
  <1>17. Summing'
    <2>1. StartSum' = StartSum BY <1>2, InputsStay
    <2>2. ans' = StartSum' BY <1>1, <1>2, <2>1 DEF Summing
    <2>3. (Len(data) \div 2)' = q BY <1>2 DEF q
    <2>4. Sums(HostWords)' = s BY <1>9 DEF s
    <2>5. \E n \in 0 .. q : temp' = 2 * n /\ ans16' = s[n] % Full
      BY <1>14, <1>15
    <2>6. \E n \in 0 .. (Len(data) \div 2)' :
            temp' = 2 * n /\ ans16' = Sums(HostWords)'[n] % Full
      BY <2>3, <2>4, <2>5
    <2> QED BY <2>2, <2>6 DEF Summing
  <1>18. Folding' BY <1>1, <1>2 DEF Folding, Done
  <1> QED BY <1>16, <1>17, <1>18 DEF SumInv

LEMMA AddByteKeeps ==
  ASSUME SumInv, AddByte
  PROVE  SumInv'
  <1>1. TypeOK /\ Summing /\ pc = "sum" BY DEF SumInv, AddByte
  <1>2. /\ UNCHANGED <<order, ends, data, ans, pc>>
        /\ Len(data) - temp = 1 /\ temp' = temp + 1
        /\ ans16' = (ans16 + data[Len(data)]) % Full
    BY DEF AddByte, count
  <1> DEFINE l == Len(data)
             q == Len(data) \div 2
             s == Sums(HostWords)
             b == data[Len(data)]
  <1>3. /\ l \in Nat /\ q \in Nat /\ 2 * q <= l
        /\ (Odd => 2 * q + 1 = l) /\ (~Odd => 2 * q = l)
    BY <1>1, LengthIs
  <1>4. l - temp = 1 /\ temp \in Nat BY <1>1, <1>2 DEF TypeOK
  <1>5. PICK j \in 0 .. q : temp = 2 * j /\ ans16 = s[j] % Full
    BY <1>1, <1>3, <1>4 DEF Summing
  <1>6. s[q] = SumOfWords(HostWords) /\ s[q] \in Nat
    BY <1>1, SumOfWordsIs DEF SumOfWords
  <1>7. ans16' = (ans16 + b) % Full BY <1>2
  <1>8. Odd => b \in Bytes BY <1>1, PartsAre
  <1> HIDE DEF l, q, s, b
  <1>9. Odd /\ j = q
    <2>1. CASE Odd BY <1>3, <1>4, <1>5, <2>1
    <2>2. CASE ~Odd BY <1>3, <1>4, <1>5, <2>2
    <2> QED BY <2>1, <2>2
  <1>10. SegmentSum = s[q] + b BY <1>6, <1>9 DEF SegmentSum, b
  <1>11. ans16' = SegmentSum % Full
    <2>1. b \in Nat /\ Full \in Nat \ {0} BY <1>8, <1>9, Sizes DEF Bytes
    <2> QED BY <1>5, <1>6, <1>7, <1>9, <1>10, <2>1, ModPlus
  <1>12. temp' = l BY <1>2, <1>3, <1>4
  <1>13. TypeOK'
    <2>1. temp' \in 0 .. l BY <1>3, <1>12
    <2>2. ans16' \in 0 .. Full - 1
      <3>1. SegmentSum \in Nat /\ Full \in Nat \ {0} BY <1>1, StartSumIs, Sizes
      <3> QED BY <1>11, <3>1, DivMod
    <2> QED BY <1>1, <1>2, <2>1, <2>2 DEF TypeOK, l
  <1>14. Summing'
    <2>1. StartSum' = StartSum /\ SegmentSum' = SegmentSum BY <1>2, InputsStay
    <2>2. ans' = StartSum' BY <1>1, <1>2, <2>1 DEF Summing
    <2>3. temp' = Len(data)' /\ ans16' = SegmentSum' % Full
      BY <1>2, <1>11, <1>12, <2>1 DEF l
    <2> QED BY <2>2, <2>3 DEF Summing
  <1>15. Folding' BY <1>1, <1>2 DEF Folding, Done
  <1> QED BY <1>13, <1>14, <1>15 DEF SumInv

LEMMA JoinKeeps ==
  ASSUME SumInv, Join
  PROVE  SumInv'
  <1>1. TypeOK /\ Summing /\ pc = "sum" BY DEF SumInv, Join
  <1>2. /\ UNCHANGED <<order, ends, data, temp, ans16>>
        /\ Len(data) - temp = 0
        /\ ans' = (ans + ans16) % Full /\ pc' = "fold"
    BY DEF Join, count
  <1> DEFINE l == Len(data)
             q == Len(data) \div 2
             s == Sums(HostWords)
  <1>3. /\ l \in Nat /\ q \in Nat /\ 2 * q <= l
        /\ (Odd => 2 * q + 1 = l) /\ (~Odd => 2 * q = l)
    BY <1>1, LengthIs
  <1>4. s[q] = SumOfWords(HostWords) /\ s[q] \in Nat
    BY <1>1, SumOfWordsIs DEF SumOfWords
  <1>5. ans16 = SegmentSum % Full
    <2>1. \/ \E j \in 0 .. q : temp = 2 * j /\ ans16 = s[j] % Full
          \/ ans16 = SegmentSum % Full
      BY <1>1 DEF Summing
    <2>2. ASSUME NEW j \in 0 .. q, temp = 2 * j, ans16 = s[j] % Full
          PROVE  ans16 = SegmentSum % Full
      <3>1. l - temp = 0 /\ temp \in Nat BY <1>1, <1>2 DEF TypeOK
      <3> HIDE DEF l, q, s
      <3>2. ~Odd /\ j = q
        <4>1. CASE Odd BY <1>3, <2>2, <3>1, <4>1
        <4>2. CASE ~Odd BY <1>3, <2>2, <3>1, <4>2
        <4> QED BY <4>1, <4>2
      <3>3. SegmentSum = s[q] BY <1>4, <3>2 DEF SegmentSum
      <3> QED BY <2>2, <3>2, <3>3
    <2> QED BY <2>1, <2>2
  <1>6. ans' = ExactSum % Full BY <1>1, <1>2, <1>5, StartSumIs DEF Summing
  <1>7. /\ ExactSum % Full \in 0 .. Full - 1 /\ ExactSum % Full \in Nat
        /\ Same1s(ExactSum % Full, ExactSum % Full)
    <2>1. ExactSum \in Nat /\ Full \in Nat \ {0} BY <1>1, SumsAgree, Sizes
    <2> QED BY <2>1, DivMod, Same1sReflexive
  <1>8. TypeOK' BY <1>1, <1>2, <1>6, <1>7 DEF TypeOK
  <1>9. Summing' BY <1>2 DEF Summing
  <1>10. Folding'
    <2>1. ExactSum' = ExactSum BY <1>2, InputsStay
    <2>2. Same1s(ans', ExactSum' % Full) BY <1>6, <1>7, <2>1
    <2>3. Same1s(ans, ExactSum % Full)' BY <2>2 DEF Same1s, Congruent
    <2> QED BY <1>2, <2>3 DEF Folding, Done
  <1> QED BY <1>8, <1>9, <1>10 DEF SumInv

LEMMA FoldKeeps ==
  ASSUME SumInv, Fold
  PROVE  SumInv'
  <1>1. /\ TypeOK /\ pc = "fold" /\ Same1s(ans, ExactSum % Full)
        /\ UNCHANGED <<order, ends, data, temp, ans16, pc>>
        /\ ans' = Folded(ans)
    BY DEF SumInv, Folding, Fold
  <1>2. ans \in 0 .. Full - 1 /\ ans \in Nat BY <1>1, Sizes DEF TypeOK
  <1>3. Folded(ans) \in 0 .. Full - 1 /\ Same1s(Folded(ans), ans)
    BY <1>2, FoldedSame
  <1>4. Folded(ans) \in Nat BY <1>3, Sizes
  <1>5. ExactSum % Full \in Nat
    <2>1. ExactSum \in Nat /\ Full \in Nat \ {0} BY <1>1, SumsAgree, Sizes
    <2> QED BY <2>1, DivMod
  <1>6. Same1s(Folded(ans), ExactSum % Full)
    BY <1>1, <1>2, <1>3, <1>4, <1>5, Same1sTransitive
  <1>7. TypeOK' BY <1>1, <1>3 DEF TypeOK
  <1>8. Summing' BY <1>1 DEF Summing
  <1>9. Folding'
    <2>1. ExactSum' = ExactSum BY <1>1, InputsStay
    <2>2. Same1s(ans', ExactSum' % Full) BY <1>1, <1>6, <2>1
    <2>3. Same1s(ans, ExactSum % Full)' BY <2>2 DEF Same1s, Congruent
    <2> QED BY <1>1, <2>3 DEF Folding, Done
  <1> QED BY <1>7, <1>8, <1>9 DEF SumInv

LEMMA ReturnKeeps ==
  ASSUME SumInv, Return
  PROVE  SumInv'
  <1>1. /\ TypeOK /\ Same1s(ans, ExactSum % Full)
        /\ UNCHANGED <<order, ends, data, temp, ans16, ans>>
        /\ ans \div Word = 0 /\ pc' = "done"
    BY DEF SumInv, Folding, Return
  <1>2. ans < Word
    <2>1. ans \in Nat /\ Word \in Nat \ {0} BY <1>1, Sizes DEF TypeOK
    <2>2. ans = (ans \div Word) * Word + (ans % Word) /\ ans % Word \in 0 .. Word - 1
      BY <2>1, DivMod
    <2>3. 0 * Word = 0 BY <2>1
    <2> QED BY <1>1, <2>1, <2>2, <2>3
  <1>3. TypeOK' BY <1>1 DEF TypeOK
  <1>4. Summing' BY <1>1 DEF Summing
  <1>5. Folding'
    <2>1. ExactSum' = ExactSum BY <1>1, InputsStay
    <2>2. Same1s(ans', ExactSum' % Full) BY <1>1, <2>1
    <2>3. Same1s(ans, ExactSum % Full)' BY <2>2 DEF Same1s, Congruent
    <2>4. (ans < Word)' BY <1>1, <1>2 DEF Word
    <2> QED BY <1>1, <2>3, <2>4 DEF Folding, Done
  <1> QED BY <1>3, <1>4, <1>5 DEF SumInv

LEMMA StutterKeeps ==
  ASSUME SumInv, UNCHANGED vars
  PROVE  SumInv'
  <1>1. /\ UNCHANGED <<order, ends, data>>
        /\ temp' = temp /\ ans16' = ans16 /\ ans' = ans /\ pc' = pc
    BY DEF vars
  <1>2. TypeOK' BY <1>1 DEF SumInv, TypeOK
  <1>3. /\ StartSum' = StartSum /\ ExactSum' = ExactSum
        /\ SegmentSum' = SegmentSum /\ Sums(HostWords)' = Sums(HostWords)
    BY <1>1, InputsStay
  <1>4. Summing' BY <1>1, <1>3 DEF SumInv, Summing
  <1>5. Folding'
    BY <1>1, <1>3 DEF SumInv, Folding, Done, Same1s, Congruent
  <1> QED BY <1>2, <1>4, <1>5 DEF SumInv

\* While the words are read the sum is that of the words passed, and every fold
\* keeps what it stands for in ones' complement.
THEOREM Invariant == Spec => []SumInv
  <1>1. Init => SumInv BY SumInit
  <1>2. SumInv /\ [Next]_vars => SumInv'
    <2> SUFFICES ASSUME SumInv, [Next]_vars PROVE SumInv'
      OBVIOUS
    <2> QED BY AddWordKeeps, AddByteKeeps, JoinKeeps, FoldKeeps, ReturnKeeps,
               StutterKeeps DEF Next
  <1> QED BY <1>1, <1>2, PTL DEF Spec

\* Every addition stays within uint32_t and sum_every_16_bits within the
\* segment.
THEOREM TypeCorrect == Spec => []TypeOK
  <1>1. SumInv => TypeOK BY DEF SumInv
  <1> QED BY <1>1, Invariant, PTL

-----------------------------------------------------------------------------
(* What is returned *)

\* The checksum is the right one when the code's sum is the proper sum.
LEMMA RightIfSame ==
  ASSUME SumInv, Done
  PROVE  Rfc1071Sum = Result <=> Same1s(ans, ProperSum)
  <1> DEFINE o == OnesComplement(WordSum)
             z == Htons(o)
             w == Scale * WordSum
             u == Scale * o
  <1>1. TypeOK /\ ans \in Nat /\ ans < Word
    BY Sizes DEF SumInv, Folding, TypeOK
  <1>2. /\ ExactSum \in Nat /\ Misplaced \in Nat /\ ProperSum = ExactSum + Misplaced
        /\ WordSum \in Nat /\ Same1s(ProperSum, w)
    BY <1>1, SumsAgree, LastByteIs
  <1>3. o \in 0 .. Word - 1 /\ Same1s(o, WordSum) BY <1>2, OnesComplementIs
  <1>4. z \in 0 .. Word - 1 /\ Same1s(z, u) BY <1>3, HtonsIs
  <1>5. Rfc1071Sum = Word - 1 - z
    <2>1. Htons(Word - 1 - o) = Word - 1 - z BY <1>3, HtonsComplement
    <2>2. Rfc1071Sum = Htons(Word - 1 - o) BY DEF Rfc1071Sum, Htons
    <2> QED BY <2>1, <2>2
  <1>6. Scale \in Nat \ {0} BY ScaleIs
  <1>7. o \in Nat BY <1>3, Sizes
  <1>8. Same1s(u, w) BY <1>2, <1>3, <1>6, <1>7, Same1sTimes
  <1>9. u \in Nat /\ w \in Nat BY <1>2, <1>6, <1>7
  <1> HIDE DEF o, z, u, w
  <1>10. Same1s(z, ProperSum)
    <2>1. z \in Nat /\ ProperSum \in Nat BY <1>2, <1>4, Sizes
    <2>2. Same1s(z, w) BY <1>4, <1>8, <1>9, <2>1, Same1sTransitive
    <2>3. Same1s(w, ProperSum) BY <1>2, <1>9, <2>1, Same1sSymmetric
    <2> QED BY <1>9, <2>1, <2>2, <2>3, Same1sTransitive
  <1>11. Rfc1071Sum = Result <=> ans = z
    BY <1>1, <1>4, <1>5, Sizes DEF Result
  <1>12. ASSUME Same1s(ans, ProperSum) PROVE ans = z
    <2>1. z \in Nat /\ ProperSum \in Nat BY <1>2, <1>4, Sizes
    <2>2. Same1s(ProperSum, z) BY <1>10, <2>1, Same1sSymmetric
    <2>3. Same1s(ans, z) BY <1>1, <1>12, <2>1, <2>2, Same1sTransitive
    <2>4. ans \in 0 .. Word - 1 BY <1>1, Sizes
    <2> QED BY <1>4, <2>3, <2>4, Same1sSmall
  <1> QED BY <1>10, <1>11, <1>12

\* A lost carry, of which there are at most two, and a misplaced byte
\* together are less than Word - 1.
LEMMA LossShows ==
  ASSUME TypeOK
  PROVE  Same1s(ExactSum % Full, ProperSum) <=> ExactSum < Full /\ InPlace
  <1> DEFINE k == ExactSum \div Full
             e == ExactSum % Full
             d == Misplaced
             m == Word - 1
  <1>1. /\ ExactSum \in Nat /\ ExactSum < 3 * Full /\ ProperSum = ExactSum + d
        /\ d \in Nat /\ d + 2 < m /\ (d = 0 <=> InPlace)
    BY SumsAgree, LastByteIs
  <1>2. Full \in Nat \ {0} /\ m \in Nat \ {0} /\ Full = (m + 1) * (m + 1)
    BY Sizes
  <1>3. k \in Nat /\ e \in 0 .. Full - 1 /\ e \in Nat /\ ExactSum = k * Full + e
    BY <1>1, <1>2, DivMod
  <1> HIDE DEF k, e, d, m
  <1>4. k < 3 /\ (k = 0 <=> ExactSum < Full)
    <2>1. k >= 1 => (k - 1) * Full >= 0 BY <1>2, <1>3
    <2>2. k >= 3 => (k - 3) * Full >= 0 BY <1>2, <1>3
    <2>3. k * Full = (k - 1) * Full + Full /\ k * Full = (k - 3) * Full + 3 * Full
      BY <1>2, <1>3
    <2>4. /\ k * Full \in Int /\ (k - 1) * Full \in Int /\ (k - 3) * Full \in Int
      BY <1>2, <1>3
    <2>5. k < 3 BY <1>1, <1>2, <1>3, <2>2, <2>3, <2>4
    <2>6. k = 0 => k * Full = 0 BY <1>2
    <2>7. k = 0 <=> ExactSum < Full
      BY <1>1, <1>2, <1>3, <2>1, <2>3, <2>4, <2>6
    <2> QED BY <2>5, <2>7
  <1>5. ASSUME k = 0, d = 0 PROVE Same1s(e, ProperSum)
    <2>1. 0 * Full = 0 BY <1>2
    <2>2. ProperSum = e BY <1>1, <1>3, <1>5, <2>1
    <2> QED BY <1>3, <2>2, Same1sReflexive
  <1>6. ASSUME Same1s(e, ProperSum) PROVE k = 0 /\ d = 0
    <2>1. PICK t \in Int : e - ProperSum = t * m BY <1>6 DEF Same1s, Congruent, m
    <2> DEFINE n == -t - k * (m + 2)
    <2>2. k * Full = k * (m + 2) * m + k BY <1>2, <1>3
    <2>3. n * m = -(t * m) - k * (m + 2) * m BY <1>2, <1>3
    <2>4. k * Full + d = -(t * m)
      <3>1. t * m \in Int /\ k * Full \in Int BY <1>2, <1>3
      <3> QED BY <1>1, <1>3, <2>1, <3>1
    <2>5. k + d = n * m /\ n \in Int
      <3>1. t * m \in Int /\ k * (m + 2) * m \in Int /\ n \in Int /\ n * m \in Int
        BY <1>2, <1>3
      <3> QED BY <1>1, <1>3, <2>2, <2>3, <2>4, <3>1
    <2> HIDE DEF n
    <2>6. n * m < m /\ -m < n * m BY <1>1, <1>2, <1>3, <1>4, <2>5
    <2>7. n = 0 BY <1>2, <2>5, <2>6, SmallMultiple
    <2>8. k + d = 0
      <3>1. 0 * m = 0 BY <1>2
      <3> QED BY <2>5, <2>7, <3>1
    <2> QED BY <1>1, <1>3, <2>8
  <1> QED BY <1>1, <1>4, <1>5, <1>6 DEF e

\* tcp_udp_checksum returns the checksum of RFC 1071, for every segment whose
\* length a uint16_t holds and between all addresses, if and only if the sum
\* of the words stays below the width of uint32_t and no last byte is
\* misplaced: a carry that an addition loses is never made up for.
THEOREM RightUnlessLost == Spec => []RightUnlessCarryLost
  <1>1. SumInv => RightUnlessCarryLost
    <2> SUFFICES ASSUME SumInv, Done
                 PROVE  Rfc1071Sum = Result <=>
                          /\ ExactSum < Full
                          /\ order = "little" \/ ~Odd \/ data[Len(data)] = 0
      BY DEF RightUnlessCarryLost
    <2>1. TypeOK /\ ans \in Nat /\ Same1s(ans, ExactSum % Full)
      BY Sizes DEF SumInv, Folding, TypeOK, Done
    <2>2. ExactSum \in Nat /\ Full \in Nat \ {0} /\ ProperSum \in Nat
      BY <2>1, SumsAgree, LastByteIs, Sizes, SMTT(40)
    <2>3. ExactSum % Full \in Nat BY <2>2, DivMod
    <2>4. Same1s(ans, ProperSum) <=> Same1s(ExactSum % Full, ProperSum)
      BY <2>1, <2>2, <2>3, Same1sSymmetric, Same1sTransitive
    <2> QED BY <2>1, <2>4, RightIfSame, LossShows DEF InPlace
  <1> QED BY <1>1, Invariant, PTL

=============================================================================
