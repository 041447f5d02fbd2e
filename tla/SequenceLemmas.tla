--------------------------- MODULE SequenceLemmas ---------------------------
(***************************************************************************)
(* What the operators on sequences and sets of numbers return that the     *)
(* models take from the community modules: facts the library of proved     *)
(* theorems does not hold.                                                 *)
(***************************************************************************)
EXTENDS Integers, Sequences, FiniteSets, SequencesExt, FiniteSetsExt, TLAPS,
        SequenceTheorems, FiniteSetTheorems, WellFoundedInduction

(* What remains of a sequence without its k-th element.                    *)
LEMMA RemoveAtProperties ==
  ASSUME NEW S, NEW q \in Seq(S), NEW k \in 1 .. Len(q)
  PROVE  /\ RemoveAt(q, k) \in Seq(S)
         /\ Len(RemoveAt(q, k)) = Len(q) - 1
         /\ \A i \in 1 .. Len(q) - 1 :
              RemoveAt(q, k)[i] = IF i < k THEN q[i] ELSE q[i + 1]
<1> DEFINE l == SubSeq(q, 1, k - 1)
           r == SubSeq(q, k + 1, Len(q))
<1>0. Len(q) \in Nat /\ k \in Int /\ \A i \in 1 .. Len(q) : q[i] \in S
  BY LenProperties, ElementOfSeq
<1>1. /\ l \in Seq(S) /\ Len(l) = k - 1
      /\ \A i \in 1 .. k - 1 : l[i] = q[i]
  <2>1. \A i \in 1 .. k - 1 : q[i] \in S
    BY <1>0
  <2>2. QED
    BY <1>0, <2>1, SubSeqProperties
<1>2. /\ r \in Seq(S) /\ Len(r) = Len(q) - k
      /\ \A i \in 1 .. Len(q) - k : r[i] = q[k + i]
  <2>1. \A i \in k + 1 .. Len(q) : q[i] \in S
    BY <1>0
  <2>2. QED
    BY <1>0, <2>1, SubSeqProperties
<1>3. /\ l \o r \in Seq(S)
      /\ Len(l \o r) = Len(l) + Len(r)
      /\ \A i \in 1 .. Len(l) + Len(r) :
           (l \o r)[i] = IF i <= Len(l) THEN l[i] ELSE r[i - Len(l)]
  BY <1>1, <1>2, ConcatProperties
<1>4. RemoveAt(q, k) = l \o r
  BY DEF RemoveAt
<1> HIDE DEF l, r
<1>5. Len(l \o r) = Len(q) - 1
  BY <1>0, <1>1, <1>2, <1>3
<1>6. ASSUME NEW i \in 1 .. Len(q) - 1
      PROVE  (l \o r)[i] = IF i < k THEN q[i] ELSE q[i + 1]
  <2>1. CASE i < k
    BY <1>0, <1>1, <1>2, <1>3, <2>1
  <2>2. CASE ~ (i < k)
    <3>1. i - (k - 1) \in 1 .. Len(q) - k /\ k + (i - (k - 1)) = i + 1
      BY <1>0, <2>2
    <3>2. (l \o r)[i] = r[i - (k - 1)]
      BY <1>0, <1>1, <1>2, <1>3, <2>2
    <3>3. QED
      BY <1>2, <2>2, <3>1, <3>2
  <2>3. QED
    BY <2>1, <2>2
<1>7. QED
  BY <1>3, <1>4, <1>5, <1>6

(* A nonempty set of naturals has a least element.                         *)
LEMMA MinProperties ==
  ASSUME NEW I, I \subseteq Nat, I # {}
  PROVE  Min(I) \in I /\ \A j \in I : Min(I) <= j
<1>1. PICK m \in I : \A j \in I : m <= j
  <2>1. PICK m \in I : \A j \in I : ~ (<<j, m>> \in OpToRel(<, Nat))
    BY WFMin, NatLessThanWellFounded
  <2>2. \A j \in I : ~ (j < m)
    BY <2>1 DEF OpToRel
  <2>3. QED
    BY <2>2
<1>2. QED
  BY <1>1 DEF Min

(* A set of integers with a bound has a largest element.                   *)
LEMMA MaxProperties ==
  ASSUME NEW I, I \subseteq Int, I # {}, NEW B \in Int, \A i \in I : i <= B
  PROVE  Max(I) \in I /\ \A i \in I : Max(I) >= i
<1> DEFINE D == {B - i : i \in I}
<1>1. D \subseteq Nat /\ D # {}
  <2>1. ASSUME NEW i \in I
        PROVE  B - i \in Nat
    <3>1. i \in Int /\ i <= B
      OBVIOUS
    <3>2. QED
      BY <3>1
  <2>2. QED
    BY <2>1
<1>2. Min(D) \in D /\ \A d \in D : Min(D) <= d
  BY <1>1, MinProperties
<1>3. PICK m \in I : Min(D) = B - m
  BY <1>2
<1>4. \A i \in I : m >= i
  <2>1. SUFFICES ASSUME NEW i \in I
                 PROVE  m >= i
    OBVIOUS
  <2>2. Min(D) <= B - i
    BY <1>2
  <2>3. m \in Int /\ i \in Int
    OBVIOUS
  <2>4. QED
    BY <1>3, <2>2, <2>3
<1>5. QED
  BY <1>4 DEF Max

(* A sequence with an element put in at position k.                        *)
LEMMA InsertAtProperties ==
  ASSUME NEW S, NEW q \in Seq(S), NEW k \in 1 .. Len(q) + 1, NEW e \in S
  PROVE  /\ InsertAt(q, k, e) \in Seq(S)
         /\ Len(InsertAt(q, k, e)) = Len(q) + 1
         /\ \A i \in 1 .. Len(q) + 1 :
              InsertAt(q, k, e)[i] = IF i < k THEN q[i]
                                     ELSE IF i = k THEN e ELSE q[i - 1]
<1> DEFINE l == SubSeq(q, 1, k - 1)
           r == SubSeq(q, k, Len(q))
<1>0. Len(q) \in Nat /\ k \in Int /\ \A i \in 1 .. Len(q) : q[i] \in S
  BY LenProperties, ElementOfSeq
<1>1. /\ l \in Seq(S) /\ Len(l) = k - 1
      /\ \A i \in 1 .. k - 1 : l[i] = q[i]
  <2>1. \A i \in 1 .. k - 1 : q[i] \in S
    BY <1>0
  <2>2. QED
    BY <1>0, <2>1, SubSeqProperties
<1>2. /\ r \in Seq(S) /\ Len(r) = Len(q) - k + 1
      /\ \A i \in 1 .. Len(q) - k + 1 : r[i] = q[k + i - 1]
  <2>1. \A i \in k .. Len(q) : q[i] \in S
    BY <1>0
  <2>2. QED
    BY <1>0, <2>1, SubSeqProperties
<1> DEFINE le == l \o <<e>>
<1>3. /\ le \in Seq(S) /\ Len(le) = k
      /\ \A i \in 1 .. k : le[i] = IF i < k THEN q[i] ELSE e
  <2>1. <<e>> \in Seq(S) /\ Len(<<e>>) = 1 /\ <<e>>[1] = e
    OBVIOUS
  <2> HIDE DEF l
  <2>2. /\ le \in Seq(S) /\ Len(le) = Len(l) + 1
        /\ \A i \in 1 .. Len(l) + 1 :
             le[i] = IF i <= Len(l) THEN l[i] ELSE <<e>>[i - Len(l)]
    BY <1>1, <2>1, ConcatProperties
  <2> HIDE DEF le
  <2>3. ASSUME NEW i \in 1 .. k
        PROVE  le[i] = IF i < k THEN q[i] ELSE e
    <3>0. k - 1 \in Int /\ (k - 1) + 1 = k /\ k - (k - 1) = 1
      BY <1>0
    <3>1. le[i] = IF i <= k - 1 THEN l[i] ELSE <<e>>[i - (k - 1)]
      BY <1>1, <2>2, <3>0
    <3>2. CASE i < k
      <4>1. i \in 1 .. k - 1 /\ i <= k - 1
        BY <1>0, <3>2
      <4>2. QED
        BY <1>1, <3>1, <3>2, <4>1
    <3>3. CASE i = k
      <4>1. ~ (k <= k - 1) /\ ~ (k < k)
        BY <1>0
      <4>2. QED
        BY <2>1, <3>0, <3>1, <3>3, <4>1
    <3>4. QED
      BY <1>0, <3>2, <3>3
  <2>4. Len(le) = k
    BY <1>0, <1>1, <2>2
  <2>5. QED
    BY <2>2, <2>3, <2>4
<1> HIDE DEF le
<1>4. /\ le \o r \in Seq(S)
      /\ Len(le \o r) = Len(le) + Len(r)
      /\ \A i \in 1 .. Len(le) + Len(r) :
           (le \o r)[i] = IF i <= Len(le) THEN le[i] ELSE r[i - Len(le)]
  BY <1>2, <1>3, ConcatProperties
<1>5. InsertAt(q, k, e) = le \o r
  BY DEF InsertAt, le
<1> HIDE DEF l, r
<1>6. Len(le \o r) = Len(q) + 1
  BY <1>0, <1>2, <1>3, <1>4
<1>7. ASSUME NEW i \in 1 .. Len(q) + 1
      PROVE  (le \o r)[i] = IF i < k THEN q[i] ELSE IF i = k THEN e ELSE q[i - 1]
  <2>1. CASE i <= k
    BY <1>0, <1>2, <1>3, <1>4, <2>1
  <2>2. CASE ~ (i <= k)
    <3>1. i - k \in 1 .. Len(q) - k + 1 /\ k + (i - k) - 1 = i - 1
      BY <1>0, <2>2
    <3>2. (le \o r)[i] = r[i - k]
      BY <1>0, <1>2, <1>3, <1>4, <2>2
    <3>3. QED
      BY <1>0, <1>2, <2>2, <3>1, <3>2
  <2>3. QED
    BY <1>0, <2>1, <2>2
<1>8. QED
  BY <1>4, <1>5, <1>6, <1>7

(* Of finite sets one has no part among the others.                        *)
LEMMA SmallestSet ==
  ASSUME NEW D, D # {}, \A s \in D : IsFiniteSet(s)
  PROVE  \E s \in D : \A x \in s : s \ {x} \notin D
<1> DEFINE N == {Cardinality(s) : s \in D}
<1>1. N \subseteq Nat /\ N # {}
  BY FS_CardinalityType
<1>2. PICK s \in D : Cardinality(s) = Min(N)
  BY <1>1, MinProperties
<1>3. ASSUME NEW x \in s, s \ {x} \in D
      PROVE  FALSE
  <2>1. Cardinality(s \ {x}) = Cardinality(s) - 1 /\ Cardinality(s) \in Nat
    BY FS_RemoveElement, FS_CardinalityType
  <2>2. Cardinality(s \ {x}) \in N
    BY <1>3
  <2>3. Cardinality(s) <= Cardinality(s \ {x})
    BY <1>1, <1>2, <2>2, MinProperties
  <2>4. QED
    BY <2>1, <2>3
<1>4. QED
  BY <1>3

-----------------------------------------------------------------------------
(* Sums of val[x] over sets of x, as the folds of the library define them. *)
OneOf(s) == CHOOSE x \in s : TRUE

SumStep(val, sums, S) ==
  [s \in S |->
     IF s = {} THEN 0 ELSE val[OneOf(s)] + sums[s \ {OneOf(s)}]]

Sums(val, f, S) == f = SumStep(val, f, SUBSET S)

LEMMA OneOfIsIn == \A s : s # {} => OneOf(s) \in s
  BY DEF OneOf

IsValued(val, S) == IsFiniteSet(S) /\ \A x \in S : val[x] \in Int

LEMMA SumExists ==
  ASSUME NEW val, NEW S, IsValued(val, S)
  PROVE  \E f \in [SUBSET S -> Int] : Sums(val, f, S)
<1> DEFINE UpTo1(k) == {s \in SUBSET S : Cardinality(s) <= k}
           IsSum(f, k) == f \in [UpTo1(k) -> Int] /\ f = SumStep(val, f, UpTo1(k))
           D == {k \in Nat : ~ \E f : IsSum(f, k)}
<1>0. \A s \in SUBSET S : IsFiniteSet(s) /\ Cardinality(s) \in Nat
  BY FS_Subset, FS_CardinalityType DEF IsValued
<1>1. D = {}
  <2>1. SUFFICES ASSUME D # {}
                 PROVE  FALSE
    OBVIOUS
  <2>2. PICK k \in Nat : k \in D /\ \A j \in D : k <= j
    <3>1. D \subseteq Nat
      OBVIOUS
    <3>2. QED
      BY <2>1, <3>1, MinProperties
  <2>3. CASE k = 0
    <3>1. UpTo1(0) = {{}}
      <4>1. \A s \in SUBSET S : Cardinality(s) <= 0 <=> s = {}
        BY <1>0, FS_EmptySet
      <4>2. QED
        BY <4>1
    <3>2. IsSum([s \in {{}} |-> 0], 0)
      BY <3>1 DEF Sums, SumStep
    <3>3. QED
      BY <2>2, <2>3, <3>2
  <2>4. CASE k # 0
    <3>1. k - 1 \in Nat /\ k - 1 \notin D
      <4> HIDE DEF D
      <4>1. QED
        BY <2>2, <2>4
    <3>2. PICK f : IsSum(f, k - 1)
      BY <3>1
    <3>3. DEFINE g == [s \in UpTo1(k) |->
                         IF s = {} THEN 0
                         ELSE val[OneOf(s)] + f[s \ {OneOf(s)}]]
    <3>4. ASSUME NEW s \in UpTo1(k), s # {}, NEW x, x = OneOf(s)
          PROVE  x \in s /\ s \ {x} \in UpTo1(k - 1) /\ s \ {x} \in UpTo1(k)
      <4>1. x \in s
        BY <3>4, OneOfIsIn
      <4>2. Cardinality(s \ {x}) = Cardinality(s) - 1
        BY <1>0, <4>1, FS_RemoveElement
      <4>3. QED
        BY <1>0, <4>1, <4>2
    <3>5. \A s \in UpTo1(k - 1) : s \in UpTo1(k) /\ f[s] = g[s]
      <4>1. ASSUME NEW s \in UpTo1(k - 1)
            PROVE  s \in UpTo1(k) /\ f[s] = g[s]
        <5>1. s \in UpTo1(k)
          BY <1>0
        <5>2. f[s] = SumStep(val, f, UpTo1(k - 1))[s]
          BY <3>2
        <5>3. QED
          BY <5>1, <5>2 DEF Sums, SumStep
      <4>2. QED
        BY <4>1
    <3>6. g \in [UpTo1(k) -> Int]
      <4>1. ASSUME NEW s \in UpTo1(k), s # {}
            PROVE  val[OneOf(s)] + f[s \ {OneOf(s)}] \in Int
        <5>1. PICK x : x = OneOf(s)
          OBVIOUS
        <5>2. x \in S /\ s \ {x} \in UpTo1(k - 1)
          BY <3>4, <4>1, <5>1
        <5>3. val[x] \in Int /\ f[s \ {x}] \in Int
          BY <3>2, <5>2 DEF IsValued
        <5>4. QED
          BY <5>1, <5>3
      <4>2. \A s \in UpTo1(k) : (IF s = {} THEN 0 ELSE val[OneOf(s)] + f[s \ {OneOf(s)}]) \in Int
        BY <4>1
      <4> HIDE DEF UpTo1
      <4>3. QED
        BY <4>2
    <3>7. g = SumStep(val, g, UpTo1(k))
      <4>1. ASSUME NEW s \in UpTo1(k), s # {}
            PROVE  f[s \ {OneOf(s)}] = g[s \ {OneOf(s)}]
        BY <3>4, <3>5, <4>1
      <4>2. QED
        BY <4>1 DEF Sums, SumStep
    <3>8. IsSum(g, k)
      BY <3>6, <3>7
    <3>9. QED
      <4> HIDE DEF IsSum
      <4>1. QED
        BY <2>2, <3>8
  <2>5. QED
    BY <2>3, <2>4
<1>2. PICK f : IsSum(f, Cardinality(S))
  BY <1>0, <1>1
<1>3. UpTo1(Cardinality(S)) = SUBSET S
  <2>1. \A s \in SUBSET S : Cardinality(s) <= Cardinality(S)
    BY FS_Subset DEF IsValued
  <2>2. QED
    BY <2>1
<1>4. QED
  BY <1>2, <1>3 DEF Sums

(* Whatever set a sum was computed within, it is the same.                 *)
LEMMA SumsAgree ==
  ASSUME NEW val, NEW S, IsValued(val, S), NEW T \in SUBSET S,
         NEW f, Sums(val, f, S), NEW g, Sums(val, g, T)
  PROVE  \A s \in SUBSET T : f[s] = g[s]
<1> DEFINE D == {s \in SUBSET T : f[s] # g[s]}
<1>1. \A s \in D : IsFiniteSet(s)
  BY FS_Subset DEF IsValued
<1>2. SUFFICES ASSUME D # {}
               PROVE  FALSE
  OBVIOUS
<1>3. PICK s \in D : \A x \in s : s \ {x} \notin D
  BY <1>1, <1>2, SmallestSet
<1>4. CASE s = {}
  <2>1. f[s] = 0 /\ g[s] = 0
    BY <1>4 DEF Sums, SumStep
  <2>2. QED
    BY <2>1
<1>5. CASE s # {}
  <2>1. PICK x : x = OneOf(s)
    OBVIOUS
  <2>2. x \in s /\ f[s \ {x}] = g[s \ {x}]
    BY <1>3, <1>5, <2>1, OneOfIsIn
  <2>3. f[s] = val[x] + f[s \ {x}]
    BY <1>5, <2>1 DEF Sums, SumStep
  <2>4. g[s] = val[x] + g[s \ {x}]
    BY <1>5, <2>1 DEF Sums, SumStep
  <2>5. QED
    BY <2>2, <2>3, <2>4
<1>6. QED
  BY <1>4, <1>5

(* A sum does not depend on the order in which it is taken.                *)
LastIsAny(val, f, s) == \A x \in s : f[s] = val[x] + f[s \ {x}]

LEMMA SumAnyOrder ==
  ASSUME NEW val, NEW S, IsValued(val, S),
         NEW f \in [SUBSET S -> Int], Sums(val, f, S)
  PROVE  \A s \in SUBSET S : LastIsAny(val, f, s)
<1> USE DEF LastIsAny
<1> DEFINE D == {s \in SUBSET S : ~ LastIsAny(val, f, s)}
<1>1. \A s \in D : IsFiniteSet(s)
  BY FS_Subset DEF IsValued
<1>2. SUFFICES ASSUME D # {}
               PROVE  FALSE
  OBVIOUS
<1>3. PICK s \in D : \A x \in s : s \ {x} \notin D
  BY <1>1, <1>2, SmallestSet
<1>4. PICK x \in s : f[s] # val[x] + f[s \ {x}]
  BY <1>3
<1>5. PICK y : y = OneOf(s)
  OBVIOUS
<1>6. y \in s /\ s # {}
  BY <1>4, <1>5, OneOfIsIn
<1>7. f[s] = val[y] + f[s \ {y}]
  BY <1>5, <1>6 DEF Sums, SumStep
<1>8. x # y
  BY <1>4, <1>7
<1>9. f[s \ {y}] = val[x] + f[(s \ {y}) \ {x}]
  BY <1>3, <1>6, <1>8
<1>10. f[s \ {x}] = val[y] + f[(s \ {x}) \ {y}]
  BY <1>3, <1>6, <1>8
<1>11. /\ (s \ {x}) \ {y} = (s \ {y}) \ {x}
       /\ f[(s \ {y}) \ {x}] \in Int
       /\ val[x] \in Int /\ val[y] \in Int
  BY <1>6 DEF IsValued
<1>12. PICK z \in Int : z = f[(s \ {y}) \ {x}] /\ z = f[(s \ {x}) \ {y}]
  BY <1>11
<1>13. PICK a \in Int, b \in Int : a = val[x] /\ b = val[y]
  BY <1>11
<1>14. f[s] = b + (a + z) /\ val[x] + f[s \ {x}] = a + (b + z)
  BY <1>7, <1>9, <1>10, <1>12, <1>13
<1>15. b + (a + z) = a + (b + z)
  OBVIOUS
<1>16. QED
  BY <1>4, <1>14, <1>15

(* One function gives the sum over every part of a finite set, and is what *)
(* the folds over each part give.                                          *)
IsTotal(total, val, S) ==
  /\ total \in [SUBSET S -> Int]
  /\ total[{}] = 0
  /\ \A T \in SUBSET S : \A x \in T : total[T] = val[x] + total[T \ {x}]

LEMMA TotalExists ==
  ASSUME NEW val, NEW S, IsValued(val, S)
  PROVE  \E total : /\ IsTotal(total, val, S)
                    /\ \A T \in SUBSET S : \A f : Sums(val, f, T) => f[T] = total[T]
<1>1. PICK total \in [SUBSET S -> Int] : Sums(val, total, S)
  BY SumExists
<1>2. total[{}] = 0
  BY <1>1 DEF Sums, SumStep
<1>3. ASSUME NEW T \in SUBSET S, NEW x \in T
      PROVE  total[T] = val[x] + total[T \ {x}]
  <2>1. LastIsAny(val, total, T)
    BY <1>1, SumAnyOrder
  <2>2. QED
    BY <2>1 DEF LastIsAny
<1>4. ASSUME NEW T \in SUBSET S, NEW f, Sums(val, f, T)
      PROVE  f[T] = total[T]
  <2>1. \A s \in SUBSET T : total[s] = f[s]
    BY <1>1, <1>4, SumsAgree
  <2>2. QED
    BY <2>1
<1>5. IsTotal(total, val, S)
  BY <1>1, <1>2, <1>3 DEF IsTotal
<1>6. QED
  BY <1>4, <1>5

(* Two sets without a common element have the sum of their sizes.          *)
LEMMA DisjointCardinality ==
  ASSUME NEW A, NEW B, IsFiniteSet(A), IsFiniteSet(B), A \cap B = {}
  PROVE  /\ IsFiniteSet(A \cup B)
         /\ Cardinality(A \cup B) = Cardinality(A) + Cardinality(B)
         /\ Cardinality(A) \in Nat /\ Cardinality(B) \in Nat
<1>1. Cardinality(A \cap B) = 0
  BY FS_EmptySet
<1>2. Cardinality(A) \in Nat /\ Cardinality(B) \in Nat
  BY FS_CardinalityType
<1>3. IsFiniteSet(A \cup B)
      /\ Cardinality(A \cup B) = Cardinality(A) + Cardinality(B) - Cardinality(A \cap B)
  BY FS_Union
<1>4. QED
  BY <1>1, <1>2, <1>3
=============================================================================
