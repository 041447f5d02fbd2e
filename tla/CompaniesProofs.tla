-------------------------- MODULE CompaniesProofs ---------------------------
(***************************************************************************)
(* Theorems about the two company programs, for any number of companies    *)
(* and employees and any factors and bounds.  First the companies complex: *)
(* what Root, Offset and Path of uf.h are in a forest, what find_assist    *)
(* and Union leave of them, that the forest implements the ledger, and     *)
(* that its paths stay short; then library2.cpp: the books of the system   *)
(* and of every company agree, the complex implements its registry, and    *)
(* its queries answer for whole groups.  Last the company manager of       *)
(* library1.cpp: the copies it keeps of every employee agree, it           *)
(* implements its registry, and it names and counts the right employees.   *)
(***************************************************************************)
EXTENDS CompaniesComplex, FiniteSetTheorems, SequenceLemmas

(* What the company manager takes besides, and its state.                  *)
CONSTANTS Companies, Values, Increases, Salaries, Halves, MaxValue

VARIABLES manager, managerResult

Lib == INSTANCE CompanyManager WITH
  Factors <- Halves, system <- manager, result <- managerResult

Unode == [parent : 0 .. K, value : Int, union_value : Int, sub_nodes : Int]

-----------------------------------------------------------------------------
(* The parents of u make a forest: r gives the root of each node, o the    *)
(* sum of the values on the way to it, and h, which is B at most, falls    *)
(* from a node to its parent.                                              *)
Rooted(u, r, o, n) == r[n] = n /\ o[n] = 0

Hung(u, r, o, h, n) ==
  /\ u[n].parent \in Ids /\ h[u[n].parent] < h[n]
  /\ r[n] = r[u[n].parent] /\ o[n] = u[n].value + o[u[n].parent]
  /\ h[r[n]] < h[n]

Shape(u, r, o, h, B) ==
  /\ u \in [Ids -> Unode] /\ B \in Nat
  /\ r \in [Ids -> Ids] /\ o \in [Ids -> Int] /\ h \in [Ids -> 0 .. B]
  /\ \A n \in Ids : is_root(u, r[n])
  /\ \A n \in Ids : IF is_root(u, n) THEN Rooted(u, r, o, n) ELSE Hung(u, r, o, h, n)

(* A set of nodes that is not empty has one of least h.                    *)
LEMMA LowestNode ==
  ASSUME NEW B \in Nat, NEW h \in [Ids -> 0 .. B], NEW D \in SUBSET Ids, D # {}
  PROVE  \E n \in D : \A m \in D : ~ (h[m] < h[n])
<1> DEFINE H == {h[n] : n \in D}
<1>1. H \subseteq Nat /\ H # {}
  OBVIOUS
<1>2. Min(H) \in H /\ \A j \in H : Min(H) <= j
  BY <1>1, MinProperties
<1>3. PICK n \in D : Min(H) = h[n]
  BY <1>2
<1>4. ASSUME NEW m \in D
      PROVE  ~ (h[m] < h[n])
  <2>1. h[n] <= h[m] /\ h[n] \in Nat /\ h[m] \in Nat
    BY <1>2, <1>3
  <2>2. QED
    BY <2>1
<1>5. QED
  BY <1>4

LEMMA RootIs ==
  ASSUME NEW u, NEW r, NEW o, NEW h, NEW B, Shape(u, r, o, h, B)
  PROVE  \A i \in Ids : Root(u, i) = r[i]
<1> DEFINE Step(f) == [n \in Ids |-> IF is_root(u, n) THEN n ELSE f[u[n].parent]]
           c == CHOOSE f : f = Step(f)
           D == {n \in Ids : c[n] # r[n]}
<1>1. r = Step(r)
  BY DEF Shape, Rooted, Hung
<1>2. c = Step(c)
  BY <1>1
<1>3. \A i \in Ids : Root(u, i) = c[i]
  BY DEF Root
<1> HIDE DEF c
<1>4. ASSUME D # {}
      PROVE  FALSE
  <2>1. PICK n \in D : \A m \in D : ~ (h[m] < h[n])
    BY <1>4, LowestNode DEF Shape
  <2>2. CASE is_root(u, n)
    BY <1>2, <2>2 DEF Shape, Rooted
  <2>3. CASE ~ is_root(u, n)
    <3>1. Hung(u, r, o, h, n)
      BY <2>3 DEF Shape
    <3>2. c[u[n].parent] = r[u[n].parent]
      BY <2>1, <3>1 DEF Hung
    <3>3. QED
      BY <1>2, <2>3, <3>1, <3>2 DEF Hung
  <2>4. QED
    BY <2>2, <2>3
<1>5. QED
  BY <1>3, <1>4

LEMMA OffsetIs ==
  ASSUME NEW u, NEW r, NEW o, NEW h, NEW B, Shape(u, r, o, h, B)
  PROVE  \A i \in Ids : Offset(u, i) = o[i]
<1> DEFINE Step(f) == [n \in Ids |-> IF is_root(u, n) THEN 0
                                     ELSE u[n].value + f[u[n].parent]]
           c == CHOOSE f : f = Step(f)
           D == {n \in Ids : c[n] # o[n]}
<1>1. o = Step(o)
  BY DEF Shape, Rooted, Hung
<1>2. c = Step(c)
  BY <1>1
<1>3. \A i \in Ids : Offset(u, i) = c[i]
  BY DEF Offset
<1> HIDE DEF c
<1>4. ASSUME D # {}
      PROVE  FALSE
  <2>1. PICK n \in D : \A m \in D : ~ (h[m] < h[n])
    BY <1>4, LowestNode DEF Shape
  <2>2. CASE is_root(u, n)
    BY <1>2, <2>2 DEF Shape, Rooted
  <2>3. CASE ~ is_root(u, n)
    <3>1. Hung(u, r, o, h, n)
      BY <2>3 DEF Shape
    <3>2. c[u[n].parent] = o[u[n].parent]
      BY <2>1, <3>1 DEF Hung
    <3>3. QED
      BY <1>2, <2>3, <3>1, <3>2 DEF Hung
  <2>4. QED
    BY <2>2, <2>3
<1>5. QED
  BY <1>3, <1>4

-----------------------------------------------------------------------------
(* A path with one node more in front.                                     *)
LEMMA LongerPath ==
  ASSUME NEW S, NEW n \in S, NEW q \in Seq(S)
  PROVE  /\ <<n>> \o q \in Seq(S) /\ Len(<<n>> \o q) = Len(q) + 1
         /\ (<<n>> \o q)[1] = n
         /\ \A j \in 1 .. Len(q) : (<<n>> \o q)[j + 1] = q[j]
<1> DEFINE l == <<n>>
<1>1. l \in Seq(S) /\ Len(l) = 1 /\ l[1] = n /\ Len(q) \in Nat
  BY LenProperties
<1> HIDE DEF l
<1>2. /\ l \o q \in Seq(S) /\ Len(l \o q) = Len(l) + Len(q)
      /\ \A i \in 1 .. Len(l) + Len(q) :
           (l \o q)[i] = IF i <= Len(l) THEN l[i] ELSE q[i - Len(l)]
  BY <1>1, ConcatProperties
<1>3. Len(l \o q) = Len(q) + 1 /\ (l \o q)[1] = n
  BY <1>1, <1>2
<1>4. ASSUME NEW j \in 1 .. Len(q)
      PROVE  (l \o q)[j + 1] = q[j]
  <2>1. j + 1 \in 1 .. 1 + Len(q) /\ ~ (j + 1 <= 1) /\ (j + 1) - 1 = j
    BY <1>1
  <2>2. QED
    BY <1>1, <1>2, <2>1
<1>5. l \o q \in Seq(S) /\ Len(l \o q) = Len(q) + 1 /\ (l \o q)[1] = n
      /\ \A j \in 1 .. Len(q) : (l \o q)[j + 1] = q[j]
  BY <1>2, <1>3, <1>4
<1>6. QED
  BY <1>5 DEF l

PathStep(u, p, D) ==
  [n \in D |-> IF is_root(u, n) THEN <<n>> ELSE <<n>> \o p[u[n].parent]]

LEMMA PathsExist ==
  ASSUME NEW u, NEW r, NEW o, NEW h, NEW B, Shape(u, r, o, h, B)
  PROVE  \E p : p = PathStep(u, p, Ids)
<1> DEFINE UpTo(k) == {n \in Ids : h[n] <= k}
           D == {k \in Nat : ~ \E p : p = PathStep(u, p, UpTo(k))}
<1>0. ASSUME NEW n \in Ids, ~ is_root(u, n)
      PROVE  /\ u[n].parent \in Ids /\ h[u[n].parent] < h[n]
             /\ h[n] \in Nat /\ h[u[n].parent] \in Nat
  BY <1>0 DEF Shape, Hung
<1>1. ASSUME D # {}
      PROVE  FALSE
  <2>1. PICK k \in Nat : k \in D /\ \A j \in D : k <= j
    <3>1. D \subseteq Nat
      OBVIOUS
    <3>2. QED
      BY <1>1, <3>1, MinProperties
  <2>2. CASE k = 0
    <3>1. \A n \in UpTo(0) : is_root(u, n)
      BY <1>0
    <3>2. DEFINE p == [n \in UpTo(0) |-> <<n>>]
    <3>3. p = PathStep(u, p, UpTo(0))
      <4> HIDE DEF UpTo
      <4>1. QED
        BY <3>1 DEF PathStep
    <3>4. QED
      BY <2>1, <2>2, <3>3
  <2>3. CASE k # 0
    <3>1. k - 1 \in Nat /\ k - 1 \notin D
      <4> HIDE DEF D
      <4>1. QED
        BY <2>1, <2>3
    <3>2. PICK p : p = PathStep(u, p, UpTo(k - 1))
      BY <3>1
    <3> DEFINE q == PathStep(u, p, UpTo(k))
    <3>3. ASSUME NEW n \in UpTo(k), ~ is_root(u, n)
          PROVE  u[n].parent \in UpTo(k - 1) /\ u[n].parent \in UpTo(k)
      BY <1>0, <3>3
    <3>4. ASSUME NEW n \in UpTo(k - 1)
          PROVE  p[n] = q[n]
      <4>1. n \in UpTo(k)
        BY <3>4 DEF Shape
      <4> HIDE DEF UpTo
      <4>2. p[n] = PathStep(u, p, UpTo(k - 1))[n]
        BY <3>2
      <4>3. QED
        BY <3>4, <4>1, <4>2 DEF PathStep
    <3>5. q = PathStep(u, q, UpTo(k))
      <4>1. \A n \in UpTo(k) : ~ is_root(u, n) => p[u[n].parent] = q[u[n].parent]
        BY <3>3, <3>4
      <4> HIDE DEF UpTo
      <4>2. PathStep(u, q, UpTo(k)) = PathStep(u, p, UpTo(k))
        <5> HIDE DEF q
        <5>1. QED
          BY <4>1 DEF PathStep
      <4>3. QED
        BY <4>2
    <3>6. \E f : f = PathStep(u, f, UpTo(k))
      BY <3>5
    <3>7. QED
      BY <2>1, <3>6
  <2>4. QED
    BY <2>2, <2>3
<1>2. B \in Nat /\ UpTo(B) = Ids
  BY DEF Shape
<1>3. QED
  BY <1>1, <1>2

(* A way from i to its root, the others on it being no roots.              *)
Way(u, r, i, q) ==
  /\ q \in Seq(Ids) /\ Len(q) \in Nat \ {0} /\ q[Len(q)] = r[i]
  /\ \A j \in 1 .. Len(q) - 1 : ~ is_root(u, q[j]) /\ r[q[j]] = r[i]

LEMMA PathIsWay ==
  ASSUME NEW u, NEW r, NEW o, NEW h, NEW B, Shape(u, r, o, h, B)
  PROVE  \A i \in Ids : Way(u, r, i, Path(u, i))
<1> DEFINE c == CHOOSE p : p = PathStep(u, p, Ids)
           D == {n \in Ids : ~ Way(u, r, n, c[n])}
<1>1. c = PathStep(u, c, Ids)
  BY PathsExist
<1>2. \A i \in Ids : Path(u, i) = c[i]
  BY DEF Path, PathStep
<1> HIDE DEF c
<1>3. ASSUME D # {}
      PROVE  FALSE
  <2>1. PICK n \in D : \A m \in D : ~ (h[m] < h[n])
    BY <1>3, LowestNode DEF Shape
  <2>2. CASE is_root(u, n)
    <3>1. c[n] = <<n>> /\ r[n] = n
      BY <1>1, <2>2 DEF PathStep, Shape, Rooted
    <3>2. Way(u, r, n, <<n>>)
      BY <3>1 DEF Way
    <3>3. QED
      BY <3>1, <3>2
  <2>3. CASE ~ is_root(u, n)
    <3>1. Hung(u, r, o, h, n)
      BY <2>3 DEF Shape
    <3>2. PICK m \in Ids : m = u[n].parent /\ r[n] = r[m] /\ Way(u, r, m, c[m])
      BY <2>1, <3>1 DEF Hung
    <3>3. c[n] = <<n>> \o c[m]
      BY <1>1, <2>3, <3>2 DEF PathStep
    <3>4. PICK q : q = c[m]
      OBVIOUS
    <3>5. Way(u, r, m, q)
      BY <3>2, <3>4
    <3>6. PICK w : w = <<n>> \o q
      OBVIOUS
    <3>7. /\ w \in Seq(Ids) /\ Len(w) = Len(q) + 1 /\ w[1] = n
          /\ \A j \in 1 .. Len(q) : w[j + 1] = q[j]
      BY <3>5, <3>6, LongerPath DEF Way
    <3>8. Way(u, r, n, w)
      <4>1. Len(w) \in Nat \ {0} /\ w[Len(w)] = r[n]
        BY <3>2, <3>5, <3>7 DEF Way
      <4>2. ASSUME NEW j \in 1 .. Len(w) - 1
            PROVE  ~ is_root(u, w[j]) /\ r[w[j]] = r[n]
        <5>1. CASE j = 1
          BY <2>3, <3>7, <5>1
        <5>2. CASE j # 1
          <6>1. /\ j - 1 \in 1 .. Len(q) - 1 /\ j - 1 \in 1 .. Len(q)
                /\ (j - 1) + 1 = j
            BY <3>5, <3>7, <5>2 DEF Way
          <6>2. w[j] = q[j - 1]
            BY <3>7, <6>1
          <6>3. QED
            BY <3>2, <3>5, <6>1, <6>2 DEF Way
        <5>3. QED
          BY <5>1, <5>2
      <4>3. QED
        BY <3>7, <4>1, <4>2 DEF Way
    <3>9. QED
      BY <3>3, <3>4, <3>6, <3>8
  <2>4. QED
    BY <2>2, <2>3
<1>4. QED
  BY <1>2, <1>3

-----------------------------------------------------------------------------
LEMMA FrontElements ==
  ASSUME NEW S, NEW q \in Seq(S), Len(q) \in Nat \ {0}
  PROVE  \A x \in ToSet(Front(q)) : \E j \in 1 .. Len(q) - 1 : x = q[j]
<1> DEFINE f == Front(q)
<1>1. \A i \in 1 .. Len(q) - 1 : q[i] \in S
  BY ElementOfSeq
<1>2. /\ SubSeq(q, 1, Len(q) - 1) \in Seq(S) /\ Len(SubSeq(q, 1, Len(q) - 1)) = Len(q) - 1
      /\ \A i \in 1 .. Len(q) - 1 : SubSeq(q, 1, Len(q) - 1)[i] = q[i]
  <2>1. PICK k \in Int : k = Len(q) - 1 /\ k >= 0 /\ k - 1 + 1 = k
    OBVIOUS
  <2>2. \A i \in 1 .. k : q[i] \in S
    BY <1>1, <2>1
  <2>3. /\ SubSeq(q, 1, k) \in Seq(S) /\ Len(SubSeq(q, 1, k)) = k
        /\ \A i \in 1 .. k : SubSeq(q, 1, k)[i] = q[i]
    BY <2>1, <2>2, SubSeqProperties
  <2>4. QED
    BY <2>1, <2>3
<1>3. /\ f \in Seq(S) /\ Len(f) = Len(q) - 1
      /\ \A i \in 1 .. Len(q) - 1 : f[i] = q[i]
  BY <1>2 DEF Front
<1> HIDE DEF f
<1>4. DOMAIN f = 1 .. Len(q) - 1
  BY <1>3
<1>5. \A x \in ToSet(f) : \E j \in 1 .. Len(q) - 1 : x = q[j]
  BY <1>3, <1>4 DEF ToSet
<1>6. QED
  BY <1>5 DEF f

(* The nodes that shrink moves are no roots, and it moves them to theirs.  *)
LEMMA MovedNodes ==
  ASSUME NEW u, NEW r, NEW o, NEW h, NEW B, Shape(u, r, o, h, B), NEW i \in Ids
  PROVE  /\ Last(Path(u, i)) = r[i]
         /\ \A n \in ToSet(Front(Path(u, i))) : n \in Ids /\ ~ is_root(u, n) /\ r[n] = r[i]
<1>1. PICK q : q = Path(u, i) /\ Way(u, r, i, q)
  BY PathIsWay
<1>2. Last(q) = r[i]
  BY <1>1 DEF Last, Way
<1>3. ASSUME NEW n \in ToSet(Front(q))
      PROVE  n \in Ids /\ ~ is_root(u, n) /\ r[n] = r[i]
  <2>1. PICK j \in 1 .. Len(q) - 1 : n = q[j]
    BY <1>1, FrontElements DEF Way
  <2>2. q[j] \in Ids
    BY <1>1, ElementOfSeq DEF Way
  <2>3. QED
    BY <1>1, <2>1, <2>2 DEF Way
<1>4. QED
  BY <1>1, <1>2, <1>3

(* What one call of find_assist changes of a node it moves.                *)
Shrunk(u, v, r, o, i, n) ==
  \/ v[n] = u[n]
  \/ /\ ~ is_root(u, n) /\ r[n] = r[i]
     /\ v[n].parent = r[i] /\ v[n].value = o[n]
     /\ v[n] \in Unode

LEMMA FindMoves ==
  ASSUME NEW u, NEW r, NEW o, NEW h, NEW B, Shape(u, r, o, h, B), NEW i \in Ids,
         NEW v, v = find_assist(u, i)
  PROVE  v \in [Ids -> Unode] /\ \A n \in Ids : Shrunk(u, v, r, o, i, n)
<1>1. PICK q : q = Path(u, i) /\ Way(u, r, i, q)
  BY PathIsWay
<1> DEFINE path == Path(u, i)
           F == ToSet(Front(path))
           Before(n) == LET j == CHOOSE j \in DOMAIN path : path[j] = n
                        IN  IF j = 1 THEN 0 ELSE u[path[j - 1]].sub_nodes
<1>2. Last(path) = r[i] /\ \A n \in F : n \in Ids /\ ~ is_root(u, n) /\ r[n] = r[i]
  BY MovedNodes
<1>3. v = [n \in Ids |-> IF n \in F
                         THEN [u[n] EXCEPT !.parent = Last(path), !.value = Offset(u, n),
                                           !.sub_nodes = @ - Before(n)]
                         ELSE u[n]]
  BY DEF find_assist, shrink
<1> HIDE DEF path
<1>4. ASSUME NEW n \in F
      PROVE  Before(n) \in Int
  <2>1. PICK m \in 1 .. Len(q) - 1 : n = q[m]
    BY <1>1, FrontElements DEF Way, path
  <2>2. DOMAIN q = 1 .. Len(q) /\ Len(q) \in Nat
    BY <1>1 DEF Way
  <2>3. PICK k : k = (CHOOSE j \in DOMAIN q : q[j] = n)
    OBVIOUS
  <2>4. k \in 1 .. Len(q)
    BY <2>1, <2>2, <2>3
  <2>0. Before(n) = IF k = 1 THEN 0 ELSE u[q[k - 1]].sub_nodes
    BY <1>1, <2>3 DEF path
  <2> HIDE DEF Before
  <2>5. CASE k = 1
    BY <2>0, <2>5
  <2>6. CASE k # 1
    <3>1. k - 1 \in 1 .. Len(q)
      BY <2>2, <2>4, <2>6
    <3>2. q[k - 1] \in Ids
      BY <1>1, <3>1, ElementOfSeq DEF Way
    <3>3. u[q[k - 1]].sub_nodes \in Int
      BY <3>2 DEF Shape, Unode
    <3>4. QED
      BY <2>0, <2>6, <3>3
  <2>7. QED
    BY <2>5, <2>6
<1> HIDE DEF F, Before
<1>5. ASSUME NEW n \in F
      PROVE  /\ v[n].parent = r[i] /\ v[n].value = o[n] /\ v[n] \in Unode
  <2>1. PICK b \in Int : b = Before(n)
    BY <1>4
  <2>2. n \in Ids /\ u[n] \in Unode /\ r[i] \in Ids /\ o[n] \in Int /\ Offset(u, n) = o[n]
    <3>1. \A m \in Ids : Offset(u, m) = o[m]
      BY OffsetIs
    <3>2. n \in Ids
      BY <1>2, <1>5
    <3>3. QED
      BY <3>1, <3>2 DEF Shape
  <2>3. v[n] = [u[n] EXCEPT !.parent = r[i], !.value = o[n], !.sub_nodes = @ - b]
    BY <1>2, <1>3, <1>5, <2>1, <2>2
  <2>4. PICK x \in Unode, y \in 0 .. K, z \in Int : x = u[n] /\ y = r[i] /\ z = o[n]
    BY <2>2, UnionFindAssumption DEF Ids
  <2>5. v[n] = [x EXCEPT !.parent = y, !.value = z, !.sub_nodes = @ - b]
    BY <2>3, <2>4
  <2>6. v[n] = [parent |-> y, value |-> z, union_value |-> x.union_value,
                sub_nodes |-> x.sub_nodes - b]
    BY <2>4, <2>5 DEF Unode
  <2>7. x.union_value \in Int /\ x.sub_nodes - b \in Int
    BY <2>4 DEF Unode
  <2>8. v[n] \in Unode
    BY <2>4, <2>6, <2>7 DEF Unode
  <2>9. QED
    BY <2>4, <2>6, <2>8
<1>6. ASSUME NEW n \in Ids
      PROVE  Shrunk(u, v, r, o, i, n)
  BY <1>2, <1>3, <1>5 DEF Shrunk
<1>7. \A n \in Ids : v[n] \in Unode
  BY <1>6 DEF Shrunk, Shape
<1>8. v = [n \in Ids |-> v[n]]
  BY <1>3
<1>9. QED
  BY <1>6, <1>7, <1>8

(* find_assist leaves every root, and the root and offset of every node.   *)
LEMMA FindKeeps ==
  ASSUME NEW u, NEW r, NEW o, NEW h, NEW B, Shape(u, r, o, h, B), NEW i \in Ids
  PROVE  /\ Shape(find_assist(u, i), r, o, h, B)
         /\ \A n \in Ids : is_root(u, n) => find_assist(u, i)[n] = u[n]
<1>1. PICK v : v = find_assist(u, i)
  OBVIOUS
<1>2. v \in [Ids -> Unode] /\ \A n \in Ids : Shrunk(u, v, r, o, i, n)
  BY <1>1, FindMoves
<1>3. \A n \in Ids : is_root(u, n) => v[n] = u[n]
  BY <1>2 DEF Shrunk
<1>6. /\ r[i] \in Ids /\ r[r[i]] = r[i] /\ o[r[i]] = 0 /\ 0 \notin Ids
  BY DEF Shape, Rooted, Ids
<1>7. ASSUME NEW n \in Ids
      PROVE  /\ is_root(v, n) <=> is_root(u, n)
             /\ IF is_root(v, n) THEN Rooted(v, r, o, n) ELSE Hung(v, r, o, h, n)
  <2>1. CASE v[n] = u[n]
    BY <2>1 DEF is_root, Shape, Rooted, Hung
  <2>2. CASE v[n] # u[n]
    <3>1. ~ is_root(u, n) /\ r[n] = r[i] /\ v[n].parent = r[i] /\ v[n].value = o[n]
      BY <1>2, <2>2 DEF Shrunk
    <3>2. ~ is_root(v, n)
      BY <1>6, <3>1 DEF is_root
    <3>3. h[r[n]] < h[n] /\ o[n] \in Int
      BY <3>1 DEF Shape, Hung
    <3>4. Hung(v, r, o, h, n)
      BY <1>6, <3>1, <3>3 DEF Hung
    <3>5. QED
      BY <3>1, <3>2, <3>4
  <2>3. QED
    BY <2>1, <2>2
<1>8. \A n \in Ids : is_root(v, r[n])
  BY <1>7 DEF Shape
<1>9. Shape(v, r, o, h, B)
  BY <1>2, <1>7, <1>8 DEF Shape
<1>10. QED
  BY <1>1, <1>3, <1>9

-----------------------------------------------------------------------------
(* What a union of two roots leaves: lose hangs from win, the values of    *)
(* the two nodes make first's group gain and second's keep its values.     *)
Hooked(u, v, win, lose) ==
  /\ win # lose /\ v \in [Ids -> Unode]
  /\ v[lose].parent = win /\ v[win].parent = 0
  /\ \A n \in Ids \ {win, lose} : v[n] = u[n]

Balanced(u, v, win, lose, first, gain) ==
  /\ v[win].union_value = u[first].union_value + gain
  /\ v[win].value = u[win].value + IF win = first THEN gain ELSE 0
  /\ v[lose].value + v[win].value = u[lose].value + IF lose = first THEN gain ELSE 0

Weighed(u, v, win, lose) ==
  /\ u[lose].sub_nodes <= u[win].sub_nodes
  /\ v[win].sub_nodes = u[win].sub_nodes + u[lose].sub_nodes
  /\ v[lose].sub_nodes = u[lose].sub_nodes

LEMMA UnionMerges ==
  ASSUME NEW u \in [Ids -> Unode], NEW first \in Ids, NEW second \in Ids, first # second,
         is_root(u, first), is_root(u, second), NEW factor \in Int, NEW gain,
         gain = factor * u[second].union_value
  PROVE  LET v == UnionRoots(u, first, second, factor) IN
         \/ Hooked(u, v, first, second) /\ Balanced(u, v, first, second, first, gain)
            /\ Weighed(u, v, first, second)
         \/ Hooked(u, v, second, first) /\ Balanced(u, v, second, first, first, gain)
            /\ Weighed(u, v, second, first)
<1>1. PICK x \in Unode, y \in Unode : x = u[first] /\ y = u[second]
  OBVIOUS
<1>2. x.parent = 0 /\ y.parent = 0 /\ first \in 0 .. K /\ second \in 0 .. K
  BY <1>1, UnionFindAssumption DEF is_root, Ids
<1>3. gain \in Int
  <2>1. PICK w \in Int : w = u[second].union_value
    BY <1>1 DEF Unode
  <2>2. factor * w \in Int
    OBVIOUS
  <2>3. QED
    BY <2>1, <2>2
<1>4. /\ x.value \in Int /\ x.union_value \in Int /\ x.sub_nodes \in Int
      /\ y.value \in Int /\ y.union_value \in Int /\ y.sub_nodes \in Int
  BY DEF Unode
<1>5. PICK v : v = UnionRoots(u, first, second, factor)
  OBVIOUS
<1>6. CASE u[first].sub_nodes >= u[second].sub_nodes
  <2>1. v = [mergeTrees(u, first, second) EXCEPT
               ![first].value = @ + gain,
               ![second].value = @ - (u[first].value + gain),
               ![first].union_value = u[first].union_value + gain]
    BY <1>5, <1>6 DEF UnionRoots
  <2> DEFINE m == mergeTrees(u, first, second)
  <2>2. m \in [Ids -> Unode] /\ m[first].value = x.value /\ m[second].value = y.value
        /\ m[first].parent = 0 /\ m[second].parent = first
        /\ m[first].sub_nodes = u[first].sub_nodes + u[second].sub_nodes
        /\ m[second].sub_nodes = u[second].sub_nodes
        /\ \A n \in Ids \ {first, second} : m[n] = u[n]
    BY <1>1, <1>2, <1>4, SMTT(30) DEF mergeTrees, Unode
  <2> HIDE DEF m
  <2>3. \A n \in Ids \ {first, second} : v[n] = u[n]
    BY <2>1, <2>2 DEF m
  <2>4. v = [n \in Ids |-> v[n]]
    BY <2>1, <2>2 DEF m
  <2>5. v[first] = [m[first] EXCEPT !.value = @ + gain,
                                    !.union_value = u[first].union_value + gain]
    BY <2>1, <2>2 DEF m
  <2>6. v[second] = [m[second] EXCEPT !.value = @ - (u[first].value + gain)]
    BY <2>1, <2>2 DEF m
  <2>7. PICK a \in Unode, b \in Unode : a = m[first] /\ b = m[second]
    BY <2>2
  <2>8. v[first] = [parent |-> 0, value |-> x.value + gain,
                    union_value |-> x.union_value + gain, sub_nodes |-> a.sub_nodes]
    <3>1. v[first] = [a EXCEPT !.value = @ + gain, !.union_value = x.union_value + gain]
      BY <1>1, <2>5, <2>7
    <3>2. a.value = x.value /\ a.parent = 0
      BY <2>2, <2>7
    <3>3. QED
      BY <3>1, <3>2 DEF Unode
  <2>9. v[second] = [parent |-> first, value |-> y.value - (x.value + gain),
                     union_value |-> b.union_value, sub_nodes |-> b.sub_nodes]
    BY <1>1, <2>2, <2>6, <2>7 DEF Unode
  <2>10. v[first] \in Unode /\ v[second] \in Unode
    BY <1>2, <1>3, <1>4, <2>7, <2>8, <2>9 DEF Unode
  <2>11. \A n \in Ids : v[n] \in Unode
    BY <2>3, <2>10
  <2>12. v \in [Ids -> Unode]
    BY <2>4, <2>11
  <2>13. Hooked(u, v, first, second)
    BY <2>3, <2>8, <2>9, <2>12 DEF Hooked
  <2>14. Balanced(u, v, first, second, first, gain)
    BY <1>1, <1>3, <1>4, <2>8, <2>9 DEF Balanced
  <2>15. Weighed(u, v, first, second)
    BY <1>1, <1>4, <1>6, <2>2, <2>7, <2>8, <2>9 DEF Weighed
  <2>16. QED
    BY <1>5, <2>13, <2>14, <2>15
<1>7. CASE ~ (u[first].sub_nodes >= u[second].sub_nodes)
  <2>1. v = [mergeTrees(u, second, first) EXCEPT
               ![first].value = @ + gain - u[second].value,
               ![second].union_value = u[first].union_value + gain]
    BY <1>5, <1>7 DEF UnionRoots
  <2> DEFINE m == mergeTrees(u, second, first)
  <2>2. m \in [Ids -> Unode] /\ m[first].value = x.value /\ m[second].value = y.value
        /\ m[second].parent = 0 /\ m[first].parent = second
        /\ m[second].sub_nodes = u[second].sub_nodes + u[first].sub_nodes
        /\ m[first].sub_nodes = u[first].sub_nodes
        /\ \A n \in Ids \ {first, second} : m[n] = u[n]
    BY <1>1, <1>2, <1>4, SMTT(30) DEF mergeTrees, Unode
  <2> HIDE DEF m
  <2>3. \A n \in Ids \ {first, second} : v[n] = u[n]
    BY <2>1, <2>2 DEF m
  <2>4. v = [n \in Ids |-> v[n]]
    BY <2>1, <2>2 DEF m
  <2>5. v[first] = [m[first] EXCEPT !.value = @ + gain - u[second].value]
    BY <2>1, <2>2 DEF m
  <2>6. v[second] = [m[second] EXCEPT !.union_value = u[first].union_value + gain]
    BY <2>1, <2>2 DEF m
  <2>7. PICK a \in Unode, b \in Unode : a = m[first] /\ b = m[second]
    BY <2>2
  <2>8. v[first] = [parent |-> second, value |-> x.value + gain - y.value,
                    union_value |-> a.union_value, sub_nodes |-> a.sub_nodes]
    BY <1>1, <2>2, <2>5, <2>7 DEF Unode
  <2>9. v[second] = [parent |-> 0, value |-> y.value,
                     union_value |-> x.union_value + gain, sub_nodes |-> b.sub_nodes]
    BY <1>1, <2>2, <2>6, <2>7 DEF Unode
  <2>10. v[first] \in Unode /\ v[second] \in Unode
    BY <1>2, <1>3, <1>4, <2>7, <2>8, <2>9 DEF Unode
  <2>11. \A n \in Ids : v[n] \in Unode
    BY <2>3, <2>10
  <2>12. v \in [Ids -> Unode]
    BY <2>4, <2>11
  <2>13. Hooked(u, v, second, first)
    BY <2>3, <2>8, <2>9, <2>12 DEF Hooked
  <2>14. Balanced(u, v, second, first, first, gain)
    BY <1>1, <1>3, <1>4, <2>8, <2>9 DEF Balanced
  <2>15. Weighed(u, v, second, first)
    BY <1>1, <1>4, <1>7, <2>2, <2>7, <2>8, <2>9 DEF Weighed
  <2>16. QED
    BY <1>5, <2>13, <2>14, <2>15
<1>8. QED
  BY <1>6, <1>7

(* The roots, offsets and heights that hooking lose on win gives.          *)
HookedRoots(r, win, lose) == [n \in Ids |-> IF r[n] = lose THEN win ELSE r[n]]

HookedOffsets(r, o, v, lose) ==
  [n \in Ids |-> IF r[n] = lose THEN o[n] + v[lose].value ELSE o[n]]

HookedHeights(r, h, lose, B) ==
  [n \in Ids |-> IF r[n] = lose THEN h[n] + B + 1 ELSE h[n]]

LEMMA ShapeOfHooked ==
  ASSUME NEW u, NEW r, NEW o, NEW h, NEW B, Shape(u, r, o, h, B),
         NEW win \in Ids, NEW lose \in Ids, is_root(u, win), is_root(u, lose),
         NEW v, Hooked(u, v, win, lose)
  PROVE  Shape(v, HookedRoots(r, win, lose), HookedOffsets(r, o, v, lose),
               HookedHeights(r, h, lose, B), 2 * B + 1)
<1>1. PICK r2, o2, h2 : /\ r2 = HookedRoots(r, win, lose)
                        /\ o2 = HookedOffsets(r, o, v, lose)
                        /\ h2 = HookedHeights(r, h, lose, B)
  OBVIOUS
<1>2. PICK s \in Int : s = v[lose].value
  BY DEF Hooked, Unode
<1>3. \A n \in Ids : /\ r2[n] = IF r[n] = lose THEN win ELSE r[n]
                     /\ o2[n] = IF r[n] = lose THEN o[n] + s ELSE o[n]
                     /\ h2[n] = IF r[n] = lose THEN h[n] + B + 1 ELSE h[n]
  BY <1>1, <1>2 DEF HookedRoots, HookedOffsets, HookedHeights
<1>4. \A n \in Ids : h[n] \in 0 .. B /\ B \in Nat /\ o[n] \in Int /\ r[n] \in Ids
  BY DEF Shape
<1>5. 2 * B + 1 \in Nat /\ h2 \in [Ids -> 0 .. 2 * B + 1]
  <2>1. \A n \in Ids : h2[n] \in 0 .. 2 * B + 1
    BY <1>3, <1>4
  <2>2. h2 = [n \in Ids |-> h2[n]]
    BY <1>1 DEF HookedHeights
  <2>3. B \in Nat
    BY DEF Shape
  <2>4. QED
    BY <2>1, <2>2, <2>3
<1>6. r2 \in [Ids -> Ids] /\ o2 \in [Ids -> Int]
  <2>1. \A n \in Ids : r2[n] \in Ids /\ o2[n] \in Int
    BY <1>3, <1>4
  <2>2. r2 = [n \in Ids |-> r2[n]] /\ o2 = [n \in Ids |-> o2[n]]
    BY <1>1 DEF HookedRoots, HookedOffsets
  <2>3. QED
    BY <2>1, <2>2
<1>7. /\ win # lose /\ r[win] = win /\ r[lose] = lose /\ o[win] = 0 /\ o[lose] = 0
      /\ 0 \notin Ids
  BY DEF Hooked, Shape, Rooted, Ids
<1>8. \A n \in Ids \ {lose} : v[n].parent = u[n].parent /\ (n # win => v[n] = u[n])
  BY DEF Hooked, is_root
<1>9. \A n \in Ids : is_root(v, n) <=> n # lose /\ is_root(u, n)
  BY <1>7, <1>8 DEF Hooked, is_root
<1>10. \A n \in Ids : is_root(v, r2[n])
  <2>1. \A n \in Ids : is_root(u, r[n])
    BY DEF Shape
  <2>2. QED
    BY <1>3, <1>4, <1>7, <1>9, <2>1
<1>11. ASSUME NEW n \in Ids, is_root(v, n)
       PROVE  Rooted(v, r2, o2, n)
  <2>1. n # lose /\ r[n] = n /\ o[n] = 0
    BY <1>9, <1>11 DEF Shape, Rooted
  <2>2. QED
    BY <1>3, <2>1 DEF Rooted
<1>12. ASSUME NEW n \in Ids, ~ is_root(v, n)
       PROVE  Hung(v, r2, o2, h2, n)
  <2>1. CASE n = lose
    <3>1. h2[win] = h[win] /\ h2[lose] = h[lose] + B + 1 /\ r2[win] = win /\ r2[lose] = win
          /\ o2[win] = 0 /\ o2[lose] = 0 + s
      BY <1>3, <1>7
    <3>2. h2[win] < h2[lose] /\ o2[lose] = s + 0
      BY <1>2, <1>4, <3>1
    <3>3. v[lose].parent = win
      BY DEF Hooked
    <3>4. QED
      BY <1>2, <2>1, <3>1, <3>2, <3>3 DEF Hung
  <2>2. CASE n # lose
    <3>1. ~ is_root(u, n) /\ n # win
      BY <1>9, <1>12, <2>2
    <3>2. v[n] = u[n] /\ Hung(u, r, o, h, n)
      BY <1>8, <2>2, <3>1 DEF Shape
    <3>3. PICK m \in Ids : /\ m = u[n].parent /\ h[m] < h[n] /\ r[n] = r[m]
                           /\ o[n] = u[n].value + o[m] /\ h[r[n]] < h[n]
      BY <3>2 DEF Hung
    <3>4. u[n].value \in Int
      BY DEF Shape, Unode
    <3>5. h2[m] < h2[n] /\ r2[n] = r2[m]
      BY <1>3, <1>4, <3>3
    <3>6. o2[n] = u[n].value + o2[m]
      <4>1. PICK a \in Int : a = u[n].value
        BY <3>4
      <4>2. CASE r[n] = lose
        <5>1. o2[n] = o[n] + s /\ o2[m] = o[m] + s
          BY <1>3, <3>3, <4>2
        <5>2. QED
          BY <1>2, <1>4, <3>3, <4>1, <5>1
      <4>3. CASE r[n] # lose
        BY <1>3, <3>3, <4>3
      <4>4. QED
        BY <4>2, <4>3
    <3>7. h2[r2[n]] < h2[n]
      <4>1. CASE r[n] = lose
        <5>1. h2[r2[n]] = h[win] /\ h2[n] = h[n] + B + 1
          BY <1>3, <1>7, <4>1
        <5>2. QED
          BY <1>4, <5>1
      <4>2. CASE r[n] # lose
        <5>1. r[r[n]] = r[n]
          BY DEF Shape, Rooted
        <5>2. h2[r2[n]] = h[r[n]] /\ h2[n] = h[n]
          BY <1>3, <1>4, <4>2, <5>1
        <5>3. QED
          BY <3>3, <5>2
      <4>3. QED
        BY <4>1, <4>2
    <3>8. QED
      BY <3>2, <3>3, <3>5, <3>6, <3>7 DEF Hung
  <2>3. QED
    BY <2>1, <2>2
<1>13. Shape(v, r2, o2, h2, 2 * B + 1)
  BY <1>5, <1>6, <1>10, <1>11, <1>12 DEF Shape, Hooked
<1>14. QED
  BY <1>1, <1>13

-----------------------------------------------------------------------------
Forest(u) == \E r, o, h, B : Shape(u, r, o, h, B)

(* v says of every company what u says: its root, its value, and what its  *)
(* group is worth.                                                         *)
Alike(u, v) ==
  /\ \A n \in Ids : Root(v, n) = Root(u, n) /\ CompanyValue(v, n) = CompanyValue(u, n)
  /\ \A n \in Ids : is_root(v, n) <=> is_root(u, n)
  /\ \A n \in Ids : is_root(u, n) => v[n] = u[n]

(* A company's root is one, and its value is that of its way and its root. *)
LEMMA ForestRoots ==
  ASSUME NEW u, Forest(u), NEW n \in Ids
  PROVE  /\ Root(u, n) \in Ids /\ is_root(u, Root(u, n))
         /\ CompanyValue(u, n) \in Int
         /\ u[n] \in Unode
         /\ is_root(u, n) <=> Root(u, n) = n
<1>1. PICK r, o, h, B : Shape(u, r, o, h, B)
  BY DEF Forest
<1>2. Root(u, n) = r[n] /\ Offset(u, n) = o[n]
  BY <1>1, RootIs, OffsetIs
<1>3. r[n] \in Ids /\ is_root(u, r[n]) /\ o[n] \in Int /\ u[r[n]] \in Unode /\ u[n] \in Unode
  BY <1>1 DEF Shape
<1>4. u[r[n]].value \in Int
  BY <1>3 DEF Unode
<1>5. CompanyValue(u, n) \in Int
  <2>1. CompanyValue(u, n) = o[n] + u[r[n]].value
    BY <1>2 DEF CompanyValue
  <2>2. QED
    BY <1>3, <1>4, <2>1
<1>6. is_root(u, n) <=> r[n] = n
  BY <1>1 DEF Shape, Rooted
<1>7. QED
  BY <1>2, <1>3, <1>5, <1>6

LEMMA SameShape ==
  ASSUME NEW u, NEW v, NEW r, NEW o, NEW h, NEW B, Shape(u, r, o, h, B),
         Shape(v, r, o, h, B), \A n \in Ids : is_root(u, n) => v[n] = u[n]
  PROVE  Alike(u, v)
<1>1. \A n \in Ids : Root(v, n) = Root(u, n) /\ Root(u, n) = r[n]
  <2>1. \A n \in Ids : Root(v, n) = r[n]
    BY RootIs
  <2>2. \A n \in Ids : Root(u, n) = r[n]
    BY RootIs
  <2>3. QED
    BY <2>1, <2>2
<1>2. \A n \in Ids : Offset(v, n) = Offset(u, n)
  <2>1. \A n \in Ids : Offset(v, n) = o[n]
    BY OffsetIs
  <2>2. \A n \in Ids : Offset(u, n) = o[n]
    BY OffsetIs
  <2>3. QED
    BY <2>1, <2>2
<1>3. \A n \in Ids : v[r[n]] = u[r[n]]
  BY DEF Shape
<1>4. \A n \in Ids : CompanyValue(v, n) = CompanyValue(u, n)
  BY <1>1, <1>2, <1>3 DEF CompanyValue
<1>5. \A n \in Ids : is_root(v, n) <=> is_root(u, n)
  BY DEF Shape, Rooted
<1>6. QED
  BY <1>1, <1>4, <1>5 DEF Alike

LEMMA FindAlike ==
  ASSUME NEW u, Forest(u), NEW i \in Ids
  PROVE  Forest(find_assist(u, i)) /\ Alike(u, find_assist(u, i))
<1>1. PICK r, o, h, B : Shape(u, r, o, h, B)
  BY DEF Forest
<1>2. /\ Shape(find_assist(u, i), r, o, h, B)
      /\ \A n \in Ids : is_root(u, n) => find_assist(u, i)[n] = u[n]
  BY <1>1, FindKeeps
<1>3. PICK v : v = find_assist(u, i)
  OBVIOUS
<1>4. Alike(u, v)
  BY <1>1, <1>2, <1>3, SameShape
<1>5. QED
  BY <1>2, <1>3, <1>4 DEF Forest

(* Of two groups, v has made one: win is its root, first's companies have  *)
(* gained, all others keep their values, and all other groups are as in u. *)
Joined(u, v, win, lose, first, second, gain) ==
  /\ win # lose /\ {win, lose} = {first, second} /\ gain \in Int
  /\ \A n \in Ids : Root(v, n) = IF Root(u, n) = lose THEN win ELSE Root(u, n)
  /\ \A n \in Ids : CompanyValue(v, n) =
                      CompanyValue(u, n) + IF Root(u, n) = first THEN gain ELSE 0
  /\ \A n \in Ids : is_root(v, n) <=> n # lose /\ is_root(u, n)
  /\ v[win].union_value = u[first].union_value + gain
  /\ \A n \in Ids \ {win, lose} : is_root(u, n) => v[n] = u[n]

LEMMA RootsJoin ==
  ASSUME NEW u, Forest(u), NEW first \in Ids, NEW second \in Ids, first # second,
         is_root(u, first), is_root(u, second), NEW factor \in Int, NEW gain,
         gain = factor * u[second].union_value
  PROVE  LET v == UnionRoots(u, first, second, factor) IN
         Forest(v) /\ \E win, lose \in Ids : Joined(u, v, win, lose, first, second, gain)
<1>1. PICK r, o, h, B : Shape(u, r, o, h, B)
  BY DEF Forest
<1>2. PICK v : v = UnionRoots(u, first, second, factor)
  OBVIOUS
<1>3. gain \in Int
  <2>1. u[second].union_value \in Int
    BY <1>1 DEF Shape, Unode
  <2>2. PICK w \in Int : w = u[second].union_value
    BY <2>1
  <2>3. factor * w \in Int
    OBVIOUS
  <2>4. QED
    BY <2>2, <2>3
<1>4. PICK win \in {first, second}, lose \in {first, second} :
        Hooked(u, v, win, lose) /\ Balanced(u, v, win, lose, first, gain)
  <2>1. u \in [Ids -> Unode]
    BY <1>1 DEF Shape
  <2>2. \/ Hooked(u, v, first, second) /\ Balanced(u, v, first, second, first, gain)
        \/ Hooked(u, v, second, first) /\ Balanced(u, v, second, first, first, gain)
    BY <1>2, <2>1, UnionMerges
  <2>3. QED
    BY <2>2
<1>5. win \in Ids /\ lose \in Ids /\ is_root(u, win) /\ is_root(u, lose) /\ win # lose
  BY <1>4 DEF Hooked
<1>6. PICK r2, o2, h2 : /\ r2 = HookedRoots(r, win, lose)
                        /\ o2 = HookedOffsets(r, o, v, lose)
                        /\ h2 = HookedHeights(r, h, lose, B)
  OBVIOUS
<1>7. Shape(v, r2, o2, h2, 2 * B + 1)
  BY <1>1, <1>4, <1>5, <1>6, ShapeOfHooked
<1>8. Forest(v)
  BY <1>7 DEF Forest
<1>9. \A n \in Ids : Root(u, n) = r[n] /\ Offset(u, n) = o[n]
  <2>1. \A n \in Ids : Root(u, n) = r[n]
    BY <1>1, RootIs
  <2>2. \A n \in Ids : Offset(u, n) = o[n]
    BY <1>1, OffsetIs
  <2>3. QED
    BY <2>1, <2>2
<1>10. \A n \in Ids : Root(v, n) = r2[n] /\ Offset(v, n) = o2[n]
  <2>1. \A n \in Ids : Root(v, n) = r2[n]
    BY <1>7, RootIs
  <2>2. \A n \in Ids : Offset(v, n) = o2[n]
    BY <1>7, OffsetIs
  <2>3. QED
    BY <2>1, <2>2
<1>11. \A n \in Ids : Root(v, n) = IF Root(u, n) = lose THEN win ELSE Root(u, n)
  BY <1>6, <1>9, <1>10 DEF HookedRoots
<1>12. PICK s \in Int, w \in Int, x \in Int, y \in Int :
         /\ s = v[lose].value /\ w = v[win].value /\ x = u[lose].value /\ y = u[win].value
  <2>1. v[lose] \in Unode /\ v[win] \in Unode /\ u[lose] \in Unode /\ u[win] \in Unode
    BY <1>1, <1>4, <1>5 DEF Shape, Hooked
  <2>2. QED
    BY <2>1 DEF Unode
<1>13. /\ w = y + IF win = first THEN gain ELSE 0
       /\ s + w = x + IF lose = first THEN gain ELSE 0
  BY <1>4, <1>12 DEF Balanced
<1>14. ASSUME NEW n \in Ids
       PROVE  CompanyValue(v, n) =
                CompanyValue(u, n) + IF Root(u, n) = first THEN gain ELSE 0
  <2>1. CompanyValue(v, n) = o2[n] + v[r2[n]].value
    BY <1>10 DEF CompanyValue
  <2>2. CompanyValue(u, n) = o[n] + u[r[n]].value
    BY <1>9 DEF CompanyValue
  <2>3. r2[n] = IF r[n] = lose THEN win ELSE r[n]
    BY <1>6 DEF HookedRoots
  <2>4. o2[n] = IF r[n] = lose THEN o[n] + s ELSE o[n]
    BY <1>6, <1>12 DEF HookedOffsets
  <2>5. PICK k \in Int : k = o[n]
    BY <1>1 DEF Shape
  <2>6. Root(u, n) = r[n]
    BY <1>9
  <2>7. CASE r[n] = lose
    <3>1. CompanyValue(v, n) = (k + s) + w /\ CompanyValue(u, n) = k + x
      BY <1>12, <2>1, <2>2, <2>3, <2>4, <2>5, <2>7
    <3>2. CASE lose = first
      <4>1. PICK g \in Int : g = gain
        BY <1>3
      <4>2. s + w = x + g /\ Root(u, n) = first
        BY <1>13, <2>6, <2>7, <3>2, <4>1
      <4>3. CompanyValue(v, n) = CompanyValue(u, n) + g
        BY <3>1, <4>2
      <4>4. QED
        BY <4>1, <4>2, <4>3
    <3>3. CASE lose # first
      BY <1>13, <2>6, <2>7, <3>1, <3>3
    <3>4. QED
      BY <3>2, <3>3
  <2>8. CASE r[n] = win
    <3>1. CompanyValue(v, n) = k + w /\ CompanyValue(u, n) = k + y
      <4>1. r2[n] = win /\ o2[n] = o[n]
        BY <1>5, <2>3, <2>4, <2>8
      <4>2. QED
        BY <1>12, <2>1, <2>2, <2>5, <2>8, <4>1
    <3>2. CASE win = first
      <4>1. PICK g \in Int : g = gain
        BY <1>3
      <4>2. w = y + g /\ Root(u, n) = first
        BY <1>13, <2>6, <2>8, <3>2, <4>1
      <4>3. CompanyValue(v, n) = CompanyValue(u, n) + g
        BY <3>1, <4>2
      <4>4. QED
        BY <4>1, <4>2, <4>3
    <3>3. CASE win # first
      BY <1>13, <2>6, <2>8, <3>1, <3>3
    <3>4. QED
      BY <3>2, <3>3
  <2>9. CASE r[n] \notin {win, lose}
    <3>1. r[n] \in Ids /\ r[n] # first
      BY <1>1, <1>4, <1>5, <2>9 DEF Shape
    <3>2. v[r[n]] = u[r[n]]
      BY <1>4, <2>9, <3>1 DEF Hooked
    <3>3. CompanyValue(v, n) = CompanyValue(u, n) /\ CompanyValue(u, n) \in Int
      <4>1. CompanyValue(v, n) = CompanyValue(u, n)
        BY <2>1, <2>2, <2>3, <2>4, <2>9, <3>2
      <4>2. QED
        BY <4>1, ForestRoots
    <3>4. QED
      BY <2>6, <3>1, <3>3
  <2>10. QED
    BY <2>7, <2>8, <2>9
<1>15. \A n \in Ids : is_root(v, n) <=> n # lose /\ is_root(u, n)
  <2>1. \A n \in Ids : is_root(v, n) <=> Root(v, n) = n
    BY <1>8, ForestRoots
  <2>2. \A n \in Ids : is_root(u, n) <=> Root(u, n) = n
    BY ForestRoots
  <2>3. QED
    BY <1>5, <1>11, <2>1, <2>2
<1>16. \A n \in Ids \ {win, lose} : is_root(u, n) => v[n] = u[n]
  BY <1>4 DEF Hooked
<1>17. v[win].union_value = u[first].union_value + gain
  BY <1>4 DEF Balanced
<1>18. Joined(u, v, win, lose, first, second, gain)
  <2>1. {win, lose} = {first, second}
    BY <1>4, <1>5
  <2>2. QED
    BY <1>3, <1>5, <1>11, <1>14, <1>15, <1>16, <1>17, <2>1 DEF Joined
<1>19. QED
  BY <1>2, <1>5, <1>8, <1>18

LEMMA AlikeTwice ==
  ASSUME NEW u, NEW v, NEW w, Alike(u, v), Alike(v, w)
  PROVE  Alike(u, w)
BY DEF Alike

LEMMA BothFound ==
  ASSUME NEW u, Forest(u), NEW a \in Ids, NEW t \in Ids
  PROVE  LET found == find_assist(find_assist(u, a), t) IN Forest(found) /\ Alike(u, found)
<1>1. PICK x : x = find_assist(u, a)
  OBVIOUS
<1>2. PICK y : y = find_assist(x, t)
  OBVIOUS
<1>3. Forest(x) /\ Alike(u, x)
  BY <1>1, FindAlike
<1>4. Forest(y) /\ Alike(x, y)
  BY <1>2, <1>3, FindAlike
<1>5. Alike(u, y)
  BY <1>3, <1>4, AlikeTwice
<1>6. QED
  BY <1>1, <1>2, <1>4, <1>5

LEMMA UnionInGroup ==
  ASSUME NEW u, Forest(u), NEW a \in Ids, NEW t \in Ids, NEW factor \in Int,
         Root(u, a) = Root(u, t)
  PROVE  Forest(Union(u, a, t, factor)) /\ Alike(u, Union(u, a, t, factor))
BY BothFound DEF Union

LEMMA UnionJoins ==
  ASSUME NEW u, Forest(u), NEW a \in Ids, NEW t \in Ids, NEW factor \in Int,
         Root(u, a) # Root(u, t), NEW v, v = Union(u, a, t, factor)
  PROVE  /\ Forest(v)
         /\ \E win, lose \in Ids :
              Joined(u, v, win, lose, Root(u, a), Root(u, t),
                     factor * u[Root(u, t)].union_value)
<1>1. PICK f : f = find_assist(find_assist(u, a), t)
  OBVIOUS
<1>2. Forest(f) /\ Alike(u, f)
  BY <1>1, BothFound
<1>3. PICK first \in Ids, second \in Ids :
        /\ first = Root(u, a) /\ second = Root(u, t)
        /\ is_root(u, first) /\ is_root(u, second)
  BY ForestRoots
<1>4. f[first] = u[first] /\ f[second] = u[second] /\ is_root(f, first) /\ is_root(f, second)
  BY <1>2, <1>3 DEF Alike
<1>5. v = UnionRoots(f, first, second, factor)
  BY <1>1, <1>3 DEF Union
<1>6. PICK gain : gain = factor * f[second].union_value
  OBVIOUS
<1>7. Forest(v) /\ \E win, lose \in Ids : Joined(f, v, win, lose, first, second, gain)
  BY <1>2, <1>3, <1>4, <1>5, <1>6, RootsJoin
<1>8. PICK win \in Ids, lose \in Ids : Joined(f, v, win, lose, first, second, gain)
  BY <1>7
<1>9. Joined(u, v, win, lose, first, second, gain)
  <2>1. /\ \A n \in Ids : Root(v, n) = IF Root(u, n) = lose THEN win ELSE Root(u, n)
        /\ \A n \in Ids : CompanyValue(v, n) =
                            CompanyValue(u, n) + IF Root(u, n) = first THEN gain ELSE 0
        /\ \A n \in Ids : is_root(v, n) <=> n # lose /\ is_root(u, n)
    BY <1>2, <1>8 DEF Joined, Alike
  <2>2. /\ v[win].union_value = u[first].union_value + gain
        /\ \A n \in Ids \ {win, lose} : is_root(u, n) => v[n] = u[n]
    <3>1. ASSUME NEW n \in Ids \ {win, lose}, is_root(u, n)
          PROVE  v[n] = u[n]
      BY <1>2, <1>8, <3>1 DEF Joined, Alike
    <3>2. v[win].union_value = u[first].union_value + gain
      BY <1>4, <1>8 DEF Joined
    <3>3. QED
      BY <3>1, <3>2
  <2>3. win # lose /\ {win, lose} = {first, second} /\ gain \in Int
    BY <1>8 DEF Joined
  <2>4. QED
    BY <2>1, <2>2, <2>3 DEF Joined
<1>10. gain = factor * u[second].union_value
  BY <1>4, <1>6
<1>11. QED
  BY <1>3, <1>7, <1>9, <1>10

-----------------------------------------------------------------------------
(* The ledger that a forest stands for.                                    *)
ValueMap(u) == [i \in Ids |-> CompanyValue(u, i)]

WorthMap(u) == [i \in Ids |-> u[Root(u, i)].union_value]

GroupMap(u) == [i \in Ids |-> Group(u, Root(u, i))]

LEMMA AlikeLedgers ==
  ASSUME NEW u, Forest(u), NEW v, Alike(u, v)
  PROVE  ValueMap(v) = ValueMap(u) /\ WorthMap(v) = WorthMap(u) /\ GroupMap(v) = GroupMap(u)
<1>1. \A n \in Ids : Root(v, n) = Root(u, n) /\ CompanyValue(v, n) = CompanyValue(u, n)
  BY DEF Alike
<1>2. \A n \in Ids : v[Root(u, n)] = u[Root(u, n)]
  BY ForestRoots DEF Alike
<1>3. \A r : Group(v, r) = Group(u, r)
  BY <1>1 DEF Group
<1>4. QED
  BY <1>1, <1>2, <1>3 DEF ValueMap, WorthMap, GroupMap

(* Two companies are in one group when they have one root.                 *)
LEMMA SameGroup ==
  ASSUME NEW u, Forest(u), NEW r \in Ids, NEW s \in Ids, is_root(u, r), is_root(u, s)
  PROVE  Group(u, r) = Group(u, s) <=> r = s
<1>1. Root(u, r) = r
  BY ForestRoots
<1>2. r \in Group(u, r)
  BY <1>1 DEF Group
<1>3. r \in Group(u, s) => r = s
  BY <1>1 DEF Group
<1>4. QED
  BY <1>2, <1>3

LEMMA JoinedGroup ==
  ASSUME NEW u, Forest(u), NEW v, NEW win \in Ids, NEW lose \in Ids,
         NEW first, NEW second, NEW gain, Joined(u, v, win, lose, first, second, gain)
  PROVE  /\ Group(v, win) = Group(u, first) \cup Group(u, second)
         /\ \A r \in Ids \ {win, lose} : Group(v, r) = Group(u, r)
<1>1. \A n \in Ids : Root(v, n) = IF Root(u, n) = lose THEN win ELSE Root(u, n)
  BY DEF Joined
<1>2. {win, lose} = {first, second}
  BY DEF Joined
<1>3. \A r \in Ids \ {win, lose} : Group(v, r) = Group(u, r)
  BY <1>1 DEF Group
<1>4. Group(v, win) = Group(u, win) \cup Group(u, lose)
  BY <1>1 DEF Group
<1>5. QED
  BY <1>2, <1>3, <1>4

LedgerStep(u, v, a, t, factor) ==
  /\ GroupMap(u)[a] # GroupMap(u)[t]
  /\ ValueMap(v) = [c \in Ids |-> IF c \in GroupMap(u)[a]
                                  THEN ValueMap(u)[c] + factor * WorthMap(u)[t]
                                  ELSE ValueMap(u)[c]]
  /\ LET all == GroupMap(u)[a] \cup GroupMap(u)[t]
     IN  /\ GroupMap(v) = [c \in Ids |-> IF c \in all THEN all ELSE GroupMap(u)[c]]
         /\ WorthMap(v) = [c \in Ids |->
                             IF c \in all THEN WorthMap(u)[a] + factor * WorthMap(u)[t]
                             ELSE WorthMap(u)[c]]

LEMMA JoinedLedgers ==
  ASSUME NEW u, Forest(u), NEW v, NEW a \in Ids, NEW t \in Ids, NEW factor \in Int,
         NEW win \in Ids, NEW lose \in Ids,
         Joined(u, v, win, lose, Root(u, a), Root(u, t), factor * u[Root(u, t)].union_value)
  PROVE  LedgerStep(u, v, a, t, factor)
<1>1. PICK first \in Ids, second \in Ids :
        /\ first = Root(u, a) /\ second = Root(u, t)
        /\ is_root(u, first) /\ is_root(u, second)
  BY ForestRoots
<1>2. PICK gain : gain = factor * u[second].union_value
  OBVIOUS
<1>3. Joined(u, v, win, lose, first, second, gain)
  BY <1>1, <1>2
<1>4. /\ Group(v, win) = Group(u, first) \cup Group(u, second)
      /\ \A r \in Ids \ {win, lose} : Group(v, r) = Group(u, r)
  BY <1>3, JoinedGroup
<1>5. /\ win # lose /\ {win, lose} = {first, second} /\ gain \in Int
      /\ v[win].union_value = u[first].union_value + gain
      /\ \A n \in Ids \ {win, lose} : is_root(u, n) => v[n] = u[n]
  BY <1>3 DEF Joined
<1>6. /\ \A n \in Ids : Root(v, n) = IF Root(u, n) = lose THEN win ELSE Root(u, n)
      /\ \A n \in Ids : CompanyValue(v, n) =
                          CompanyValue(u, n) + IF Root(u, n) = first THEN gain ELSE 0
  BY <1>3 DEF Joined
<1>7. /\ GroupMap(u)[a] = Group(u, first) /\ GroupMap(u)[t] = Group(u, second)
      /\ WorthMap(u)[a] = u[first].union_value
      /\ factor * WorthMap(u)[t] = gain
  BY <1>1, <1>2 DEF GroupMap, WorthMap
<1>8. \A c \in Ids : c \in Group(u, first) <=> Root(u, c) = first
  BY DEF Group
<1>9. \A c \in Ids : c \in Group(u, second) <=> Root(u, c) = second
  BY DEF Group
<1>10. \A c \in Ids : CompanyValue(u, c) \in Int /\ Root(u, c) \in Ids /\ is_root(u, Root(u, c))
  BY ForestRoots
<1>11. Group(u, first) # Group(u, second)
  <2>1. first # second
    <3>1. win \in {first, second} /\ lose \in {first, second}
      BY <1>5
    <3>2. QED
      BY <1>5, <3>1
  <2>2. QED
    BY <1>1, <2>1, SameGroup
<1> DEFINE all == Group(u, first) \cup Group(u, second)
<1>12. \A c \in Ids : c \in all <=> Root(v, c) = win
  BY <1>5, <1>6, <1>8, <1>9
<1> HIDE DEF all
<1>13. ASSUME NEW c \in Ids
       PROVE  CompanyValue(v, c) = IF c \in Group(u, first) THEN CompanyValue(u, c) + gain
                                   ELSE CompanyValue(u, c)
  BY <1>5, <1>6, <1>8, <1>10
<1>14. ASSUME NEW c \in Ids
       PROVE  Group(v, Root(v, c)) = IF c \in all THEN all ELSE Group(u, Root(u, c))
  <2>1. CASE c \in all
    BY <1>4, <1>12, <2>1 DEF all
  <2>2. CASE c \notin all
    <3>1. Root(v, c) = Root(u, c) /\ Root(u, c) \in Ids \ {win, lose}
      BY <1>5, <1>6, <1>10, <1>12, <2>2
    <3>2. QED
      BY <1>4, <2>2, <3>1
  <2>3. QED
    BY <2>1, <2>2
<1>15. ASSUME NEW c \in Ids
       PROVE  v[Root(v, c)].union_value =
                IF c \in all THEN u[first].union_value + gain ELSE u[Root(u, c)].union_value
  <2>1. CASE c \in all
    BY <1>5, <1>12, <2>1
  <2>2. CASE c \notin all
    <3>1. Root(v, c) = Root(u, c) /\ Root(u, c) \in Ids \ {win, lose}
      BY <1>5, <1>6, <1>10, <1>12, <2>2
    <3>2. QED
      BY <1>5, <1>10, <2>2, <3>1
  <2>3. QED
    BY <2>1, <2>2
<1>16. ValueMap(v) = [c \in Ids |-> IF c \in GroupMap(u)[a]
                                    THEN ValueMap(u)[c] + factor * WorthMap(u)[t]
                                    ELSE ValueMap(u)[c]]
  BY <1>7, <1>13 DEF ValueMap
<1>17. GroupMap(v) = [c \in Ids |-> IF c \in all THEN all ELSE GroupMap(u)[c]]
  BY <1>14 DEF GroupMap
<1>18. WorthMap(v) = [c \in Ids |-> IF c \in all THEN WorthMap(u)[a] + factor * WorthMap(u)[t]
                                    ELSE WorthMap(u)[c]]
  BY <1>7, <1>15 DEF WorthMap
<1>19. GroupMap(u)[a] # GroupMap(u)[t] /\ all = GroupMap(u)[a] \cup GroupMap(u)[t]
  BY <1>7, <1>11 DEF all
<1>20. QED
  BY <1>16, <1>17, <1>18, <1>19 DEF LedgerStep

LEMMA FirstForest == Forest(Unodes)
<1> DEFINE r == [n \in Ids |-> n]
           z == [n \in Ids |-> 0]
<1>1. Unodes \in [Ids -> Unode]
  BY UnionFindAssumption DEF Unodes, Unode, Ids
<1>2. \A n \in Ids : is_root(Unodes, n)
  BY DEF is_root, Unodes
<1>3. Shape(Unodes, r, z, z, 0)
  BY <1>1, <1>2 DEF Shape, Rooted
<1>4. QED
  BY <1>3 DEF Forest

-----------------------------------------------------------------------------
(* At the start every company stands alone, worth its own number. *)
LEMMA FirstLedger == Init => Ledger!Init
<1> SUFFICES ASSUME Init
             PROVE  Ledger!Init
  OBVIOUS
<1>1. Forest(arr)
  BY FirstForest DEF Init
<1>2. \A c \in Ids : is_root(arr, c) /\ Root(arr, c) = c
  BY <1>1, ForestRoots DEF Init, Unodes, is_root
<1>3. PICK r, o, h, B : Shape(arr, r, o, h, B)
  BY <1>1 DEF Forest
<1>4. \A c \in Ids : Offset(arr, c) = 0
  <2>1. \A c \in Ids : Offset(arr, c) = o[c]
    BY <1>3, OffsetIs
  <2>2. \A c \in Ids : o[c] = 0
    BY <1>2, <1>3 DEF Shape, Rooted
  <2>3. QED
    BY <2>1, <2>2
<1>5. \A c \in Ids : CompanyValue(arr, c) = c /\ arr[Root(arr, c)].union_value = c
  BY <1>2, <1>4 DEF CompanyValue, Init, Unodes, Ids
<1>6. \A c \in Ids : Group(arr, Root(arr, c)) = {c}
  BY <1>2 DEF Group
<1>7. QED
  BY <1>5, <1>6 DEF Ledger!Init, Ledger!Ids, Ids

(* uf.h: whichever root wins a union and whatever paths find_assist        *)
(* shortens, the forest keeps the ledger of acquisitions.                  *)
THEOREM ForestKeepsLedger == Spec => ImplementsLedger
<1>1. Spec => []Forest(arr)
  <2>1. Init => Forest(arr)
    BY FirstForest DEF Init
  <2>2. Forest(arr) /\ [Next]_arr => Forest(arr)'
    <3> SUFFICES ASSUME Forest(arr), [Next]_arr
                 PROVE  Forest(arr')
      OBVIOUS
    <3>1. CASE arr' = arr
      BY <3>1
    <3>2. ASSUME NEW i \in Ids, Find(i)
          PROVE  Forest(arr')
      BY <3>2, FindAlike DEF Find
    <3>3. ASSUME NEW a \in Ids, NEW t \in Ids, NEW factor \in Factors, Acquire(a, t, factor)
          PROVE  Forest(arr')
      <4>1. factor \in Int
        BY UnionFindAssumption
      <4>2. QED
        BY <3>3, <4>1, UnionInGroup, UnionJoins DEF Acquire
    <3>4. QED
      BY <3>1, <3>2, <3>3 DEF Next
  <2>3. QED
    BY <2>1, <2>2, PTL DEF Spec
<1>2. Init => Ledger!Init
  BY FirstLedger
<1>3. Forest(arr) /\ [Next]_arr => [Ledger!Next]_(Ledger!vars)
  <2> SUFFICES ASSUME Forest(arr), [Next]_arr
               PROVE  [Ledger!Next]_(Ledger!vars)
    OBVIOUS
  <2>1. ASSUME Alike(arr, arr')
        PROVE  UNCHANGED Ledger!vars
    <3>1. /\ ValueMap(arr') = ValueMap(arr) /\ WorthMap(arr') = WorthMap(arr)
          /\ GroupMap(arr') = GroupMap(arr)
      BY <2>1, AlikeLedgers
    <3>2. QED
      BY <3>1 DEF Ledger!vars, ValueMap, WorthMap, GroupMap
  <2>2. CASE arr' = arr
    BY <2>2 DEF Ledger!vars
  <2>3. ASSUME NEW i \in Ids, Find(i)
        PROVE  UNCHANGED Ledger!vars
    BY <2>1, <2>3, FindAlike DEF Find
  <2>4. ASSUME NEW a \in Ids, NEW t \in Ids, NEW factor \in Factors, Acquire(a, t, factor)
        PROVE  [Ledger!Next]_(Ledger!vars)
    <3>1. factor \in Int
      BY UnionFindAssumption
    <3>2. CASE Root(arr, a) = Root(arr, t)
      BY <2>1, <2>4, <3>1, <3>2, UnionInGroup DEF Acquire
    <3>3. CASE Root(arr, a) # Root(arr, t)
      <4>1. PICK win \in Ids, lose \in Ids :
              Joined(arr, arr', win, lose, Root(arr, a), Root(arr, t),
                     factor * arr[Root(arr, t)].union_value)
        BY <2>4, <3>1, <3>3, UnionJoins DEF Acquire
      <4>2. Ledger!Acquire(a, t, factor)
        <5>1. LedgerStep(arr, arr', a, t, factor)
          BY <3>1, <4>1, JoinedLedgers
        <5>2. Ledger!Ids = Ids
          BY DEF Ledger!Ids, Ids
        <5>3. QED
          BY <5>1, <5>2, Zenon DEF Ledger!Acquire, LedgerStep, ValueMap, WorthMap, GroupMap
      <4>3. QED
        BY <4>2 DEF Ledger!Next, Ledger!Ids, Ids
    <3>4. QED
      BY <3>2, <3>3
  <2>5. QED
    BY <2>2, <2>3, <2>4 DEF Next
<1>4. QED
  BY <1>1, <1>2, <1>3, PTL DEF Spec, ImplementsLedger, Ledger!Spec

-----------------------------------------------------------------------------
(* Powers of two: FS_SUBSET says what they count.                          *)
LEMMA Powers ==
  /\ 2 ^ 0 = 1
  /\ \A n \in Nat : 2 ^ n \in Nat
  /\ \A n \in Nat : 2 ^ (n + 1) = 2 * 2 ^ n
  /\ \A m, n \in Nat : m <= n => 2 ^ m <= 2 ^ n
<1>1. \A n \in Nat : /\ IsFiniteSet(1 .. n) /\ IsFiniteSet(SUBSET (1 .. n))
                     /\ Cardinality(SUBSET (1 .. n)) = 2 ^ n /\ 2 ^ n \in Nat
  <2>1. ASSUME NEW n \in Nat
        PROVE  /\ IsFiniteSet(1 .. n) /\ IsFiniteSet(SUBSET (1 .. n))
               /\ Cardinality(SUBSET (1 .. n)) = 2 ^ n /\ 2 ^ n \in Nat
    <3>1. IsFiniteSet(1 .. n) /\ Cardinality(1 .. n) = n
      <4>1. IsFiniteSet(1 .. n) /\ Cardinality(1 .. n) = IF 1 > n THEN 0 ELSE n - 1 + 1
        BY FS_Interval
      <4>2. QED
        BY <4>1
    <3>2. IsFiniteSet(SUBSET (1 .. n)) /\ Cardinality(SUBSET (1 .. n)) = 2 ^ Cardinality(1 .. n)
      BY <3>1, FS_SUBSET
    <3>3. Cardinality(SUBSET (1 .. n)) \in Nat
      BY <3>2, FS_CardinalityType
    <3>4. QED
      BY <3>1, <3>2, <3>3
  <2>2. QED
    BY <2>1
<1>2. 2 ^ 0 = 1
  <2>1. SUBSET (1 .. 0) = {{}}
    OBVIOUS
  <2>2. Cardinality({{}}) = 1
    BY FS_Singleton
  <2>3. Cardinality(SUBSET (1 .. 0)) = 2 ^ 0
    BY <1>1
  <2>4. QED
    BY <2>1, <2>2, <2>3
<1>3. ASSUME NEW m \in Nat, NEW n \in Nat, m <= n
      PROVE  2 ^ m <= 2 ^ n
  <2>1. 1 .. m \subseteq 1 .. n
    BY <1>3
  <2>2. SUBSET (1 .. m) \in SUBSET SUBSET (1 .. n)
    BY <2>1
  <2>3. Cardinality(SUBSET (1 .. m)) <= Cardinality(SUBSET (1 .. n))
    BY <1>1, <2>2, FS_Subset
  <2>4. QED
    BY <1>1, <2>3
<1>4. ASSUME NEW n \in Nat
      PROVE  2 ^ (n + 1) = 2 * 2 ^ n
  <2>0. PICK A, x : A = SUBSET (1 .. n) /\ x = n + 1
    OBVIOUS
  <2>1. PICK C : A = SUBSET (1 .. n) /\ x = n + 1 /\ C = {T \cup {x} : T \in A}
    BY <2>0
  <2> DEFINE f == [T \in A |-> T \cup {x}]
  <2>2. \A T \in A : x \notin T
    BY <2>1
  <2>3. f \in Bijection(A, C)
    <3>1. f \in [A -> C] /\ \A c \in C : \E T \in A : f[T] = c
      BY <2>1
    <3>2. ASSUME NEW S \in A, NEW T \in A, f[S] = f[T]
          PROVE  S = T
      <4>1. S \cup {x} = T \cup {x}
        BY <3>2
      <4>2. (S \cup {x}) \ {x} = S /\ (T \cup {x}) \ {x} = T
        BY <2>2
      <4>3. QED
        BY <4>1, <4>2
    <3> HIDE DEF f
    <3>3. QED
      BY <3>1, <3>2 DEF Bijection, Injection, Surjection, IsInjective
  <2> HIDE DEF f
  <2>4. IsFiniteSet(A) /\ IsFiniteSet(C) /\ Cardinality(C) = Cardinality(A)
    BY <1>1, <2>1, <2>3, FS_Bijection DEF ExistsBijection
  <2>5. A \cap C = {}
    BY <2>1, <2>2
  <2>6. A \cup C = SUBSET (1 .. n + 1)
    <3>1. ASSUME NEW S \in SUBSET (1 .. n + 1)
          PROVE  S \in A \cup C
      <4>1. CASE x \in S
        <5>1. PICK T : T = S \ {x}
          OBVIOUS
        <5>2. T \in A /\ S = T \cup {x}
          BY <2>1, <4>1, <5>1
        <5>3. QED
          BY <2>1, <5>2
      <4>2. CASE x \notin S
        BY <2>1, <4>2
      <4>3. QED
        BY <4>1, <4>2
    <3>2. \A S \in A : S \in SUBSET (1 .. n + 1) /\ S \cup {x} \in SUBSET (1 .. n + 1)
      BY <2>1
    <3>3. ASSUME NEW c \in C
          PROVE  c \in SUBSET (1 .. n + 1)
      <4>1. PICK T \in A : c = T \cup {x}
        BY <2>1
      <4>2. QED
        BY <3>2, <4>1
    <3>4. QED
      BY <3>1, <3>2, <3>3
  <2>7. Cardinality(A \cup C) = Cardinality(A) + Cardinality(C)
    BY <2>4, <2>5, DisjointCardinality
  <2>8. n + 1 \in Nat
    OBVIOUS
  <2>9. 2 ^ (n + 1) = Cardinality(A \cup C) /\ 2 ^ n = Cardinality(A) /\ 2 ^ n \in Nat
    BY <1>1, <2>1, <2>6, <2>8
  <2>10. QED
    BY <2>4, <2>7, <2>9
<1>5. QED
  BY <1>1, <1>2, <1>3, <1>4

-----------------------------------------------------------------------------
(* a gives the nodes on the way from each node to its root, both included; *)
(* h falls and k rises on the way.                                         *)
Lines(u, a) ==
  /\ a \in [Ids -> SUBSET Ids]
  /\ \A n \in Ids : a[n] = IF is_root(u, n) THEN {n} ELSE {n} \cup a[u[n].parent]

Ranked(u, k) ==
  /\ k \in [Ids -> Nat]
  /\ \A n \in Ids : ~ is_root(u, n) => k[n] < k[u[n].parent]

(* What lies on the way of a node.                                         *)
Uphill(r, h, k, a, n) ==
  /\ n \in a[n] /\ r[n] \in a[n]
  /\ \A m \in a[n] : /\ r[m] = r[n] /\ a[m] \subseteq a[n]
                     /\ m # n => h[m] < h[n] /\ k[n] < k[m]
  /\ \A m, l \in a[n] : m \in a[l] \/ l \in a[m]

LEMMA LinesRise ==
  ASSUME NEW u, NEW r, NEW o, NEW h, NEW B, Shape(u, r, o, h, B),
         NEW a, Lines(u, a), NEW k, Ranked(u, k)
  PROVE  \A n \in Ids : Uphill(r, h, k, a, n)
<1> DEFINE D == {n \in Ids : ~ Uphill(r, h, k, a, n)}
<1>1. ASSUME D # {}
      PROVE  FALSE
  <2>1. PICK n \in D : \A m \in D : ~ (h[m] < h[n])
    BY <1>1, LowestNode DEF Shape
  <2>2. CASE is_root(u, n)
    <3>1. a[n] = {n} /\ r[n] = n
      BY <2>2 DEF Lines, Shape, Rooted
    <3>2. QED
      BY <3>1 DEF Uphill
  <2>3. CASE ~ is_root(u, n)
    <3>1. PICK p \in Ids : /\ p = u[n].parent /\ h[p] < h[n] /\ r[n] = r[p]
                           /\ a[n] = {n} \cup a[p] /\ k[n] < k[p]
      BY <2>3 DEF Shape, Hung, Lines, Ranked
    <3>2. Uphill(r, h, k, a, p)
      BY <2>1, <3>1
    <3>3. a[p] \in SUBSET Ids
      BY DEF Lines
    <3>4. \A m \in Ids : h[m] \in Int /\ k[m] \in Int
      BY DEF Shape, Ranked
    <3>5. ASSUME NEW m \in a[n]
          PROVE  /\ r[m] = r[n] /\ a[m] \subseteq a[n]
                 /\ m # n => h[m] < h[n] /\ k[n] < k[m]
      <4>1. CASE m = n
        BY <4>1
      <4>2. CASE m # n
        <5>1. m \in a[p] /\ m \in Ids
          BY <3>1, <3>3, <4>2
        <5>2. r[m] = r[p] /\ a[m] \subseteq a[p] /\ (m # p => h[m] < h[p] /\ k[p] < k[m])
          BY <3>2, <5>1 DEF Uphill
        <5>3. h[m] < h[n] /\ k[n] < k[m]
          BY <3>1, <3>4, <5>1, <5>2
        <5>4. QED
          BY <3>1, <5>2, <5>3
      <4>3. QED
        BY <4>1, <4>2
    <3>6. n \in a[n] /\ r[n] \in a[n]
      BY <3>1, <3>2 DEF Uphill
    <3>7. ASSUME NEW m \in a[n], NEW l \in a[n]
          PROVE  m \in a[l] \/ l \in a[m]
      BY <3>1, <3>2, <3>7 DEF Uphill
    <3>8. Uphill(r, h, k, a, n)
      BY <3>5, <3>6, <3>7 DEF Uphill
    <3>9. QED
      BY <3>8
  <2>4. QED
    BY <2>2, <2>3
<1>2. QED
  BY <1>1

-----------------------------------------------------------------------------
(* The path of a node: it climbs by parents, h falls along it, it consists *)
(* of the nodes on the way, and it is no longer than k rises.              *)
Climbs(u, r, h, k, a, n, q) ==
  /\ q \in Seq(Ids) /\ Len(q) \in Nat \ {0} /\ q[1] = n /\ q[Len(q)] = r[n]
  /\ \A j \in 1 .. Len(q) - 1 : ~ is_root(u, q[j]) /\ u[q[j]].parent = q[j + 1]
  /\ \A j, l \in 1 .. Len(q) : j < l => h[q[l]] < h[q[j]]
  /\ \A m \in Ids : m \in a[n] <=> \E j \in 1 .. Len(q) : q[j] = m
  /\ Len(q) - 1 + k[n] <= k[r[n]]

LEMMA LongerClimb ==
  ASSUME NEW u, NEW r, NEW o, NEW h, NEW B, Shape(u, r, o, h, B),
         NEW a, Lines(u, a), NEW k, Ranked(u, k), NEW n \in Ids, ~ is_root(u, n),
         NEW m \in Ids, m = u[n].parent, NEW q, Climbs(u, r, h, k, a, m, q),
         NEW w, w = <<n>> \o q
  PROVE  Climbs(u, r, h, k, a, n, w)
<1>1. /\ w \in Seq(Ids) /\ Len(w) = Len(q) + 1 /\ w[1] = n
      /\ \A j \in 1 .. Len(q) : w[j + 1] = q[j]
  BY LongerPath DEF Climbs
<1>2. /\ h[m] < h[n] /\ r[n] = r[m] /\ a[n] = {n} \cup a[m] /\ k[n] < k[m]
      /\ r[n] \in Ids
  BY DEF Shape, Hung, Lines, Ranked
<1>3. /\ Len(q) \in Nat \ {0} /\ q[1] = m /\ q[Len(q)] = r[m]
      /\ \A j \in 1 .. Len(q) : q[j] \in Ids
  BY ElementOfSeq DEF Climbs
<1>4. \A x \in Ids : h[x] \in Int /\ k[x] \in Int
  BY DEF Shape, Ranked
<1>5. ASSUME NEW j \in 1 .. Len(w), j # 1
      PROVE  j - 1 \in 1 .. Len(q) /\ w[j] = q[j - 1]
  <2>1. j - 1 \in 1 .. Len(q) /\ (j - 1) + 1 = j
    BY <1>1, <1>3, <1>5
  <2>2. QED
    BY <1>1, <2>1
<1>6. Len(w) \in Nat \ {0} /\ w[Len(w)] = r[n]
  <2>1. Len(w) \in Nat \ {0} /\ Len(q) \in 1 .. Len(q)
    BY <1>1, <1>3
  <2>2. QED
    BY <1>1, <1>2, <1>3, <2>1
<1>7. ASSUME NEW j \in 1 .. Len(w) - 1
      PROVE  ~ is_root(u, w[j]) /\ u[w[j]].parent = w[j + 1]
  <2>1. j \in 1 .. Len(q) /\ w[j + 1] = q[j]
    BY <1>1, <1>3
  <2>2. CASE j = 1
    BY <1>1, <1>3, <2>1, <2>2
  <2>3. CASE j # 1
    <3>1. w[j] = q[j - 1] /\ j - 1 \in 1 .. Len(q) - 1 /\ (j - 1) + 1 = j
      BY <1>1, <1>3, <1>5, <2>1, <2>3
    <3>2. ~ is_root(u, q[j - 1]) /\ u[q[j - 1]].parent = q[(j - 1) + 1]
      BY <3>1 DEF Climbs
    <3>3. QED
      BY <2>1, <3>1, <3>2
  <2>4. QED
    BY <2>2, <2>3
<1>8. \A j \in 1 .. Len(q) : h[q[j]] <= h[m]
  <2>1. ASSUME NEW j \in 1 .. Len(q)
        PROVE  h[q[j]] <= h[m]
    <3>1. CASE j = 1
      BY <1>3, <1>4, <3>1
    <3>2. CASE j # 1
      <4>1. 1 \in 1 .. Len(q) /\ 1 < j
        BY <1>3, <3>2
      <4>2. h[q[j]] < h[q[1]]
        BY <4>1 DEF Climbs
      <4>3. QED
        BY <1>3, <1>4, <4>2
    <3>3. QED
      BY <3>1, <3>2
  <2>2. QED
    BY <2>1
<1>9. ASSUME NEW j \in 1 .. Len(w), NEW l \in 1 .. Len(w), j < l
      PROVE  h[w[l]] < h[w[j]]
  <2>1. l # 1 /\ l - 1 \in 1 .. Len(q) /\ w[l] = q[l - 1]
    BY <1>5, <1>9
  <2>2. CASE j = 1
    <3>1. h[q[l - 1]] <= h[m] /\ q[l - 1] \in Ids
      BY <1>3, <1>8, <2>1
    <3>2. h[q[l - 1]] < h[n]
      BY <1>2, <1>4, <3>1
    <3>3. QED
      BY <1>1, <2>1, <2>2, <3>2
  <2>3. CASE j # 1
    <3>1. j - 1 \in 1 .. Len(q) /\ w[j] = q[j - 1] /\ j - 1 < l - 1
      BY <1>5, <1>9, <2>3
    <3>2. h[q[l - 1]] < h[q[j - 1]]
      BY <2>1, <3>1 DEF Climbs
    <3>3. QED
      BY <2>1, <3>1, <3>2
  <2>4. QED
    BY <2>2, <2>3
<1>10. ASSUME NEW x \in Ids
       PROVE  x \in a[n] <=> \E j \in 1 .. Len(w) : w[j] = x
  <2>1. x \in a[m] <=> \E j \in 1 .. Len(q) : q[j] = x
    BY DEF Climbs
  <2>2. ASSUME NEW j \in 1 .. Len(q)
        PROVE  j + 1 \in 1 .. Len(w) /\ w[j + 1] = q[j]
    BY <1>1, <1>3
  <2>3. 1 \in 1 .. Len(w)
    BY <1>6
  <2>4. x \in a[n] => \E j \in 1 .. Len(w) : w[j] = x
    BY <1>1, <1>2, <2>1, <2>2, <2>3
  <2>5. (\E j \in 1 .. Len(w) : w[j] = x) => x \in a[n]
    BY <1>1, <1>2, <1>5, <2>1
  <2>6. QED
    BY <2>4, <2>5
<1>11. Len(w) - 1 + k[n] <= k[r[n]]
  <2>1. Len(q) - 1 + k[m] <= k[r[m]]
    BY DEF Climbs
  <2>2. QED
    BY <1>1, <1>2, <1>3, <1>4, <2>1
<1>12. QED
  BY <1>1, <1>6, <1>7, <1>9, <1>10, <1>11 DEF Climbs

LEMMA PathClimbs ==
  ASSUME NEW u, NEW r, NEW o, NEW h, NEW B, Shape(u, r, o, h, B),
         NEW a, Lines(u, a), NEW k, Ranked(u, k)
  PROVE  \A i \in Ids : Climbs(u, r, h, k, a, i, Path(u, i))
<1> DEFINE c == CHOOSE p : p = PathStep(u, p, Ids)
           D == {n \in Ids : ~ Climbs(u, r, h, k, a, n, c[n])}
<1>1. c = PathStep(u, c, Ids)
  BY PathsExist
<1>2. \A i \in Ids : Path(u, i) = c[i]
  BY DEF Path, PathStep
<1> HIDE DEF c
<1>3. ASSUME D # {}
      PROVE  FALSE
  <2>1. PICK n \in D : \A m \in D : ~ (h[m] < h[n])
    BY <1>3, LowestNode DEF Shape
  <2>2. CASE is_root(u, n)
    <3>1. c[n] = <<n>> /\ r[n] = n /\ a[n] = {n}
      BY <1>1, <2>2 DEF PathStep, Shape, Rooted, Lines
    <3>2. k[n] \in Nat
      BY DEF Ranked
    <3>3. Climbs(u, r, h, k, a, n, <<n>>)
      BY <3>1, <3>2 DEF Climbs
    <3>4. QED
      BY <3>1, <3>3
  <2>3. CASE ~ is_root(u, n)
    <3>1. PICK m \in Ids : m = u[n].parent /\ Climbs(u, r, h, k, a, m, c[m])
      BY <2>1, <2>3 DEF Shape, Hung
    <3>2. c[n] = <<n>> \o c[m]
      BY <1>1, <2>3, <3>1 DEF PathStep
    <3>3. PICK q, w : q = c[m] /\ w = c[n]
      OBVIOUS
    <3>4. Climbs(u, r, h, k, a, m, q) /\ w = <<n>> \o q
      BY <3>1, <3>2, <3>3
    <3>5. Climbs(u, r, h, k, a, n, w)
      BY <2>3, <3>1, <3>4, LongerClimb
    <3>6. QED
      BY <3>3, <3>5
  <2>4. QED
    BY <2>2, <2>3
<1>4. QED
  BY <1>2, <1>3

-----------------------------------------------------------------------------
(* Each node counts those whose way passes it, and a root has at least     *)
(* twice as many as a root of less rank.                                   *)
Below(a, n) == {m \in Ids : n \in a[m]}

Counted(u, a, k) ==
  /\ \A n \in Ids : u[n].sub_nodes = Cardinality(Below(a, n))
  /\ \A n \in Ids : is_root(u, n) => 2 ^ k[n] <= u[n].sub_nodes

LEMMA BelowFinite ==
  ASSUME NEW a, NEW n
  PROVE  IsFiniteSet(Below(a, n)) /\ Cardinality(Below(a, n)) \in Nat
<1>1. IsFiniteSet(Ids)
  BY FS_Interval, UnionFindAssumption DEF Ids
<1>2. IsFiniteSet(Below(a, n))
  BY <1>1, FS_Subset DEF Below
<1>3. QED
  BY <1>2, FS_CardinalityType

LEMMA FrontIs ==
  ASSUME NEW S, NEW q \in Seq(S), Len(q) \in Nat \ {0}, NEW x
  PROVE  x \in ToSet(Front(q)) <=> \E j \in 1 .. Len(q) - 1 : q[j] = x
<1> DEFINE f == Front(q)
<1>1. \A i \in 1 .. Len(q) - 1 : q[i] \in S
  BY ElementOfSeq
<1>2. /\ SubSeq(q, 1, Len(q) - 1) \in Seq(S) /\ Len(SubSeq(q, 1, Len(q) - 1)) = Len(q) - 1
      /\ \A i \in 1 .. Len(q) - 1 : SubSeq(q, 1, Len(q) - 1)[i] = q[i]
  <2>1. PICK k \in Int : k = Len(q) - 1 /\ k >= 0 /\ k - 1 + 1 = k
    OBVIOUS
  <2>2. \A i \in 1 .. k : q[i] \in S
    BY <1>1, <2>1
  <2>3. /\ SubSeq(q, 1, k) \in Seq(S) /\ Len(SubSeq(q, 1, k)) = k
        /\ \A i \in 1 .. k : SubSeq(q, 1, k)[i] = q[i]
    BY <2>1, <2>2, SubSeqProperties
  <2>4. QED
    BY <2>1, <2>3
<1>3. /\ f \in Seq(S) /\ Len(f) = Len(q) - 1
      /\ \A i \in 1 .. Len(q) - 1 : f[i] = q[i]
  BY <1>2 DEF Front
<1> HIDE DEF f
<1>4. DOMAIN f = 1 .. Len(q) - 1
  BY <1>3
<1>5. x \in ToSet(f) <=> \E j \in 1 .. Len(q) - 1 : q[j] = x
  BY <1>3, <1>4 DEF ToSet
<1>6. QED
  BY <1>5 DEF f

(* What find_assist does to a node on the path: it loses what hung from    *)
(* the node before it.                                                     *)
Climbed(r, a, i) == a[i] \ {r[i]}

LoosenedBy(u, v, r, a, i, n, p) ==
  /\ v[n].parent = r[i]
  /\ \/ n = i /\ v[n].sub_nodes = u[n].sub_nodes
     \/ /\ n # i /\ p \in Climbed(r, a, i) /\ ~ is_root(u, p) /\ u[p].parent = n
        /\ v[n].sub_nodes = u[n].sub_nodes - u[p].sub_nodes

LEMMA FindLoosens ==
  ASSUME NEW u, NEW r, NEW o, NEW h, NEW B, Shape(u, r, o, h, B),
         NEW a, Lines(u, a), NEW k, Ranked(u, k), NEW i \in Ids, NEW v, v = find_assist(u, i)
  PROVE  /\ \A n \in Ids \ Climbed(r, a, i) : v[n] = u[n]
         /\ \A n \in Climbed(r, a, i) : \E p : LoosenedBy(u, v, r, a, i, n, p)
<1>1. PICK q : q = Path(u, i) /\ Climbs(u, r, h, k, a, i, q)
  BY PathClimbs
<1> DEFINE path == Path(u, i)
           F == ToSet(Front(path))
           Lost(n) == LET j == CHOOSE j \in DOMAIN path : path[j] = n
                        IN  IF j = 1 THEN 0 ELSE u[path[j - 1]].sub_nodes
<1>2. v = [n \in Ids |-> IF n \in F
                         THEN [u[n] EXCEPT !.parent = Last(path), !.value = Offset(u, n),
                                           !.sub_nodes = @ - Lost(n)]
                         ELSE u[n]]
  BY DEF find_assist, shrink
<1> HIDE DEF path
<1>3. /\ DOMAIN q = 1 .. Len(q) /\ Len(q) \in Nat \ {0} /\ path = q
      /\ \A j \in 1 .. Len(q) : q[j] \in Ids
  BY <1>1, ElementOfSeq DEF Climbs, path
<1>4. \A m \in Ids : h[m] \in Int /\ r[m] \in Ids /\ u[m] \in Unode
  BY DEF Shape
<1>5. ASSUME NEW j \in 1 .. Len(q), NEW l \in 1 .. Len(q), q[j] = q[l]
      PROVE  j = l
  <2>1. CASE j < l
    <3>1. h[q[l]] < h[q[j]]
      BY <1>1, <2>1 DEF Climbs
    <3>2. QED
      BY <1>3, <1>4, <1>5, <3>1
  <2>2. CASE l < j
    <3>1. h[q[j]] < h[q[l]]
      BY <1>1, <2>2 DEF Climbs
    <3>2. QED
      BY <1>3, <1>4, <1>5, <3>1
  <2>3. QED
    BY <2>1, <2>2
<1>6. Last(path) = r[i] /\ Len(q) \in 1 .. Len(q) /\ q[Len(q)] = r[i]
  BY <1>1, <1>3 DEF Climbs, Last
<1>7. ASSUME NEW n \in Ids
      PROVE  n \in F <=> n \in Climbed(r, a, i)
  <2>1. n \in F <=> \E j \in 1 .. Len(q) - 1 : q[j] = n
    BY <1>1, <1>3, FrontIs DEF Climbs
  <2>2. n \in a[i] <=> \E j \in 1 .. Len(q) : q[j] = n
    BY <1>1 DEF Climbs
  <2>3. ASSUME NEW j \in 1 .. Len(q), q[j] = n
        PROVE  n = r[i] <=> j = Len(q)
    BY <1>5, <1>6, <2>3
  <2> HIDE DEF F, Lost
  <2>4. Len(q) \in Nat
    BY <1>3
  <2>5. \A j \in 1 .. Len(q) - 1 : j \in 1 .. Len(q) /\ j # Len(q)
    BY <2>4
  <2>6. \A j \in 1 .. Len(q) : j # Len(q) => j \in 1 .. Len(q) - 1
    BY <2>4
  <2>7. QED
    BY <2>1, <2>2, <2>3, <2>5, <2>6 DEF Climbed
<1>8. \A n \in Climbed(r, a, i) : n \in Ids
  BY DEF Climbed, Lines
<1>9. ASSUME NEW n \in Ids \ Climbed(r, a, i)
      PROVE  v[n] = u[n]
  <2>1. n \notin F
    BY <1>7
  <2> HIDE DEF F, Lost
  <2>2. QED
    BY <1>2, <2>1
<1>10. ASSUME NEW n \in Climbed(r, a, i)
       PROVE  \E p : LoosenedBy(u, v, r, a, i, n, p)
  <2>1. n \in Ids /\ n \in F /\ n \in a[i] /\ n # r[i]
    BY <1>7, <1>8 DEF Climbed
  <2>2. PICK j \in 1 .. Len(q) : q[j] = n
    BY <1>1, <2>1 DEF Climbs
  <2>3. PICK l : l = (CHOOSE x \in DOMAIN q : q[x] = n)
    OBVIOUS
  <2>4. Lost(n) = IF l = 1 THEN 0 ELSE u[q[l - 1]].sub_nodes
    BY <1>3, <2>3
  <2>5. l = j
    <3>1. l \in 1 .. Len(q) /\ q[l] = n
      BY <1>3, <2>2, <2>3
    <3>2. QED
      BY <1>5, <2>2, <3>1
  <2> HIDE DEF F, Lost
  <2>6. PICK b, x : b = Lost(n) /\ x = u[n]
    OBVIOUS
  <2>7. v[n] = [x EXCEPT !.parent = r[i], !.value = Offset(u, n), !.sub_nodes = @ - b]
    BY <1>2, <1>6, <2>1, <2>6
  <2>8. x \in Unode
    BY <1>4, <2>1, <2>6
  <2>9. v[n].parent = r[i] /\ v[n].sub_nodes = x.sub_nodes - b
    BY <2>7, <2>8 DEF Unode
  <2>10. CASE j = 1
    <3>1. n = i /\ b = 0
      BY <1>1, <2>2, <2>4, <2>6, <2>10, <2>5 DEF Climbs
    <3>2. v[n].sub_nodes = x.sub_nodes
      BY <2>8, <2>9, <3>1 DEF Unode
    <3>3. QED
      BY <2>6, <2>9, <3>1, <3>2 DEF LoosenedBy
  <2>11. CASE j # 1
    <3>1. PICK p : p = q[j - 1]
      OBVIOUS
    <3>2. j - 1 \in 1 .. Len(q) - 1 /\ j - 1 \in 1 .. Len(q) /\ (j - 1) + 1 = j /\ j - 1 # Len(q)
          /\ 1 \in 1 .. Len(q)
      BY <1>3, <2>2, <2>11
    <3>3. p \in Ids /\ ~ is_root(u, p) /\ u[p].parent = n
      BY <1>1, <1>3, <2>2, <3>1, <3>2 DEF Climbs
    <3>4. p \in a[i] /\ p # r[i]
      BY <1>1, <1>5, <1>6, <3>1, <3>2, <3>3 DEF Climbs
    <3>5. n # i
      BY <1>1, <1>5, <2>2, <2>11, <3>2 DEF Climbs
    <3>6. b = u[p].sub_nodes
      BY <2>4, <2>6, <2>11, <2>5, <3>1
    <3>7. LoosenedBy(u, v, r, a, i, n, p)
      BY <2>6, <2>9, <3>3, <3>4, <3>5, <3>6 DEF LoosenedBy, Climbed
    <3>8. QED
      BY <3>7
  <2>12. QED
    BY <2>10, <2>11
<1>11. QED
  BY <1>9, <1>10

-----------------------------------------------------------------------------
(* The ways that shortening a path leaves: of the nodes on the path, the   *)
(* way of a node keeps the lowest and the root.                            *)
Shortened(a, F) ==
  [n \in Ids |-> {m \in a[n] : m \in F => \A l \in F \cap a[n] : l \in a[m]}]

LEMMA FindLines ==
  ASSUME NEW u, NEW r, NEW o, NEW h, NEW B, Shape(u, r, o, h, B),
         NEW a, Lines(u, a), NEW k, Ranked(u, k), NEW i \in Ids, NEW v, v = find_assist(u, i),
         NEW F, F = Climbed(r, a, i), NEW b, b = Shortened(a, F)
  PROVE  Lines(v, b) /\ Ranked(v, k)
<1>1. \A n \in Ids : Uphill(r, h, k, a, n)
  BY LinesRise
<1>2. /\ \A n \in Ids \ F : v[n] = u[n]
      /\ \A n \in F : n \in Ids /\ v[n].parent = r[i] /\ n \in a[i] /\ n # r[i]
  <2>1. /\ \A n \in Ids \ F : v[n] = u[n]
        /\ \A n \in F : \E p : LoosenedBy(u, v, r, a, i, n, p)
    BY FindLoosens
  <2>2. \A n \in F : n \in Ids /\ n \in a[i] /\ n # r[i]
    BY DEF Climbed, Lines
  <2>3. QED
    BY <2>1, <2>2 DEF LoosenedBy
<1>3. PICK z \in Ids : /\ z = r[i] /\ r[z] = z /\ is_root(u, z) /\ z \notin F /\ a[z] = {z}
                       /\ 0 \notin Ids
  BY DEF Shape, Rooted, Climbed, Lines, Ids
<1>4. \A n \in Ids : b[n] = {m \in a[n] : m \in F => \A l \in F \cap a[n] : l \in a[m]}
  BY DEF Shortened
<1>5. \A n \in Ids : a[n] \in SUBSET Ids /\ h[n] \in Int /\ k[n] \in Int
  BY DEF Lines, Shape, Ranked
<1>6. \A n \in F : r[n] = z /\ ~ is_root(u, n) /\ z \in a[n]
  <2>1. ASSUME NEW n \in F
        PROVE  r[n] = z /\ ~ is_root(u, n) /\ z \in a[n]
    <3>1. r[n] = z
      BY <1>1, <1>2, <1>3 DEF Uphill
    <3>2. ~ is_root(u, n)
      BY <1>2, <1>3, <3>1 DEF Shape, Rooted
    <3>3. QED
      BY <1>1, <1>2, <3>1, <3>2 DEF Uphill
  <2>2. QED
    BY <2>1
<1>7. \A n \in Ids : is_root(v, n) <=> is_root(u, n)
  <2>1. ASSUME NEW n \in Ids
        PROVE  is_root(v, n) <=> is_root(u, n)
    <3>1. CASE n \in F
      BY <1>2, <1>3, <1>6, <3>1 DEF is_root
    <3>2. CASE n \notin F
      BY <1>2, <3>2 DEF is_root
    <3>3. QED
      BY <3>1, <3>2
  <2>2. QED
    BY <2>1
<1>8. b[z] = {z}
  BY <1>3, <1>4
<1>9. ASSUME NEW n \in Ids
      PROVE  b[n] = IF is_root(v, n) THEN {n} ELSE {n} \cup b[v[n].parent]
  <2>1. CASE is_root(u, n)
    <3>1. a[n] = {n} /\ n \notin F
      BY <1>6, <2>1 DEF Lines
    <3>2. b[n] = {n}
      BY <1>4, <3>1
    <3>3. QED
      BY <1>7, <2>1, <3>2
  <2>2. CASE n \in F
    <3>1. n \in a[i] /\ z \in a[n] /\ n \in a[n] /\ a[n] \subseteq a[i] /\ n # z
      BY <1>1, <1>2, <1>3, <1>6, <2>2 DEF Uphill
    <3>2. ASSUME NEW m \in b[n]
          PROVE  m \in {n, z}
      <4>1. m \in a[n] /\ (m \in F => n \in a[m])
        BY <1>4, <2>2, <3>1, <3>2
      <4>2. CASE m \in F
        <5>1. m \in Ids /\ n \in a[m] /\ m \in a[n]
          BY <1>2, <4>1, <4>2
        <5>2. m # n => h[m] < h[n] /\ h[n] < h[m]
          BY <1>1, <5>1 DEF Uphill
        <5>3. QED
          BY <1>5, <5>1, <5>2
      <4>3. CASE m \notin F
        BY <1>3, <3>1, <4>1, <4>3 DEF Climbed
      <4>4. QED
        BY <4>2, <4>3
    <3>3. z \in b[n]
      BY <1>3, <1>4, <3>1
    <3>4. n \in b[n]
      BY <1>4, <3>1
    <3>5. b[n] = {n} \cup b[z]
      BY <1>8, <3>2, <3>3, <3>4
    <3>6. QED
      BY <1>2, <1>3, <1>6, <1>7, <2>2, <3>5
  <2>3. CASE ~ is_root(u, n) /\ n \notin F
    <3>1. PICK p \in Ids : p = u[n].parent /\ a[n] = {n} \cup a[p]
      BY <2>3 DEF Lines, Shape, Hung
    <3>2. F \cap a[n] = F \cap a[p]
      BY <2>3, <3>1
    <3>3. b[n] = {n} \cup b[p]
      BY <1>4, <2>3, <3>1, <3>2
    <3>4. QED
      BY <1>2, <1>7, <2>3, <3>1, <3>3
  <2>4. QED
    BY <2>1, <2>2, <2>3
<1>10. Lines(v, b)
  <2>1. b \in [Ids -> SUBSET Ids]
    BY <1>5 DEF Shortened
  <2>2. QED
    BY <1>9, <2>1 DEF Lines
<1>11. ASSUME NEW n \in Ids, ~ is_root(v, n)
       PROVE  k[n] < k[v[n].parent]
  <2>1. CASE n \in F
    <3>1. z \in a[n] /\ z # n /\ v[n].parent = z
      BY <1>2, <1>3, <1>6, <2>1
    <3>2. QED
      BY <1>1, <3>1 DEF Uphill
  <2>2. CASE n \notin F
    BY <1>2, <1>7, <1>11, <2>2 DEF Ranked
  <2>3. QED
    BY <2>1, <2>2
<1>12. QED
  BY <1>10, <1>11 DEF Ranked

(* Who still passes a node of the path: all who did, but for those who     *)
(* came through the node before it.                                        *)
LEMMA FindBelow ==
  ASSUME NEW u, NEW r, NEW o, NEW h, NEW B, Shape(u, r, o, h, B),
         NEW a, Lines(u, a), NEW k, Ranked(u, k), NEW i \in Ids,
         NEW F, F = Climbed(r, a, i), NEW b, b = Shortened(a, F)
  PROVE  /\ \A x \in Ids : x \notin F \/ x = i => Below(b, x) = Below(a, x)
         /\ \A x, p \in F : ~ is_root(u, p) /\ u[p].parent = x
              => Below(b, x) = Below(a, x) \ Below(a, p) /\ Below(a, p) \subseteq Below(a, x)
<1>1. \A n \in Ids : Uphill(r, h, k, a, n)
  BY LinesRise
<1>2. \A n \in Ids : b[n] = {m \in a[n] : m \in F => \A l \in F \cap a[n] : l \in a[m]}
  BY DEF Shortened
<1>3. /\ \A n \in Ids : a[n] \in SUBSET Ids /\ h[n] \in Int
      /\ F \subseteq a[i] /\ F \subseteq Ids
  BY DEF Lines, Shape, Climbed
<1>4. ASSUME NEW x \in Ids, x \notin F \/ x = i
      PROVE  Below(b, x) = Below(a, x)
  <2>1. \A n \in Ids : x \in b[n] <=> x \in a[n]
    BY <1>2, <1>3, <1>4
  <2>2. QED
    BY <2>1 DEF Below
<1>5. ASSUME NEW x \in F, NEW p \in F, ~ is_root(u, p), u[p].parent = x
      PROVE  Below(b, x) = Below(a, x) \ Below(a, p) /\ Below(a, p) \subseteq Below(a, x)
  <2>1. x \in Ids /\ p \in Ids /\ a[p] = {p} \cup a[x] /\ h[x] < h[p] /\ x \in a[x]
    BY <1>1, <1>3, <1>5 DEF Lines, Shape, Hung, Uphill
  <2>2. ASSUME NEW n \in Ids, p \in a[n]
        PROVE  x \in a[n] /\ x \notin b[n]
    <3>1. x \in a[n]
      BY <1>1, <2>1, <2>2 DEF Uphill
    <3>2. p \notin a[x]
      <4>1. p \in a[x] => p = x \/ h[p] < h[x]
        BY <1>1, <2>1 DEF Uphill
      <4>2. QED
        BY <1>3, <2>1, <4>1
    <3>3. QED
      BY <1>2, <1>5, <2>2, <3>1, <3>2
  <2>3. ASSUME NEW n \in Ids, p \notin a[n], x \in a[n]
        PROVE  x \in b[n]
    <3>1. ASSUME NEW l \in F \cap a[n]
          PROVE  l \in a[x]
      <4>1. l \in Ids /\ l \in a[i] /\ p \in a[i]
        BY <1>3
      <4>2. l \in a[p] \/ p \in a[l]
        BY <1>1, <4>1 DEF Uphill
      <4>3. p \in a[l] => p \in a[n]
        BY <1>1, <3>1 DEF Uphill
      <4>4. l \in a[p] /\ l # p
        BY <2>3, <3>1, <4>2, <4>3
      <4>5. QED
        BY <2>1, <4>4
    <3>2. QED
      BY <1>2, <2>3, <3>1
  <2>4. \A n \in Ids : x \in b[n] => x \in a[n]
    BY <1>2
  <2>5. \A n \in Ids : /\ x \in b[n] <=> x \in a[n] /\ p \notin a[n]
                       /\ p \in a[n] => x \in a[n]
    BY <2>2, <2>3, <2>4
  <2>6. QED
    BY <2>5 DEF Below
<1>6. QED
  BY <1>4, <1>5

LEMMA FindCounts ==
  ASSUME NEW u, NEW r, NEW o, NEW h, NEW B, Shape(u, r, o, h, B),
         NEW a, Lines(u, a), NEW k, Ranked(u, k), Counted(u, a, k),
         NEW i \in Ids, NEW v, v = find_assist(u, i)
  PROVE  \E b : Lines(v, b) /\ Ranked(v, k) /\ Counted(v, b, k)
<1>1. PICK F : F = Climbed(r, a, i)
  OBVIOUS
<1>2. PICK b : b = Shortened(a, F)
  OBVIOUS
<1>3. Lines(v, b) /\ Ranked(v, k)
  BY <1>1, <1>2, FindLines
<1>4. /\ \A x \in Ids : x \notin F \/ x = i => Below(b, x) = Below(a, x)
      /\ \A x, p \in F : ~ is_root(u, p) /\ u[p].parent = x
           => Below(b, x) = Below(a, x) \ Below(a, p) /\ Below(a, p) \subseteq Below(a, x)
  BY <1>1, <1>2, FindBelow
<1>5. /\ \A n \in Ids \ F : v[n] = u[n]
      /\ \A n \in F : \E p : LoosenedBy(u, v, r, a, i, n, p)
  BY <1>1, FindLoosens
<1>6. F \subseteq Ids
  BY <1>1 DEF Climbed, Lines
<1>7. ASSUME NEW x \in Ids
      PROVE  v[x].sub_nodes = Cardinality(Below(b, x))
  <2>1. CASE x \notin F
    BY <1>4, <1>5, <2>1 DEF Counted
  <2>2. CASE x \in F
    <3>1. PICK p : LoosenedBy(u, v, r, a, i, x, p)
      BY <1>5, <2>2
    <3>2. CASE x = i /\ v[x].sub_nodes = u[x].sub_nodes
      BY <1>4, <3>2 DEF Counted
    <3>3. CASE /\ x # i /\ p \in Climbed(r, a, i) /\ ~ is_root(u, p) /\ u[p].parent = x
               /\ v[x].sub_nodes = u[x].sub_nodes - u[p].sub_nodes
      <4>1. p \in F /\ p \in Ids
        BY <1>1, <1>6, <3>3
      <4>2. Below(b, x) = Below(a, x) \ Below(a, p) /\ Below(a, p) \subseteq Below(a, x)
        BY <1>4, <2>2, <3>3, <4>1
      <4>3. PICK S, T : S = Below(a, x) /\ T = Below(a, p)
        OBVIOUS
      <4>4. /\ IsFiniteSet(S) /\ Cardinality(S) = u[x].sub_nodes
            /\ Cardinality(T) = u[p].sub_nodes
        BY <4>1, <4>3, BelowFinite DEF Counted
      <4>5. Cardinality(S \ T) = Cardinality(S) - Cardinality(S \cap T)
        BY <4>4, FS_Difference
      <4>6. S \cap T = T
        BY <4>2, <4>3
      <4>7. QED
        BY <3>3, <4>2, <4>3, <4>4, <4>5, <4>6
    <3>4. QED
      BY <3>1, <3>2, <3>3 DEF LoosenedBy
  <2>3. QED
    BY <2>1, <2>2
<1>8. ASSUME NEW n \in Ids, is_root(v, n)
      PROVE  2 ^ k[n] <= v[n].sub_nodes
  <2>1. \A m \in Ids : is_root(u, m) => find_assist(u, i)[m] = u[m]
    BY FindKeeps
  <2>2. Shape(v, r, o, h, B)
    BY FindKeeps
  <2>3. r[n] = n
    BY <1>8, <2>2 DEF Shape, Rooted
  <2>4. is_root(u, n)
    BY <2>3 DEF Shape
  <2>5. QED
    BY <2>1, <2>4 DEF Counted
<1>9. QED
  BY <1>3, <1>7, <1>8 DEF Counted

-----------------------------------------------------------------------------
(* The ways and ranks that hooking lose on win gives.                      *)
HookedLines(a, win, lose) == [n \in Ids |-> IF lose \in a[n] THEN a[n] \cup {win} ELSE a[n]]

HookedRanks(k, win, lose) ==
  [n \in Ids |-> IF n = win /\ k[win] <= k[lose] THEN k[lose] + 1 ELSE k[n]]

LEMMA LinesOfHooked ==
  ASSUME NEW u, NEW r, NEW o, NEW h, NEW B, Shape(u, r, o, h, B),
         NEW win \in Ids, NEW lose \in Ids, is_root(u, win), is_root(u, lose),
         NEW v, Hooked(u, v, win, lose), NEW a, Lines(u, a), NEW k, Ranked(u, k),
         NEW b, b = HookedLines(a, win, lose), NEW l, l = HookedRanks(k, win, lose)
  PROVE  Lines(v, b) /\ Ranked(v, l)
<1>1. \A n \in Ids : is_root(v, n) <=> n # lose /\ is_root(u, n)
  BY DEF Hooked, is_root, Ids
<1>2. /\ win # lose /\ v[lose].parent = win /\ a[win] = {win} /\ a[lose] = {lose}
      /\ \A n \in Ids \ {win, lose} : v[n] = u[n]
  BY DEF Hooked, Lines
<1>3. \A n \in Ids : b[n] = IF lose \in a[n] THEN a[n] \cup {win} ELSE a[n]
  BY DEF HookedLines
<1>4. ASSUME NEW n \in Ids
      PROVE  b[n] = IF is_root(v, n) THEN {n} ELSE {n} \cup b[v[n].parent]
  <2>1. CASE is_root(u, n) /\ n # lose
    <3>1. a[n] = {n}
      BY <2>1 DEF Lines
    <3>2. QED
      BY <1>1, <1>3, <2>1, <3>1
  <2>2. CASE n = lose
    BY <1>1, <1>2, <1>3, <2>2
  <2>3. CASE ~ is_root(u, n)
    <3>1. n \notin {win, lose} /\ v[n] = u[n] /\ ~ is_root(v, n)
      BY <1>1, <1>2, <2>3
    <3>2. PICK p \in Ids : p = u[n].parent /\ a[n] = {n} \cup a[p]
      BY <2>3 DEF Lines, Shape, Hung
    <3>3. lose \in a[n] <=> lose \in a[p]
      BY <3>1, <3>2
    <3>4. b[n] = {n} \cup b[p]
      BY <1>3, <3>2, <3>3
    <3>5. QED
      BY <3>1, <3>2, <3>4
  <2>4. QED
    BY <2>1, <2>2, <2>3
<1>5. Lines(v, b)
  <2>1. \A n \in Ids : a[n] \in SUBSET Ids
    BY DEF Lines
  <2>2. b \in [Ids -> SUBSET Ids]
    BY <2>1 DEF HookedLines
  <2>3. QED
    BY <1>4, <2>2 DEF Lines
<1>6. /\ \A n \in Ids : l[n] = IF n = win /\ k[win] <= k[lose] THEN k[lose] + 1 ELSE k[n]
      /\ \A n \in Ids : k[n] \in Nat
  BY DEF HookedRanks, Ranked
<1>7. \A n \in Ids : l[n] \in Nat /\ k[n] <= l[n] /\ (n # win => l[n] = k[n])
  <2>1. ASSUME NEW n \in Ids
        PROVE  l[n] \in Nat /\ k[n] <= l[n] /\ (n # win => l[n] = k[n])
    <3>1. CASE n = win /\ k[win] <= k[lose]
      BY <1>6, <3>1
    <3>2. CASE ~ (n = win /\ k[win] <= k[lose])
      <4>1. l[n] = k[n] /\ k[n] \in Nat
        BY <1>6, <3>2
      <4>2. QED
        BY <4>1
    <3>3. QED
      BY <3>1, <3>2
  <2>2. QED
    BY <2>1
<1>8. ASSUME NEW n \in Ids, ~ is_root(v, n)
      PROVE  l[n] < l[v[n].parent]
  <2>1. CASE n = lose
    <3>1. l[lose] = k[lose] /\ k[lose] \in Nat /\ k[win] \in Nat
      BY <1>2, <1>6, <1>7
    <3>2. k[lose] < l[win]
      BY <1>6, <3>1
    <3>3. QED
      BY <1>2, <2>1, <3>1, <3>2
  <2>2. CASE n # lose
    <3>1. ~ is_root(u, n) /\ n # win
      BY <1>1, <1>8, <2>2
    <3>2. PICK p \in Ids : p = u[n].parent /\ k[n] < k[p]
      BY <3>1 DEF Ranked, Shape, Hung
    <3>3. l[n] = k[n] /\ k[p] <= l[p] /\ k[n] \in Nat /\ k[p] \in Nat /\ l[p] \in Nat
      BY <1>6, <1>7, <3>1
    <3>4. l[n] < l[p]
      BY <3>2, <3>3
    <3>5. v[n].parent = p
      BY <1>2, <2>2, <3>1, <3>2
    <3>6. QED
      BY <3>4, <3>5
  <2>3. QED
    BY <2>1, <2>2
<1>9. l \in [Ids -> Nat]
  <2>1. l = [n \in Ids |-> l[n]]
    BY DEF HookedRanks
  <2>2. QED
    BY <1>7, <2>1
<1>10. QED
  BY <1>5, <1>8, <1>9 DEF Ranked

LEMMA HookedCounts ==
  ASSUME NEW u, NEW r, NEW o, NEW h, NEW B, Shape(u, r, o, h, B),
         NEW win \in Ids, NEW lose \in Ids, is_root(u, win), is_root(u, lose),
         NEW v, Hooked(u, v, win, lose), Weighed(u, v, win, lose),
         NEW a, Lines(u, a), NEW k, Ranked(u, k), Counted(u, a, k),
         NEW b, b = HookedLines(a, win, lose), NEW l, l = HookedRanks(k, win, lose)
  PROVE  Counted(v, b, l)
<1>1. \A n \in Ids : Uphill(r, h, k, a, n)
  BY LinesRise
<1>2. \A n \in Ids : a[n] \in SUBSET Ids /\ k[n] \in Nat
  BY DEF Lines, Ranked
<1>3. win # lose /\ r[win] = win /\ r[lose] = lose
  BY DEF Hooked, Shape, Rooted
<1>4. \A n \in Ids : b[n] = IF lose \in a[n] THEN a[n] \cup {win} ELSE a[n]
  BY DEF HookedLines
<1>5. \A n \in Ids \ {win} : Below(b, n) = Below(a, n)
  <2>1. \A n \in Ids \ {win} : \A m \in Ids : n \in b[m] <=> n \in a[m]
    BY <1>4
  <2>2. QED
    BY <2>1 DEF Below
<1>6. PICK S, T : S = Below(a, win) /\ T = Below(a, lose)
  OBVIOUS
<1>7. Below(b, win) = S \cup T
  <2>1. \A m \in Ids : win \in b[m] <=> win \in a[m] \/ lose \in a[m]
    BY <1>4
  <2>2. QED
    BY <1>6, <2>1 DEF Below
<1>8. S \cap T = {}
  <2>1. ASSUME NEW m \in S \cap T
        PROVE  FALSE
    <3>1. m \in Ids /\ win \in a[m] /\ lose \in a[m]
      BY <1>6, <2>1 DEF Below
    <3>2. r[win] = r[m] /\ r[lose] = r[m]
      BY <1>1, <3>1 DEF Uphill
    <3>3. QED
      BY <1>3, <3>2
  <2>2. QED
    BY <2>1
<1>9. PICK x, y : /\ x = Cardinality(S) /\ y = Cardinality(T) /\ x \in Nat /\ y \in Nat
                  /\ IsFiniteSet(S) /\ IsFiniteSet(T)
                  /\ x = u[win].sub_nodes /\ y = u[lose].sub_nodes
  BY <1>6, BelowFinite DEF Counted
<1>10. Cardinality(S \cup T) = x + y
  <2>1. Cardinality(S \cup T) = Cardinality(S) + Cardinality(T)
    BY <1>8, <1>9, DisjointCardinality
  <2>2. QED
    BY <1>9, <2>1
<1>11. v[win].sub_nodes = x + y /\ v[lose].sub_nodes = y /\ y <= x
  BY <1>9 DEF Weighed
<1>12. ASSUME NEW n \in Ids
       PROVE  v[n].sub_nodes = Cardinality(Below(b, n))
  <2>1. CASE n = win
    BY <1>7, <1>10, <1>11, <2>1
  <2>2. CASE n = lose
    BY <1>3, <1>5, <1>6, <1>9, <1>11, <2>2
  <2>3. CASE n \notin {win, lose}
    <3>1. v[n] = u[n]
      BY <2>3 DEF Hooked
    <3>2. QED
      BY <1>5, <2>3, <3>1 DEF Counted
  <2>4. QED
    BY <2>1, <2>2, <2>3
<1>13. 2 ^ k[win] <= x /\ 2 ^ k[lose] <= y
  BY <1>9 DEF Counted
<1>14. /\ l[win] = IF k[win] <= k[lose] THEN k[lose] + 1 ELSE k[win]
       /\ \A n \in Ids \ {win} : l[n] = k[n]
  BY DEF HookedRanks
<1>15. 2 ^ l[win] <= x + y
  <2>1. CASE k[win] <= k[lose]
    <3>1. PICK p : p = 2 ^ k[lose] /\ p \in Nat /\ 2 ^ (k[lose] + 1) = 2 * p
      BY <1>2, Powers
    <3>2. 2 * p <= x + y
      BY <1>9, <1>11, <1>13, <3>1
    <3>3. QED
      BY <1>14, <2>1, <3>1, <3>2
  <2>2. CASE ~ (k[win] <= k[lose])
    <3>1. PICK p : p = 2 ^ k[win] /\ p \in Nat
      BY <1>2, Powers
    <3>2. p <= x + y
      BY <1>9, <1>13, <3>1
    <3>3. QED
      BY <1>14, <2>2, <3>1, <3>2
  <2>3. QED
    BY <2>1, <2>2
<1>16. ASSUME NEW n \in Ids, is_root(v, n)
       PROVE  2 ^ l[n] <= v[n].sub_nodes
  <2>1. CASE n = win
    BY <1>11, <1>15, <2>1
  <2>2. CASE n # win
    <3>1. n # lose
      BY <1>16 DEF Hooked, is_root, Ids
    <3>2. v[n] = u[n]
      BY <2>2, <3>1 DEF Hooked
    <3>3. is_root(u, n)
      BY <1>16, <3>2 DEF is_root
    <3>4. QED
      BY <1>14, <2>2, <3>2, <3>3 DEF Counted
  <2>3. QED
    BY <2>1, <2>2
<1>17. QED
  BY <1>12, <1>16 DEF Counted

-----------------------------------------------------------------------------
(* The invariant of the forest's sizes: no path is longer than the rank of *)
(* its root, although the rank survives the shortening of paths.           *)
Sized(u) ==
  \E r, o, h, B, a, k : Shape(u, r, o, h, B) /\ Lines(u, a) /\ Ranked(u, k) /\ Counted(u, a, k)

LEMMA FirstSizes == Sized(Unodes)
<1>1. PICK r, o, h, B : Shape(Unodes, r, o, h, B)
  BY FirstForest DEF Forest
<1> DEFINE a == [n \in Ids |-> {n}]
           k == [n \in Ids |-> 0]
<1>2. \A n \in Ids : is_root(Unodes, n) /\ Unodes[n].sub_nodes = 1
  BY DEF is_root, Unodes
<1>3. Lines(Unodes, a) /\ Ranked(Unodes, k)
  BY <1>2 DEF Lines, Ranked
<1>4. \A n \in Ids : Below(a, n) = {n}
  BY DEF Below
<1>5. \A n \in Ids : Cardinality(Below(a, n)) = 1 /\ 2 ^ k[n] = 1
  BY <1>4, FS_Singleton, Powers
<1>6. Counted(Unodes, a, k)
  BY <1>2, <1>5 DEF Counted
<1>7. QED
  BY <1>1, <1>3, <1>6 DEF Sized

LEMMA FindSizes ==
  ASSUME NEW u, Sized(u), NEW i \in Ids
  PROVE  Sized(find_assist(u, i))
<1>1. PICK r, o, h, B, a, k :
        Shape(u, r, o, h, B) /\ Lines(u, a) /\ Ranked(u, k) /\ Counted(u, a, k)
  BY DEF Sized
<1>2. PICK v : v = find_assist(u, i)
  OBVIOUS
<1>3. Shape(v, r, o, h, B)
  BY <1>1, <1>2, FindKeeps
<1>4. \E b : Lines(v, b) /\ Ranked(v, k) /\ Counted(v, b, k)
  BY <1>1, <1>2, FindCounts
<1>5. QED
  BY <1>2, <1>3, <1>4 DEF Sized

LEMMA UnionSizes ==
  ASSUME NEW u, Sized(u), NEW a \in Ids, NEW t \in Ids, NEW factor \in Int
  PROVE  Sized(Union(u, a, t, factor))
<1>1. PICK f : f = find_assist(find_assist(u, a), t)
  OBVIOUS
<1>2. Sized(f)
  BY <1>1, FindSizes
<1>3. CASE Root(u, a) = Root(u, t)
  BY <1>1, <1>2, <1>3 DEF Union
<1>4. CASE Root(u, a) # Root(u, t)
  <2>1. Forest(u)
    BY DEF Sized, Forest
  <2>2. Alike(u, f)
    BY <1>1, <2>1, BothFound
  <2>3. PICK first \in Ids, second \in Ids :
          /\ first = Root(u, a) /\ second = Root(u, t) /\ first # second
          /\ is_root(f, first) /\ is_root(f, second)
    BY <1>4, <2>1, <2>2, ForestRoots DEF Alike
  <2>4. PICK v : v = UnionRoots(f, first, second, factor)
    OBVIOUS
  <2>5. Union(u, a, t, factor) = v
    BY <1>1, <1>4, <2>3, <2>4 DEF Union
  <2>6. PICK r, o, h, B, b, k :
          Shape(f, r, o, h, B) /\ Lines(f, b) /\ Ranked(f, k) /\ Counted(f, b, k)
    BY <1>2 DEF Sized
  <2>7. PICK win \in {first, second}, lose \in {first, second} :
          Hooked(f, v, win, lose) /\ Weighed(f, v, win, lose)
    <3>1. f \in [Ids -> Unode]
      BY <2>6 DEF Shape
    <3>2. PICK gain : gain = factor * f[second].union_value
      OBVIOUS
    <3>3. \/ Hooked(f, v, first, second) /\ Weighed(f, v, first, second)
          \/ Hooked(f, v, second, first) /\ Weighed(f, v, second, first)
      BY <2>3, <2>4, <3>1, <3>2, UnionMerges
    <3>4. QED
      BY <3>3
  <2>8. win \in Ids /\ lose \in Ids /\ is_root(f, win) /\ is_root(f, lose)
    BY <2>3, <2>7
  <2>9. \E r2, o2, h2, B2 : Shape(v, r2, o2, h2, B2)
    BY <2>6, <2>7, <2>8, ShapeOfHooked
  <2>10. PICK c, l : c = HookedLines(b, win, lose) /\ l = HookedRanks(k, win, lose)
    OBVIOUS
  <2>11. Lines(v, c) /\ Ranked(v, l)
    BY <2>6, <2>7, <2>8, <2>10, LinesOfHooked
  <2>12. Counted(v, c, l)
    BY <2>6, <2>7, <2>8, <2>10, HookedCounts
  <2>13. Sized(v)
    BY <2>9, <2>11, <2>12 DEF Sized
  <2>14. QED
    BY <2>5, <2>13
<1>5. QED
  BY <1>3, <1>4

LEMMA SizedIsRight == Sized(arr) => SizesAreRight
<1> SUFFICES ASSUME Sized(arr)
             PROVE  SizesAreRight
  OBVIOUS
<1>1. PICK r, o, h, B, a, k :
        Shape(arr, r, o, h, B) /\ Lines(arr, a) /\ Ranked(arr, k) /\ Counted(arr, a, k)
  BY DEF Sized
<1>2. \A i \in Ids : Climbs(arr, r, h, k, a, i, Path(arr, i))
  BY <1>1, PathClimbs
<1>3. ASSUME NEW n \in Ids, NEW i \in Ids
      PROVE  i \in ToSet(Path(arr, n)) <=> i \in a[n]
  <2>1. PICK q : q = Path(arr, n)
    OBVIOUS
  <2>2. Climbs(arr, r, h, k, a, n, q)
    BY <1>2, <2>1
  <2>3. DOMAIN q = 1 .. Len(q)
    BY <2>2 DEF Climbs
  <2>4. i \in ToSet(q) <=> \E j \in 1 .. Len(q) : q[j] = i
    BY <2>3 DEF ToSet
  <2>5. QED
    BY <2>1, <2>2, <2>4 DEF Climbs
<1>4. ASSUME NEW i \in Ids
      PROVE  arr[i].sub_nodes = Cardinality({n \in Ids : i \in ToSet(Path(arr, n))})
  <2>1. {n \in Ids : i \in ToSet(Path(arr, n))} = Below(a, i)
    BY <1>3 DEF Below
  <2>2. QED
    BY <1>1, <2>1 DEF Counted
<1>5. ASSUME NEW i \in Ids
      PROVE  2 ^ (Len(Path(arr, i)) - 1) <= arr[Root(arr, i)].sub_nodes
  <2>1. PICK z \in Ids : z = r[i] /\ is_root(arr, z)
    BY <1>1 DEF Shape
  <2>2. Root(arr, i) = z
    BY <1>1, <2>1, RootIs
  <2>3. PICK p : p = Len(Path(arr, i))
    OBVIOUS
  <2>4. p \in Nat \ {0} /\ p - 1 + k[i] <= k[z] /\ k[i] \in Nat /\ k[z] \in Nat
    BY <1>1, <1>2, <2>1, <2>3 DEF Climbs, Ranked
  <2>5. p - 1 \in Nat /\ p - 1 <= k[z]
    BY <2>4
  <2>6. 2 ^ (p - 1) <= 2 ^ k[z] /\ 2 ^ (p - 1) \in Nat /\ 2 ^ k[z] \in Nat
    BY <2>4, <2>5, Powers
  <2>7. PICK s : s = arr[z].sub_nodes /\ s \in Nat
    <3>1. arr[z].sub_nodes = Cardinality(Below(a, z))
      BY <1>1 DEF Counted
    <3>2. QED
      BY <3>1, BelowFinite
  <2>8. 2 ^ k[z] <= s
    BY <1>1, <2>1, <2>7 DEF Counted
  <2>9. PICK x \in Nat, y \in Nat : x = 2 ^ (p - 1) /\ y = 2 ^ k[z]
    BY <2>6
  <2>10. x <= s
    BY <2>6, <2>7, <2>8, <2>9
  <2>11. QED
    BY <2>2, <2>3, <2>7, <2>9, <2>10
<1>6. QED
  BY <1>4, <1>5 DEF SizesAreRight

(* uf.h: whatever unions and finds came before, every node counts those    *)
(* that hang from it, and no path is longer than the logarithm of its      *)
(* group, so that no call walks far.                                       *)
THEOREM PathsStayShort == Spec => []SizesAreRight
<1>1. Init => Sized(arr)
  BY FirstSizes DEF Init
<1>2. Sized(arr) /\ [Next]_arr => Sized(arr)'
  <2> SUFFICES ASSUME Sized(arr), [Next]_arr
               PROVE  Sized(arr')
    BY DEF Sized
  <2>1. CASE arr' = arr
    BY <2>1
  <2>2. ASSUME NEW i \in Ids, Find(i)
        PROVE  Sized(arr')
    BY <2>2, FindSizes DEF Find
  <2>3. ASSUME NEW a \in Ids, NEW t \in Ids, NEW factor \in Factors, Acquire(a, t, factor)
        PROVE  Sized(arr')
    <3>1. factor \in Int
      BY UnionFindAssumption
    <3>2. QED
      BY <2>3, <3>1, UnionSizes DEF Acquire
  <2>4. QED
    BY <2>1, <2>2, <2>3 DEF Next
<1>3. QED
  BY <1>1, <1>2, SizedIsRight, PTL DEF Spec

-----------------------------------------------------------------------------
(* The employees of tables: sums of grades over sets of keys.              *)
Graded(S) == IsFiniteSet(S) /\ \A k \in S : k.grade \in Nat

LEMMA GradedPart == ASSUME NEW S, Graded(S), NEW T \in SUBSET S PROVE Graded(T)
BY FS_Subset DEF Graded

LEMMA GradesAre ==
  ASSUME NEW S, Graded(S)
  PROVE  /\ SumGrades(S) \in Int
         /\ S = {} => SumGrades(S) = 0
         /\ \A k \in S : SumGrades(S) = k.grade + SumGrades(S \ {k})
<1> DEFINE val == [k \in S |-> k.grade]
           Step(f, T) == [s \in SUBSET T |->
                            IF s = {} THEN 0 ELSE OneOf(s).grade + f[s \ {OneOf(s)}]]
           Within(T) == CHOOSE f : f = Step(f, T)
<1>1. \A T : SumGrades(T) = Within(T)[T]
  BY DEF SumGrades, MapThenSumSet, MapThenFoldSet, OneOf
<1>2. ASSUME NEW T \in SUBSET S, NEW f
      PROVE  Step(f, T) = SumStep(val, f, SUBSET T)
  <2>1. ASSUME NEW s \in SUBSET T, s # {}
        PROVE  val[OneOf(s)] = OneOf(s).grade
    <3>1. OneOf(s) \in S
      BY <2>1, OneOfIsIn
    <3>2. QED
      BY <3>1
  <2> HIDE DEF val
  <2>2. QED
    BY <2>1 DEF SumStep
<1>3. IsValued(val, S)
  BY DEF Graded, IsValued
<1>4. ASSUME NEW T \in SUBSET S
      PROVE  Sums(val, Within(T), T)
  <2>1. IsValued(val, T)
    BY <1>3, FS_Subset DEF IsValued
  <2> HIDE DEF val, Step
  <2>2. \E f : Sums(val, f, T)
    BY <2>1, SumExists
  <2>3. \E f : f = Step(f, T)
    BY <1>2, <2>2 DEF Sums
  <2>4. PICK f : f = Within(T)
    OBVIOUS
  <2>5. f = Step(f, T)
    BY <2>3, <2>4
  <2>6. QED
    BY <1>2, <2>4, <2>5 DEF Sums
<1> HIDE DEF Within
<1>5. PICK total : /\ IsTotal(total, val, S)
                   /\ \A T \in SUBSET S : \A f : Sums(val, f, T) => f[T] = total[T]
  BY <1>3, TotalExists
<1>6. \A T \in SUBSET S : SumGrades(T) = total[T]
  BY <1>1, <1>4, <1>5
<1>7. S \in SUBSET S /\ \A k \in S : S \ {k} \in SUBSET S /\ val[k] = k.grade
  OBVIOUS
<1> HIDE DEF val
<1>8. SumGrades(S) \in Int /\ (S = {} => SumGrades(S) = 0)
  BY <1>5, <1>6, <1>7 DEF IsTotal
<1>9. ASSUME NEW k \in S
      PROVE  SumGrades(S) = k.grade + SumGrades(S \ {k})
  <2>1. total[S] = val[k] + total[S \ {k}]
    BY <1>5, <1>7 DEF IsTotal
  <2>2. SumGrades(S) = total[S] /\ SumGrades(S \ {k}) = total[S \ {k}]
    BY <1>6, <1>7
  <2>3. QED
    BY <1>7, <2>1, <2>2
<1>10. QED
  BY <1>8, <1>9

LEMMA GradesNatural == ASSUME NEW S, Graded(S) PROVE SumGrades(S) \in Nat
<1> DEFINE D == {T \in SUBSET S : SumGrades(T) \notin Nat}
<1>1. \A T \in D : IsFiniteSet(T) /\ Graded(T)
  BY GradedPart DEF Graded
<1>2. ASSUME D # {}
      PROVE  FALSE
  <2>1. PICK T \in D : \A x \in T : T \ {x} \notin D
    BY <1>1, <1>2, SmallestSet
  <2>2. CASE T = {}
    BY <1>1, <2>1, <2>2, GradesAre
  <2>3. CASE T # {}
    <3>1. PICK x \in T : TRUE
      BY <2>3
    <3>2. SumGrades(T) = x.grade + SumGrades(T \ {x})
      BY <1>1, <2>1, GradesAre
    <3>3. SumGrades(T \ {x}) \in Nat /\ x.grade \in Nat
      BY <2>1 DEF Graded
    <3>4. QED
      BY <2>1, <3>2, <3>3
  <2>4. QED
    BY <2>2, <2>3
<1>3. QED
  BY <1>2

LEMMA GradesOfUnion ==
  ASSUME NEW A, NEW C, Graded(A), Graded(C), A \cap C = {}
  PROVE  SumGrades(A \cup C) = SumGrades(A) + SumGrades(C)
<1> DEFINE D == {T \in SUBSET C : SumGrades(A \cup T) # SumGrades(A) + SumGrades(T)}
<1>1. \A T \in SUBSET C : IsFiniteSet(T) /\ Graded(T) /\ Graded(A \cup T)
  <2>1. ASSUME NEW T \in SUBSET C
        PROVE  IsFiniteSet(T) /\ Graded(T) /\ Graded(A \cup T)
    <3>1. Graded(T)
      BY GradedPart
    <3>2. IsFiniteSet(A \cup T)
      BY <3>1, FS_Union DEF Graded
    <3>3. QED
      BY <3>1, <3>2 DEF Graded
  <2>2. QED
    BY <2>1
<1>2. SumGrades(A) \in Int
  BY GradesAre
<1>3. ASSUME D # {}
      PROVE  FALSE
  <2>1. PICK T \in D : \A x \in T : T \ {x} \notin D
    BY <1>1, <1>3, SmallestSet
  <2>2. CASE T = {}
    <3>1. A \cup T = A /\ SumGrades(T) = 0
      BY <1>1, <2>1, <2>2, GradesAre
    <3>2. QED
      BY <1>2, <2>1, <3>1
  <2>3. CASE T # {}
    <3>1. PICK x \in T : TRUE
      BY <2>3
    <3>2. SumGrades(T) = x.grade + SumGrades(T \ {x})
      BY <1>1, <2>1, GradesAre
    <3>3. SumGrades(A \cup T) = x.grade + SumGrades((A \cup T) \ {x})
      BY <1>1, <2>1, GradesAre
    <3>4. (A \cup T) \ {x} = A \cup (T \ {x})
      BY <2>1
    <3>5. SumGrades(A \cup (T \ {x})) = SumGrades(A) + SumGrades(T \ {x})
      BY <2>1
    <3>6. x.grade \in Nat /\ SumGrades(T \ {x}) \in Int
      <4>1. T \ {x} \in SUBSET C
        BY <2>1
      <4>2. QED
        BY <1>1, <2>1, <4>1, GradesAre DEF Graded
    <3>7. PICK p \in Int, q \in Int, g \in Int :
            p = SumGrades(A) /\ q = SumGrades(T \ {x}) /\ g = x.grade
      BY <1>2, <3>6
    <3>8. SumGrades(A \cup T) = g + (p + q) /\ SumGrades(A) + SumGrades(T) = p + (g + q)
      BY <3>2, <3>3, <3>4, <3>5, <3>7
    <3>9. g + (p + q) = p + (g + q)
      OBVIOUS
    <3>10. QED
      BY <2>1, <3>8, <3>9
  <2>4. QED
    BY <2>2, <2>3
<1>4. C \notin D
  BY <1>3
<1>5. QED
  BY <1>4

-----------------------------------------------------------------------------
(* What a table of employees says should be in the trees and totals.       *)
Data == [salary : 0 .. MaxSalary, grade : 0 .. MaxGrade]

Table(ht) == ht \in [DOMAIN ht -> Data] /\ IsFiniteSet(DOMAIN ht)

UnpaidKeys(ht) == {Key(e, ht[e]) : e \in Unpaid(ht)}

EmpsOf(ht) == Cardinality(Unpaid(ht))

GradesOf(ht) == SumGrades(UnpaidKeys(ht))

LEMMA DataTypes ==
  ASSUME NEW d \in Data
  PROVE  /\ d.salary \in Nat /\ d.salary <= MaxSalary
         /\ d.grade \in Nat /\ d.grade <= MaxGrade
         /\ d = [salary |-> d.salary, grade |-> d.grade]
BY ComplexAssumption DEF Data

LEMMA KeysDiffer ==
  ASSUME NEW e, NEW f, NEW d, NEW c, e # f
  PROVE  Key(e, d) # Key(f, c)
<1>1. Key(e, d).id = e /\ Key(f, c).id = f
  BY DEF Key
<1>2. QED
  BY <1>1

LEMMA UnpaidFinite ==
  ASSUME NEW ht, Table(ht)
  PROVE  /\ IsFiniteSet(Unpaid(ht)) /\ Graded(UnpaidKeys(ht))
         /\ EmpsOf(ht) \in Nat /\ GradesOf(ht) \in Nat
<1>1. IsFiniteSet(Unpaid(ht))
  BY FS_Subset DEF Table, Unpaid
<1> DEFINE k == [e \in Unpaid(ht) |-> Key(e, ht[e])]
<1>2. \A e \in Unpaid(ht) : k[e] = Key(e, ht[e]) /\ k[e] \in UnpaidKeys(ht)
  BY DEF UnpaidKeys
<1>3. k \in Bijection(Unpaid(ht), UnpaidKeys(ht))
  <2>1. k \in [Unpaid(ht) -> UnpaidKeys(ht)]
    BY DEF UnpaidKeys
  <2>2. \A e, f \in Unpaid(ht) : k[e] = k[f] => e = f
    BY <1>2, KeysDiffer
  <2>3. \A x \in UnpaidKeys(ht) : \E e \in Unpaid(ht) : k[e] = x
    BY <1>2 DEF UnpaidKeys
  <2> HIDE DEF k
  <2>4. QED
    BY <2>1, <2>2, <2>3 DEF Bijection, Injection, Surjection, IsInjective
<1> HIDE DEF k
<1>4. IsFiniteSet(UnpaidKeys(ht))
  BY <1>1, <1>3, FS_Bijection DEF ExistsBijection
<1>5. \A x \in UnpaidKeys(ht) : x.grade \in Nat
  <2>1. ASSUME NEW e \in Unpaid(ht)
        PROVE  Key(e, ht[e]).grade \in Nat
    <3>1. ht[e] \in Data
      BY DEF Unpaid, Table
    <3>2. QED
      BY <3>1, DataTypes DEF Key
  <2>2. QED
    BY <2>1 DEF UnpaidKeys
<1>6. Graded(UnpaidKeys(ht))
  BY <1>4, <1>5 DEF Graded
<1>7. QED
  BY <1>1, <1>6, FS_CardinalityType, GradesNatural DEF EmpsOf, GradesOf

(* The part of an employee in the tree and in the totals of its table.     *)
TreePart(e, d) == IF d.salary > 0 THEN {Key(e, d)} ELSE {}

EmpsPart(d) == IF d.salary > 0 THEN 0 ELSE 1

GradePart(d) == IF d.salary > 0 THEN 0 ELSE d.grade

(* The table less is ht without the employee e, who is d in ht.            *)
LessBy(less, ht, e, d) ==
  /\ Table(less) /\ DOMAIN less = DOMAIN ht \ {e} /\ DOMAIN ht = DOMAIN less \cup {e}
  /\ Roster(less) = Roster(ht) \ {Key(e, d)}
  /\ Roster(ht) = Roster(less) \cup TreePart(e, d)
  /\ EmpsOf(ht) = EmpsOf(less) + EmpsPart(d)
  /\ GradesOf(ht) = GradesOf(less) + GradePart(d)

LEMMA BooksWithout ==
  ASSUME NEW ht, Table(ht), NEW e \in DOMAIN ht
  PROVE  LessBy(Without(ht, e), ht, e, ht[e])
<1> SUFFICES ASSUME NEW d, d = ht[e], NEW less, less = Without(ht, e)
             PROVE  LessBy(less, ht, e, d)
  OBVIOUS
<1>1. DOMAIN less = DOMAIN ht \ {e} /\ DOMAIN ht = DOMAIN less \cup {e} /\ \A f \in DOMAIN less : less[f] = ht[f]
  BY DEF Without
<1>2. Table(less)
  <2>1. less = [f \in DOMAIN less |-> less[f]]
    BY DEF Without
  <2>2. \A f \in DOMAIN less : less[f] \in Data
    BY <1>1 DEF Table
  <2>3. IsFiniteSet(DOMAIN less)
    BY <1>1, FS_Subset DEF Table
  <2>4. QED
    BY <2>1, <2>2, <2>3 DEF Table
<1>3. d \in Data /\ d.salary \in Nat /\ d.grade \in Nat
  BY DataTypes DEF Table
<1>4. \A f \in DOMAIN less : Key(f, ht[f]) # Key(e, d)
  BY <1>1, KeysDiffer
<1>5. Roster(less) = Roster(ht) \ {Key(e, d)}
  BY <1>1, <1>4 DEF Roster
<1>6. Roster(ht) = Roster(less) \cup TreePart(e, d)
  BY <1>1, <1>3 DEF Roster, TreePart
<1>7. Unpaid(less) = Unpaid(ht) \ {e}
  BY <1>1 DEF Unpaid
<1>8. UnpaidKeys(less) = UnpaidKeys(ht) \ {Key(e, d)}
  <2>1. UnpaidKeys(less) \subseteq UnpaidKeys(ht) \ {Key(e, d)}
    <3>1. ASSUME NEW f \in Unpaid(less)
          PROVE  Key(f, less[f]) \in UnpaidKeys(ht) \ {Key(e, d)}
      <4>1. f \in DOMAIN less /\ f \in Unpaid(ht) /\ less[f] = ht[f]
        BY <1>1, <1>7 DEF Unpaid
      <4>2. QED
        BY <1>4, <4>1 DEF UnpaidKeys
    <3>2. QED
      BY <3>1 DEF UnpaidKeys
  <2>2. UnpaidKeys(ht) \ {Key(e, d)} \subseteq UnpaidKeys(less)
    <3>1. ASSUME NEW f \in Unpaid(ht), f # e
          PROVE  Key(f, ht[f]) \in UnpaidKeys(less)
      <4>1. f \in Unpaid(less) /\ less[f] = ht[f]
        BY <1>1, <1>7, <3>1 DEF Unpaid
      <4>2. QED
        BY <4>1 DEF UnpaidKeys
    <3>2. QED
      BY <3>1 DEF UnpaidKeys
  <2>3. QED
    BY <2>1, <2>2
<1>9. CASE d.salary > 0
  <2>1. e \notin Unpaid(ht)
    BY <1>3, <1>9 DEF Unpaid
  <2>2. Key(e, d) \notin UnpaidKeys(ht)
    BY <2>1, KeysDiffer DEF UnpaidKeys
  <2>3. Unpaid(less) = Unpaid(ht) /\ UnpaidKeys(less) = UnpaidKeys(ht)
    BY <1>7, <1>8, <2>1, <2>2
  <2>4. EmpsOf(less) = EmpsOf(ht) /\ GradesOf(less) = GradesOf(ht)
    BY <2>3 DEF EmpsOf, GradesOf
  <2>5. EmpsOf(ht) \in Nat /\ GradesOf(ht) \in Nat
    BY UnpaidFinite
  <2>6. QED
    BY <1>1, <1>2, <1>5, <1>6, <1>9, <2>4, <2>5 DEF EmpsPart, GradePart, LessBy
<1>10. CASE ~ (d.salary > 0)
  <2>1. e \in Unpaid(ht) /\ Key(e, d) \in UnpaidKeys(ht)
    BY <1>3, <1>10 DEF Unpaid, UnpaidKeys
  <2>2. IsFiniteSet(Unpaid(ht)) /\ Graded(UnpaidKeys(ht))
        /\ EmpsOf(less) \in Nat /\ GradesOf(less) \in Nat /\ EmpsOf(ht) \in Nat
    BY <1>2, UnpaidFinite
  <2>3. EmpsOf(less) = EmpsOf(ht) - 1
    BY <1>7, <2>1, <2>2, FS_RemoveElement DEF EmpsOf
  <2>4. GradesOf(ht) = d.grade + GradesOf(less)
    <3>1. SumGrades(UnpaidKeys(ht)) =
            Key(e, d).grade + SumGrades(UnpaidKeys(ht) \ {Key(e, d)})
      BY <2>1, <2>2, GradesAre
    <3>2. Key(e, d).grade = d.grade
      BY DEF Key
    <3>3. QED
      BY <1>8, <3>1, <3>2 DEF GradesOf
  <2>5. EmpsOf(ht) = EmpsOf(less) + 1 /\ GradesOf(ht) = GradesOf(less) + d.grade
    BY <1>3, <2>2, <2>3, <2>4
  <2>6. QED
    BY <1>1, <1>2, <1>5, <1>6, <1>10, <2>5 DEF EmpsPart, GradePart, LessBy
<1>11. QED
  BY <1>9, <1>10

(* Two tables taken together.                                              *)
Together(a, b) ==
  [e \in DOMAIN a \cup DOMAIN b |-> IF e \in DOMAIN a THEN a[e] ELSE b[e]]

LEMMA BooksTogether ==
  ASSUME NEW a, Table(a), NEW b, Table(b), DOMAIN a \cap DOMAIN b = {}
  PROVE  /\ Table(Together(a, b))
         /\ Roster(Together(a, b)) = Roster(a) \cup Roster(b)
         /\ EmpsOf(Together(a, b)) = EmpsOf(a) + EmpsOf(b)
         /\ GradesOf(Together(a, b)) = GradesOf(a) + GradesOf(b)
<1>1. PICK c : c = Together(a, b)
  OBVIOUS
<1>2. /\ DOMAIN c = DOMAIN a \cup DOMAIN b /\ c = [e \in DOMAIN c |-> c[e]]
      /\ \A e \in DOMAIN a : c[e] = a[e]
      /\ \A e \in DOMAIN b : c[e] = b[e]
  BY <1>1 DEF Together
<1>3. Table(c)
  <2>1. IsFiniteSet(DOMAIN c)
    <3>1. IsFiniteSet(DOMAIN a) /\ IsFiniteSet(DOMAIN b)
      BY DEF Table
    <3>2. IsFiniteSet(DOMAIN a \cup DOMAIN b)
      BY <3>1, FS_Union
    <3>3. QED
      BY <1>2, <3>2
  <2>2. \A e \in DOMAIN c : c[e] \in Data
    BY <1>2 DEF Table
  <2>3. QED
    BY <1>2, <2>1, <2>2 DEF Table
<1>4. Roster(c) = Roster(a) \cup Roster(b)
  BY <1>2 DEF Roster
<1>5. Unpaid(c) = Unpaid(a) \cup Unpaid(b) /\ Unpaid(a) \cap Unpaid(b) = {}
  BY <1>2 DEF Unpaid
<1>6. UnpaidKeys(c) = UnpaidKeys(a) \cup UnpaidKeys(b)
  <2>1. \A e \in Unpaid(a) : Key(e, c[e]) = Key(e, a[e])
    BY <1>2 DEF Unpaid
  <2>2. \A e \in Unpaid(b) : Key(e, c[e]) = Key(e, b[e])
    BY <1>2 DEF Unpaid
  <2>3. QED
    BY <1>5, <2>1, <2>2 DEF UnpaidKeys
<1>7. UnpaidKeys(a) \cap UnpaidKeys(b) = {}
  <2>1. \A e \in Unpaid(a), f \in Unpaid(b) : Key(e, a[e]) # Key(f, b[f])
    BY <1>5, KeysDiffer
  <2>2. QED
    BY <2>1 DEF UnpaidKeys
<1>8. EmpsOf(c) = EmpsOf(a) + EmpsOf(b)
  <2>1. IsFiniteSet(Unpaid(a)) /\ IsFiniteSet(Unpaid(b))
    BY UnpaidFinite
  <2>2. QED
    BY <1>5, <2>1, DisjointCardinality DEF EmpsOf
<1>9. GradesOf(c) = GradesOf(a) + GradesOf(b)
  <2>1. Graded(UnpaidKeys(a)) /\ Graded(UnpaidKeys(b))
    BY UnpaidFinite
  <2>2. QED
    BY <1>6, <1>7, <2>1, GradesOfUnion DEF GradesOf
<1>10. QED
  BY <1>1, <1>3, <1>4, <1>8, <1>9


-----------------------------------------------------------------------------
(* Tables with one employee more, less or changed.                          *)
LEMMA BooksWith ==
  ASSUME NEW ht, Table(ht), NEW e, e \notin DOMAIN ht, NEW d \in Data
  PROVE  Table(With(ht, e, d)) /\ LessBy(ht, With(ht, e, d), e, d)
<1>1. PICK more : more = With(ht, e, d)
  OBVIOUS
<1>2. /\ DOMAIN more = DOMAIN ht \cup {e} /\ more = [f \in DOMAIN more |-> more[f]]
      /\ more[e] = d
      /\ \A f \in DOMAIN ht : more[f] = ht[f]
  BY <1>1 DEF With
<1>3. Table(more)
  <2>1. IsFiniteSet(DOMAIN ht)
    BY DEF Table
  <2>2. IsFiniteSet(DOMAIN ht \cup {e})
    BY <2>1, FS_AddElement
  <2>3. \A f \in DOMAIN more : more[f] \in Data
    BY <1>2 DEF Table
  <2>4. IsFiniteSet(DOMAIN more)
    BY <1>2, <2>2
  <2>5. QED
    BY <1>2, <2>3, <2>4 DEF Table
<1>4. ht = Without(more, e)
  <2>1. ht = [f \in DOMAIN ht |-> ht[f]]
    BY DEF Table
  <2>2. DOMAIN more \ {e} = DOMAIN ht
    BY <1>2
  <2>3. QED
    BY <1>2, <2>1, <2>2 DEF Without
<1>5. e \in DOMAIN more
  BY <1>2
<1>6. LessBy(ht, more, e, d)
  BY <1>2, <1>3, <1>4, <1>5, BooksWithout
<1>7. QED
  BY <1>1, <1>3, <1>6

Replaced(ht, e, new) == [ht EXCEPT ![e] = new]

LEMMA BooksReplaced ==
  ASSUME NEW ht, Table(ht), NEW e \in DOMAIN ht, NEW new \in Data
  PROVE  \E less : LessBy(less, ht, e, ht[e]) /\ LessBy(less, Replaced(ht, e, new), e, new)
                   /\ Table(Replaced(ht, e, new))
<1>1. PICK less : less = Without(ht, e)
  OBVIOUS
<1>2. LessBy(less, ht, e, ht[e])
  BY <1>1, BooksWithout
<1>3. Replaced(ht, e, new) = With(less, e, new)
  BY <1>1 DEF With, Without, Table, Replaced
<1>4. Table(less) /\ e \notin DOMAIN less
  BY <1>2 DEF LessBy
<1>5. LessBy(less, With(less, e, new), e, new) /\ Table(With(less, e, new))
  BY <1>4, BooksWith
<1>6. QED
  BY <1>2, <1>3, <1>5

LEMMA Unclamped == \A m \in Nat, n \in Nat : ClampAtZero((m + n) - n) = m
BY DEF ClampAtZero

-----------------------------------------------------------------------------
(* A table with its tree and its totals, in the system and in a company.   *)
Totalled(s, m, h) == [s EXCEPT !.emps = m, !.grades = h]

SystemBook(ht, tree, n, g) == [all |-> ht, tree |-> tree, emps |-> n, grades |-> g]

LEMMA SystemFields ==
  ASSUME NEW ht, NEW tree, NEW n, NEW g, NEW s, s = SystemBook(ht, tree, n, g)
  PROVE  /\ s.all = ht /\ s.tree = tree /\ s.emps = n /\ s.grades = g
         /\ \A new : [s EXCEPT !.all = new] = SystemBook(new, tree, n, g)
         /\ \A new : [s EXCEPT !.tree = new] = SystemBook(ht, new, n, g)
         /\ \A new : [s EXCEPT !.grades = new] = SystemBook(ht, tree, n, new)
BY DEF SystemBook

LEMMA SystemTotals ==
  ASSUME NEW ht, NEW tree, NEW n, NEW g, NEW m, NEW h
  PROVE  Totalled(SystemBook(ht, tree, n, g), m, h) = SystemBook(ht, tree, m, h)
<1> DEFINE s == SystemBook(ht, tree, n, g)
           c == [s EXCEPT !.emps = m, !.grades = h]
<1>1. /\ DOMAIN c = {"all", "tree", "emps", "grades"} /\ c = [x \in DOMAIN c |-> c[x]]
      /\ c.all = ht /\ c.tree = tree /\ c.emps = m /\ c.grades = h
  BY DEF SystemBook
<1> HIDE DEF c
<1>2. c = SystemBook(ht, tree, m, h)
  BY <1>1 DEF SystemBook
<1>3. QED
  BY <1>2 DEF c, Totalled

LEMMA SystemCounts ==
  ASSUME NEW ht, NEW tree, NEW n, NEW g, NEW grade
  PROVE  /\ CountIn(SystemBook(ht, tree, n, g), grade) = SystemBook(ht, tree, n + 1, g + grade)
         /\ CountOut(SystemBook(ht, tree, n, g), grade)
              = SystemBook(ht, tree, ClampAtZero(n - 1), ClampAtZero(g - grade))
<1>1. PICK s : s = SystemBook(ht, tree, n, g)
  OBVIOUS
<1>2. s.emps = n /\ s.grades = g
  BY <1>1 DEF SystemBook
<1>3. CountIn(s, grade) = Totalled(s, n + 1, g + grade)
  BY <1>2, Zenon DEF CountIn, Totalled
<1>4. CountOut(s, grade) = Totalled(s, ClampAtZero(n - 1), ClampAtZero(g - grade))
  BY <1>2, Zenon DEF CountOut, Totalled
<1>5. \A m, h : Totalled(s, m, h) = SystemBook(ht, tree, m, h)
  BY <1>1, SystemTotals
<1>6. CountIn(s, grade) = SystemBook(ht, tree, n + 1, g + grade)
  BY <1>3, <1>5, Zenon
<1>7. CountOut(s, grade) = SystemBook(ht, tree, ClampAtZero(n - 1), ClampAtZero(g - grade))
  BY <1>4, <1>5, Zenon
<1>8. QED
  BY <1>1, <1>6, <1>7, Zenon

CompanyBook(ht, tree, n, g) == [ht |-> ht, tree |-> tree, emps |-> n, grades |-> g]

LEMMA CompanyFields ==
  ASSUME NEW ht, NEW tree, NEW n, NEW g, NEW s, s = CompanyBook(ht, tree, n, g)
  PROVE  /\ s.ht = ht /\ s.tree = tree /\ s.emps = n /\ s.grades = g
         /\ \A new : [s EXCEPT !.ht = new] = CompanyBook(new, tree, n, g)
         /\ \A new : [s EXCEPT !.tree = new] = CompanyBook(ht, new, n, g)
         /\ \A new : [s EXCEPT !.grades = new] = CompanyBook(ht, tree, n, new)
BY DEF CompanyBook

LEMMA CompanyTotals ==
  ASSUME NEW ht, NEW tree, NEW n, NEW g, NEW m, NEW h
  PROVE  Totalled(CompanyBook(ht, tree, n, g), m, h) = CompanyBook(ht, tree, m, h)
<1> DEFINE s == CompanyBook(ht, tree, n, g)
           c == [s EXCEPT !.emps = m, !.grades = h]
<1>1. /\ DOMAIN c = {"ht", "tree", "emps", "grades"} /\ c = [x \in DOMAIN c |-> c[x]]
      /\ c.ht = ht /\ c.tree = tree /\ c.emps = m /\ c.grades = h
  BY DEF CompanyBook
<1> HIDE DEF c
<1>2. c = CompanyBook(ht, tree, m, h)
  BY <1>1 DEF CompanyBook
<1>3. QED
  BY <1>2 DEF c, Totalled

LEMMA CompanyCounts ==
  ASSUME NEW ht, NEW tree, NEW n, NEW g, NEW grade
  PROVE  /\ CountIn(CompanyBook(ht, tree, n, g), grade) = CompanyBook(ht, tree, n + 1, g + grade)
         /\ CountOut(CompanyBook(ht, tree, n, g), grade)
              = CompanyBook(ht, tree, ClampAtZero(n - 1), ClampAtZero(g - grade))
<1>1. PICK s : s = CompanyBook(ht, tree, n, g)
  OBVIOUS
<1>2. s.emps = n /\ s.grades = g
  BY <1>1 DEF CompanyBook
<1>3. CountIn(s, grade) = Totalled(s, n + 1, g + grade)
  BY <1>2, Zenon DEF CountIn, Totalled
<1>4. CountOut(s, grade) = Totalled(s, ClampAtZero(n - 1), ClampAtZero(g - grade))
  BY <1>2, Zenon DEF CountOut, Totalled
<1>5. \A m, h : Totalled(s, m, h) = CompanyBook(ht, tree, m, h)
  BY <1>1, CompanyTotals
<1>6. CountIn(s, grade) = CompanyBook(ht, tree, n + 1, g + grade)
  BY <1>3, <1>5, Zenon
<1>7. CountOut(s, grade) = CompanyBook(ht, tree, ClampAtZero(n - 1), ClampAtZero(g - grade))
  BY <1>4, <1>5, Zenon
<1>8. QED
  BY <1>1, <1>6, <1>7, Zenon

SystemOf(ht) == SystemBook(ht, Roster(ht), EmpsOf(ht), GradesOf(ht))

CompanyOf(ht) == CompanyBook(ht, Roster(ht), EmpsOf(ht), GradesOf(ht))

(* What the operations do with these records.                              *)
SystemLess(s, e, d) ==
  LET Left(where) == IF d.salary > 0 THEN [where EXCEPT !.tree = @ \ {Key(e, d)}]
                     ELSE CountOut(where, d.grade)
  IN  [Left(s) EXCEPT !.all = Without(@, e)]

SystemRaise(s, e, old, new) ==
  LET Moved(where) == IF old.salary = 0
                      THEN CountOut([where EXCEPT !.tree = @ \cup {Key(e, new)}], old.grade)
                      ELSE Paid(where, Key(e, old), Key(e, new))
  IN  [Moved(s) EXCEPT !.all[e] = new]

SystemPromote(s, e, old, new, bump) ==
  LET Bumped(where) == IF old.salary = 0 THEN [where EXCEPT !.grades = @ + bump]
                       ELSE Paid(where, Key(e, old), Key(e, new))
  IN  [Bumped(s) EXCEPT !.all[e] = new]

CompanyLess(s, e, d) ==
  LET Left(where) == IF d.salary > 0 THEN [where EXCEPT !.tree = @ \ {Key(e, d)}]
                     ELSE CountOut(where, d.grade)
  IN  [Left(s) EXCEPT !.ht = Without(@, e)]

CompanyRaise(s, e, old, new) ==
  LET Moved(where) == IF old.salary = 0
                      THEN CountOut([where EXCEPT !.tree = @ \cup {Key(e, new)}], old.grade)
                      ELSE Paid(where, Key(e, old), Key(e, new))
  IN  [Moved(s) EXCEPT !.ht[e].salary = new.salary]

CompanyPromote(s, e, old, new, bump) ==
  LET Bumped(where) == IF old.salary = 0 THEN [where EXCEPT !.grades = @ + bump]
                       ELSE Paid(where, Key(e, old), Key(e, new))
  IN  [Bumped(s) EXCEPT !.ht[e] = new]

(* What each operation does to a table and what it records.                *)
LEMMA BooksAdded ==
  ASSUME NEW ht, Table(ht), NEW e, e \notin DOMAIN ht, NEW grade \in 0 .. MaxGrade,
         NEW d, d = [salary |-> 0, grade |-> grade]
  PROVE  LET more == With(ht, e, d) IN
         /\ Table(more) /\ Roster(more) = Roster(ht)
         /\ EmpsOf(more) = EmpsOf(ht) + 1 /\ GradesOf(more) = GradesOf(ht) + grade
<1>1. d \in Data /\ d.salary = 0 /\ d.grade = grade
  BY ComplexAssumption DEF Data
<1>2. PICK more : more = With(ht, e, d)
  OBVIOUS
<1>3. Table(more) /\ LessBy(ht, more, e, d)
  BY <1>1, <1>2, BooksWith
<1>4. QED
  BY <1>1, <1>2, <1>3 DEF TreePart, EmpsPart, GradePart, LessBy

LEMMA BooksRemoved ==
  ASSUME NEW ht, Table(ht), NEW e \in DOMAIN ht, NEW d, d = ht[e]
  PROVE  LET less == Without(ht, e) IN
         /\ Table(less) /\ Roster(less) = Roster(ht) \ {Key(e, d)}
         /\ d.salary > 0 => EmpsOf(ht) = EmpsOf(less) /\ GradesOf(ht) = GradesOf(less)
         /\ ~ (d.salary > 0) => /\ Roster(less) = Roster(ht)
                                /\ ClampAtZero(EmpsOf(ht) - 1) = EmpsOf(less)
                                /\ ClampAtZero(GradesOf(ht) - d.grade) = GradesOf(less)
<1>1. d \in Data /\ d.salary \in Nat /\ d.grade \in Nat
  BY DataTypes DEF Table
<1>2. PICK less : less = Without(ht, e)
  OBVIOUS
<1>3. LessBy(less, ht, e, d)
  BY <1>2, BooksWithout
<1>4. Table(less) /\ Roster(less) = Roster(ht) \ {Key(e, d)}
  BY <1>3 DEF LessBy
<1>5. EmpsOf(less) \in Nat /\ GradesOf(less) \in Nat
  BY <1>4, UnpaidFinite
<1>6. CASE d.salary > 0
  <2>1. EmpsOf(less) = EmpsOf(ht) /\ GradesOf(less) = GradesOf(ht)
    BY <1>3, <1>5, <1>6 DEF EmpsPart, GradePart, LessBy
  <2>2. QED
    BY <1>2, <1>4, <1>6, <2>1
<1>7. CASE ~ (d.salary > 0)
  <2>1. Roster(less) = Roster(ht)
    BY <1>3, <1>7 DEF TreePart, LessBy
  <2>2. EmpsOf(ht) = EmpsOf(less) + 1 /\ GradesOf(ht) = GradesOf(less) + d.grade
    BY <1>3, <1>7 DEF EmpsPart, GradePart, LessBy
  <2>3. ClampAtZero(EmpsOf(ht) - 1) = EmpsOf(less)
    BY <1>5, <2>2, Unclamped
  <2>4. ClampAtZero(GradesOf(ht) - d.grade) = GradesOf(less)
    BY <1>1, <1>5, <2>2, Unclamped
  <2>5. QED
    BY <1>2, <1>4, <1>7, <2>1, <2>3, <2>4
<1>8. QED
  BY <1>6, <1>7

LEMMA SystemAdded ==
  ASSUME NEW ht, Table(ht), NEW e, e \notin DOMAIN ht, NEW grade \in 0 .. MaxGrade,
         NEW d, d = [salary |-> 0, grade |-> grade]
  PROVE  CountIn([SystemOf(ht) EXCEPT !.all = With(@, e, d)], grade) = SystemOf(With(ht, e, d))
<1>1. PICK more : more = With(ht, e, d)
  OBVIOUS
<1>2. PICK s : s = SystemOf(ht)
  OBVIOUS
<1>3. [s EXCEPT !.all = With(@, e, d)] = SystemBook(more, Roster(ht), EmpsOf(ht), GradesOf(ht))
  <2>1. s.all = ht /\ [s EXCEPT !.all = more] = SystemBook(more, Roster(ht), EmpsOf(ht), GradesOf(ht))
    BY <1>2, SystemFields DEF SystemOf
  <2>2. QED
    BY <1>1, <2>1, Zenon
<1>4. CountIn(SystemBook(more, Roster(ht), EmpsOf(ht), GradesOf(ht)), grade)
        = SystemBook(more, Roster(ht), EmpsOf(ht) + 1, GradesOf(ht) + grade)
  BY SystemCounts
<1>5. Roster(more) = Roster(ht) /\ EmpsOf(more) = EmpsOf(ht) + 1 /\ GradesOf(more) = GradesOf(ht) + grade
  BY <1>1, BooksAdded
<1>6. QED
  BY <1>1, <1>2, <1>3, <1>4, <1>5, Zenon DEF SystemOf

LEMMA SystemRemoved ==
  ASSUME NEW ht, Table(ht), NEW e \in DOMAIN ht, NEW d, d = ht[e],
         NEW s, s = SystemOf(ht)
  PROVE  SystemLess(s, e, d) = SystemOf(Without(ht, e))
<1>1. PICK less : less = Without(ht, e)
  OBVIOUS
<1>2. /\ s.all = ht /\ s.tree = Roster(ht)
      /\ s = SystemBook(ht, Roster(ht), EmpsOf(ht), GradesOf(ht))
  BY SystemFields DEF SystemOf
<1>3. PICK t : t = Roster(ht) \ {Key(e, d)}
  OBVIOUS
<1>4. CASE d.salary > 0
  <2>1. PICK p : p = [s EXCEPT !.tree = t]
    OBVIOUS
  <2>2. p = [s EXCEPT !.tree = @ \ {Key(e, d)}]
    BY <1>2, <1>3, <2>1, Zenon
  <2>3. p = SystemBook(ht, t, EmpsOf(ht), GradesOf(ht))
    BY <1>2, <2>1, SystemFields
  <2>4. p.all = ht /\ [p EXCEPT !.all = less] = SystemBook(less, t, EmpsOf(ht), GradesOf(ht))
    BY <2>3, SystemFields
  <2>5. t = Roster(less) /\ EmpsOf(ht) = EmpsOf(less) /\ GradesOf(ht) = GradesOf(less)
    BY <1>1, <1>3, <1>4, BooksRemoved
  <2>6. [p EXCEPT !.all = Without(@, e)] = SystemOf(less)
    BY <1>1, <2>4, <2>5, Zenon DEF SystemOf
  <2>7. QED
    BY <1>1, <1>4, <2>2, <2>6, Zenon DEF SystemLess
<1>5. CASE ~ (d.salary > 0)
  <2>1. PICK p : p = CountOut(s, d.grade)
    OBVIOUS
  <2>2. p = SystemBook(ht, Roster(ht), ClampAtZero(EmpsOf(ht) - 1), ClampAtZero(GradesOf(ht) - d.grade))
    <3>1. CountOut(SystemBook(ht, Roster(ht), EmpsOf(ht), GradesOf(ht)), d.grade)
            = SystemBook(ht, Roster(ht), ClampAtZero(EmpsOf(ht) - 1),
                         ClampAtZero(GradesOf(ht) - d.grade))
      BY SystemCounts
    <3>2. QED
      BY <1>2, <2>1, <3>1, Zenon
  <2>3. /\ Roster(less) = Roster(ht)
        /\ ClampAtZero(EmpsOf(ht) - 1) = EmpsOf(less)
        /\ ClampAtZero(GradesOf(ht) - d.grade) = GradesOf(less)
    BY <1>1, <1>5, BooksRemoved
  <2>4. p = SystemBook(ht, Roster(less), EmpsOf(less), GradesOf(less))
    BY <2>2, <2>3, Zenon
  <2>5. p.all = ht /\ [p EXCEPT !.all = less] = SystemOf(less)
    BY <2>4, SystemFields DEF SystemOf
  <2>6. [p EXCEPT !.all = Without(@, e)] = SystemOf(less)
    BY <1>1, <2>5, Zenon
  <2>7. QED
    BY <1>1, <1>5, <2>1, <2>6, Zenon DEF SystemLess
<1>6. QED
  BY <1>4, <1>5

LEMMA CompanyAdded ==
  ASSUME NEW ht, Table(ht), NEW e, e \notin DOMAIN ht, NEW grade \in 0 .. MaxGrade,
         NEW d, d = [salary |-> 0, grade |-> grade]
  PROVE  CountIn([CompanyOf(ht) EXCEPT !.ht = With(@, e, d)], grade) = CompanyOf(With(ht, e, d))
<1>1. PICK more : more = With(ht, e, d)
  OBVIOUS
<1>2. PICK s : s = CompanyOf(ht)
  OBVIOUS
<1>3. [s EXCEPT !.ht = With(@, e, d)] = CompanyBook(more, Roster(ht), EmpsOf(ht), GradesOf(ht))
  <2>1. s.ht = ht /\ [s EXCEPT !.ht = more] = CompanyBook(more, Roster(ht), EmpsOf(ht), GradesOf(ht))
    BY <1>2, CompanyFields DEF CompanyOf
  <2>2. QED
    BY <1>1, <2>1, Zenon
<1>4. CountIn(CompanyBook(more, Roster(ht), EmpsOf(ht), GradesOf(ht)), grade)
        = CompanyBook(more, Roster(ht), EmpsOf(ht) + 1, GradesOf(ht) + grade)
  BY CompanyCounts
<1>5. Roster(more) = Roster(ht) /\ EmpsOf(more) = EmpsOf(ht) + 1 /\ GradesOf(more) = GradesOf(ht) + grade
  BY <1>1, BooksAdded
<1>6. QED
  BY <1>1, <1>2, <1>3, <1>4, <1>5, Zenon DEF CompanyOf

LEMMA CompanyRemoved ==
  ASSUME NEW ht, Table(ht), NEW e \in DOMAIN ht, NEW d, d = ht[e],
         NEW s, s = CompanyOf(ht)
  PROVE  CompanyLess(s, e, d) = CompanyOf(Without(ht, e))
<1>1. PICK less : less = Without(ht, e)
  OBVIOUS
<1>2. /\ s.ht = ht /\ s.tree = Roster(ht)
      /\ s = CompanyBook(ht, Roster(ht), EmpsOf(ht), GradesOf(ht))
  BY CompanyFields DEF CompanyOf
<1>3. PICK t : t = Roster(ht) \ {Key(e, d)}
  OBVIOUS
<1>4. CASE d.salary > 0
  <2>1. PICK p : p = [s EXCEPT !.tree = t]
    OBVIOUS
  <2>2. p = [s EXCEPT !.tree = @ \ {Key(e, d)}]
    BY <1>2, <1>3, <2>1, Zenon
  <2>3. p = CompanyBook(ht, t, EmpsOf(ht), GradesOf(ht))
    BY <1>2, <2>1, CompanyFields
  <2>4. p.ht = ht /\ [p EXCEPT !.ht = less] = CompanyBook(less, t, EmpsOf(ht), GradesOf(ht))
    BY <2>3, CompanyFields
  <2>5. t = Roster(less) /\ EmpsOf(ht) = EmpsOf(less) /\ GradesOf(ht) = GradesOf(less)
    BY <1>1, <1>3, <1>4, BooksRemoved
  <2>6. [p EXCEPT !.ht = Without(@, e)] = CompanyOf(less)
    BY <1>1, <2>4, <2>5, Zenon DEF CompanyOf
  <2>7. QED
    BY <1>1, <1>4, <2>2, <2>6, Zenon DEF CompanyLess
<1>5. CASE ~ (d.salary > 0)
  <2>1. PICK p : p = CountOut(s, d.grade)
    OBVIOUS
  <2>2. p = CompanyBook(ht, Roster(ht), ClampAtZero(EmpsOf(ht) - 1), ClampAtZero(GradesOf(ht) - d.grade))
    <3>1. CountOut(CompanyBook(ht, Roster(ht), EmpsOf(ht), GradesOf(ht)), d.grade)
            = CompanyBook(ht, Roster(ht), ClampAtZero(EmpsOf(ht) - 1),
                         ClampAtZero(GradesOf(ht) - d.grade))
      BY CompanyCounts
    <3>2. QED
      BY <1>2, <2>1, <3>1, Zenon
  <2>3. /\ Roster(less) = Roster(ht)
        /\ ClampAtZero(EmpsOf(ht) - 1) = EmpsOf(less)
        /\ ClampAtZero(GradesOf(ht) - d.grade) = GradesOf(less)
    BY <1>1, <1>5, BooksRemoved
  <2>4. p = CompanyBook(ht, Roster(less), EmpsOf(less), GradesOf(less))
    BY <2>2, <2>3, Zenon
  <2>5. p.ht = ht /\ [p EXCEPT !.ht = less] = CompanyOf(less)
    BY <2>4, CompanyFields DEF CompanyOf
  <2>6. [p EXCEPT !.ht = Without(@, e)] = CompanyOf(less)
    BY <1>1, <2>5, Zenon
  <2>7. QED
    BY <1>1, <1>5, <2>1, <2>6, Zenon DEF CompanyLess
<1>6. QED
  BY <1>4, <1>5

RaisedTo(old, new) ==
  \E raise \in 1 .. MaxSalary - old.salary : new = [old EXCEPT !.salary = @ + raise]

PromotedTo(old, new, bump) ==
  bump \in 1 .. MaxGrade - old.grade /\ new = [old EXCEPT !.grade = @ + bump]

LEMMA RaisedData ==
  ASSUME NEW old \in Data, NEW new, RaisedTo(old, new)
  PROVE  /\ new \in Data /\ old.salary \in Nat
         /\ new = [salary |-> new.salary, grade |-> old.grade]
         /\ new.salary > 0 /\ new.grade = old.grade
<1>1. PICK raise \in 1 .. MaxSalary - old.salary : new = [old EXCEPT !.salary = @ + raise]
  BY DEF RaisedTo
<1>2. PICK p, g : p = old.salary /\ g = old.grade
  OBVIOUS
<1>3. p \in Nat /\ p <= MaxSalary /\ g \in 0 .. MaxGrade /\ old = [salary |-> p, grade |-> g]
  BY <1>2, ComplexAssumption DEF Data
<1>4. new = [salary |-> p + raise, grade |-> g]
  BY <1>1, <1>2, <1>3
<1>5. p + raise \in 0 .. MaxSalary /\ p + raise > 0
  BY <1>1, <1>2, <1>3, ComplexAssumption
<1>6. new \in Data
  BY <1>3, <1>4, <1>5 DEF Data
<1>7. QED
  BY <1>2, <1>3, <1>4, <1>5, <1>6

LEMMA PromotedData ==
  ASSUME NEW old \in Data, NEW new, NEW bump, PromotedTo(old, new, bump)
  PROVE  /\ new \in Data /\ old.salary \in Nat /\ bump \in Nat
         /\ new = [salary |-> old.salary, grade |-> old.grade + bump]
         /\ new.salary = old.salary /\ new.grade = old.grade + bump
<1>1. PICK p, g : p = old.salary /\ g = old.grade
  OBVIOUS
<1>2. g \in Nat /\ g <= MaxGrade /\ p \in 0 .. MaxSalary /\ old = [salary |-> p, grade |-> g]
  BY <1>1, ComplexAssumption DEF Data
<1>3. new = [salary |-> p, grade |-> g + bump]
  BY <1>1, <1>2 DEF PromotedTo
<1>4. g + bump \in 0 .. MaxGrade /\ bump \in Nat /\ p \in Nat
  BY <1>1, <1>2, ComplexAssumption DEF PromotedTo
<1>5. new \in Data
  BY <1>2, <1>3, <1>4 DEF Data
<1>6. QED
  BY <1>1, <1>2, <1>3, <1>4, <1>5

(* What changes in the books when an employee does.                        *)
Rebooked(ht, changed, e, old, new) ==
  /\ Table(changed)
  /\ old.salary > 0 /\ new.salary > 0 =>
       /\ Roster(changed) = (Roster(ht) \ {Key(e, old)}) \cup {Key(e, new)}
       /\ EmpsOf(ht) = EmpsOf(changed) /\ GradesOf(ht) = GradesOf(changed)
  /\ old.salary = 0 /\ new.salary > 0 =>
       /\ Roster(changed) = Roster(ht) \cup {Key(e, new)}
       /\ ClampAtZero(EmpsOf(ht) - 1) = EmpsOf(changed)
       /\ ClampAtZero(GradesOf(ht) - old.grade) = GradesOf(changed)
  /\ old.salary = 0 /\ new.salary = 0 =>
       /\ Roster(changed) = Roster(ht) /\ EmpsOf(changed) = EmpsOf(ht)
       /\ \A bump \in Nat : new.grade = old.grade + bump =>
                              GradesOf(changed) = GradesOf(ht) + bump

LEMMA BooksChanged ==
  ASSUME NEW ht, Table(ht), NEW e \in DOMAIN ht, NEW new \in Data
  PROVE  Rebooked(ht, Replaced(ht, e, new), e, ht[e], new)
<1> SUFFICES ASSUME NEW old, old = ht[e] PROVE Rebooked(ht, Replaced(ht, e, new), e, old, new)
  OBVIOUS
<1>1. PICK changed : changed = Replaced(ht, e, new)
  OBVIOUS
<1>2. PICK less : LessBy(less, ht, e, old) /\ LessBy(less, changed, e, new) /\ Table(changed)
  BY <1>1, BooksReplaced
<1>3. /\ Roster(less) = Roster(ht) \ {Key(e, old)} /\ Table(less)
      /\ Roster(ht) = Roster(less) \cup TreePart(e, old)
      /\ Roster(changed) = Roster(less) \cup TreePart(e, new)
  BY <1>2 DEF LessBy
<1>4. PICK i \in Nat, p \in Nat : i = EmpsOf(less) /\ p = GradesOf(less)
  BY <1>3, UnpaidFinite
<1>5. PICK j, k, q, r : /\ j = EmpsOf(ht) /\ q = GradesOf(ht)
                       /\ k = EmpsOf(changed) /\ r = GradesOf(changed)
  OBVIOUS
<1>6. /\ j = i + EmpsPart(old) /\ q = p + GradePart(old)
      /\ k = i + EmpsPart(new) /\ r = p + GradePart(new)
  BY <1>2, <1>4, <1>5 DEF LessBy
<1>7. old \in Data /\ old.grade \in Nat /\ new.grade \in Nat
  BY DataTypes DEF Table
<1>8. ASSUME old.salary > 0, new.salary > 0
      PROVE  /\ Roster(changed) = (Roster(ht) \ {Key(e, old)}) \cup {Key(e, new)}
             /\ j = k /\ q = r
  BY <1>3, <1>6, <1>8 DEF TreePart, EmpsPart, GradePart
<1>9. ASSUME old.salary = 0, new.salary > 0
      PROVE  /\ Roster(changed) = Roster(ht) \cup {Key(e, new)}
             /\ ClampAtZero(j - 1) = k /\ ClampAtZero(q - old.grade) = r
  <2>1. Roster(changed) = Roster(ht) \cup {Key(e, new)}
    BY <1>3, <1>9 DEF TreePart
  <2>2. j = i + 1 /\ k = i /\ q = p + old.grade /\ r = p
    BY <1>6, <1>9 DEF EmpsPart, GradePart
  <2>3. QED
    BY <1>7, <2>1, <2>2, Unclamped
<1>10. ASSUME old.salary = 0, new.salary = 0
       PROVE  /\ Roster(changed) = Roster(ht) /\ k = j
              /\ \A bump \in Nat : new.grade = old.grade + bump => r = q + bump
  <2>1. Roster(changed) = Roster(ht)
    BY <1>3, <1>10 DEF TreePart
  <2>2. j = i + 1 /\ k = i + 1 /\ q = p + old.grade /\ r = p + new.grade
    BY <1>6, <1>10 DEF EmpsPart, GradePart
  <2>3. PICK g \in Nat, h \in Nat : g = old.grade /\ h = new.grade
    BY <1>7
  <2>4. \A bump \in Nat : h = g + bump => p + h = (p + g) + bump
    OBVIOUS
  <2>5. QED
    BY <2>1, <2>2, <2>3, <2>4
<1>11. QED
  BY <1>1, <1>2, <1>5, <1>8, <1>9, <1>10 DEF Rebooked

LEMMA SystemRaised ==
  ASSUME NEW ht, Table(ht), NEW e \in DOMAIN ht, NEW old, old = ht[e],
         NEW new, RaisedTo(old, new), NEW s, s = SystemOf(ht)
  PROVE  SystemRaise(s, e, old, new) = SystemOf(Replaced(ht, e, new))
<1>1. PICK changed : changed = Replaced(ht, e, new)
  OBVIOUS
<1>2. /\ s.all = ht /\ s.tree = Roster(ht)
      /\ s = SystemBook(ht, Roster(ht), EmpsOf(ht), GradesOf(ht))
  BY SystemFields DEF SystemOf
<1>3. /\ old \in Data /\ new \in Data /\ old.salary \in Nat
      /\ new = [salary |-> new.salary, grade |-> old.grade]
      /\ new.salary > 0 /\ new.grade = old.grade
  BY RaisedData DEF Table
<1>4. [ht EXCEPT ![e] = new] = changed
  BY <1>1 DEF Replaced
<1>5. Rebooked(ht, changed, e, old, new)
  BY <1>1, <1>3, BooksChanged
<1>6. CASE old.salary = 0
  <2>1. PICK t : t = Roster(ht) \cup {Key(e, new)}
    OBVIOUS
  <2>2. PICK p : p = [s EXCEPT !.tree = t]
    OBVIOUS
  <2>3. p = [s EXCEPT !.tree = @ \cup {Key(e, new)}]
    BY <1>2, <2>1, <2>2, Zenon
  <2>4. p = SystemBook(ht, t, EmpsOf(ht), GradesOf(ht))
    BY <1>2, <2>2, SystemFields
  <2>5. PICK q : q = CountOut(p, old.grade)
    OBVIOUS
  <2>6. CountOut(SystemBook(ht, t, EmpsOf(ht), GradesOf(ht)), old.grade)
          = SystemBook(ht, t, ClampAtZero(EmpsOf(ht) - 1), ClampAtZero(GradesOf(ht) - old.grade))
    BY SystemCounts
  <2>7. /\ Roster(changed) = t
        /\ ClampAtZero(EmpsOf(ht) - 1) = EmpsOf(changed)
        /\ ClampAtZero(GradesOf(ht) - old.grade) = GradesOf(changed)
    BY <1>3, <1>6, <1>5, <2>1 DEF Rebooked
  <2>8. q = SystemBook(ht, Roster(changed), EmpsOf(changed), GradesOf(changed))
    BY <2>4, <2>5, <2>6, <2>7, Zenon
  <2>9. q.all = ht /\ [q EXCEPT !.all = changed] = SystemOf(changed)
    BY <2>8, SystemFields DEF SystemOf
  <2>10. [q EXCEPT !.all[e] = new] = SystemOf(changed)
    BY <1>4, <2>9
  <2>11. QED
    BY <1>1, <1>6, <2>3, <2>5, <2>10, Zenon DEF SystemRaise
<1>7. CASE old.salary # 0
  <2>1. PICK t : t = (Roster(ht) \ {Key(e, old)}) \cup {Key(e, new)}
    OBVIOUS
  <2>2. PICK q : q = [s EXCEPT !.tree = t]
    OBVIOUS
  <2>3. q = Paid(s, Key(e, old), Key(e, new))
    BY <1>2, <2>1, <2>2, Zenon DEF Paid
  <2>4. q = SystemBook(ht, t, EmpsOf(ht), GradesOf(ht))
    BY <1>2, <2>2, SystemFields
  <2>5. Roster(changed) = t /\ EmpsOf(ht) = EmpsOf(changed) /\ GradesOf(ht) = GradesOf(changed)
    <3>1. old.salary > 0
      BY <1>3, <1>7
    <3>2. QED
      BY <1>3, <1>5, <2>1, <3>1 DEF Rebooked
  <2>6. q = SystemBook(ht, Roster(changed), EmpsOf(changed), GradesOf(changed))
    BY <2>4, <2>5, Zenon
  <2>7. q.all = ht /\ [q EXCEPT !.all = changed] = SystemOf(changed)
    BY <2>6, SystemFields DEF SystemOf
  <2>8. [q EXCEPT !.all[e] = new] = SystemOf(changed)
    BY <1>4, <2>7
  <2>9. QED
    BY <1>1, <1>7, <2>3, <2>8, Zenon DEF SystemRaise
<1>8. QED
  BY <1>6, <1>7

LEMMA CompanyRaised ==
  ASSUME NEW ht, Table(ht), NEW e \in DOMAIN ht, NEW old, old = ht[e],
         NEW new, RaisedTo(old, new), NEW s, s = CompanyOf(ht)
  PROVE  CompanyRaise(s, e, old, new) = CompanyOf(Replaced(ht, e, new))
<1>1. PICK changed : changed = Replaced(ht, e, new)
  OBVIOUS
<1>2. /\ s.ht = ht /\ s.tree = Roster(ht)
      /\ s = CompanyBook(ht, Roster(ht), EmpsOf(ht), GradesOf(ht))
  BY CompanyFields DEF CompanyOf
<1>3. /\ old \in Data /\ new \in Data /\ old.salary \in Nat
      /\ new = [salary |-> new.salary, grade |-> old.grade]
      /\ new.salary > 0 /\ new.grade = old.grade
  BY RaisedData DEF Table
<1>4. [ht EXCEPT ![e].salary = new.salary] = changed
  <2>1. [ht[e] EXCEPT !.salary = new.salary] = new
    BY <1>3 DEF Data
  <2>2. QED
    BY <1>1, <2>1, Zenon DEF Replaced
<1>5. Rebooked(ht, changed, e, old, new)
  BY <1>1, <1>3, BooksChanged
<1>6. CASE old.salary = 0
  <2>1. PICK t : t = Roster(ht) \cup {Key(e, new)}
    OBVIOUS
  <2>2. PICK p : p = [s EXCEPT !.tree = t]
    OBVIOUS
  <2>3. p = [s EXCEPT !.tree = @ \cup {Key(e, new)}]
    BY <1>2, <2>1, <2>2, Zenon
  <2>4. p = CompanyBook(ht, t, EmpsOf(ht), GradesOf(ht))
    BY <1>2, <2>2, CompanyFields
  <2>5. PICK q : q = CountOut(p, old.grade)
    OBVIOUS
  <2>6. CountOut(CompanyBook(ht, t, EmpsOf(ht), GradesOf(ht)), old.grade)
          = CompanyBook(ht, t, ClampAtZero(EmpsOf(ht) - 1), ClampAtZero(GradesOf(ht) - old.grade))
    BY CompanyCounts
  <2>7. /\ Roster(changed) = t
        /\ ClampAtZero(EmpsOf(ht) - 1) = EmpsOf(changed)
        /\ ClampAtZero(GradesOf(ht) - old.grade) = GradesOf(changed)
    BY <1>3, <1>6, <1>5, <2>1 DEF Rebooked
  <2>8. q = CompanyBook(ht, Roster(changed), EmpsOf(changed), GradesOf(changed))
    BY <2>4, <2>5, <2>6, <2>7, Zenon
  <2>9. q.ht = ht /\ [q EXCEPT !.ht = changed] = CompanyOf(changed)
    BY <2>8, CompanyFields DEF CompanyOf
  <2>10. [q EXCEPT !.ht[e].salary = new.salary] = CompanyOf(changed)
    BY <1>4, <2>9
  <2>11. QED
    BY <1>1, <1>6, <2>3, <2>5, <2>10, Zenon DEF CompanyRaise
<1>7. CASE old.salary # 0
  <2>1. PICK t : t = (Roster(ht) \ {Key(e, old)}) \cup {Key(e, new)}
    OBVIOUS
  <2>2. PICK q : q = [s EXCEPT !.tree = t]
    OBVIOUS
  <2>3. q = Paid(s, Key(e, old), Key(e, new))
    BY <1>2, <2>1, <2>2, Zenon DEF Paid
  <2>4. q = CompanyBook(ht, t, EmpsOf(ht), GradesOf(ht))
    BY <1>2, <2>2, CompanyFields
  <2>5. Roster(changed) = t /\ EmpsOf(ht) = EmpsOf(changed) /\ GradesOf(ht) = GradesOf(changed)
    <3>1. old.salary > 0
      BY <1>3, <1>7
    <3>2. QED
      BY <1>3, <1>5, <2>1, <3>1 DEF Rebooked
  <2>6. q = CompanyBook(ht, Roster(changed), EmpsOf(changed), GradesOf(changed))
    BY <2>4, <2>5, Zenon
  <2>7. q.ht = ht /\ [q EXCEPT !.ht = changed] = CompanyOf(changed)
    BY <2>6, CompanyFields DEF CompanyOf
  <2>8. [q EXCEPT !.ht[e].salary = new.salary] = CompanyOf(changed)
    BY <1>4, <2>7
  <2>9. QED
    BY <1>1, <1>7, <2>3, <2>8, Zenon DEF CompanyRaise
<1>8. QED
  BY <1>6, <1>7

LEMMA SystemPromoted ==
  ASSUME NEW ht, Table(ht), NEW e \in DOMAIN ht, NEW old, old = ht[e],
         NEW new, NEW bump, PromotedTo(old, new, bump), NEW s, s = SystemOf(ht)
  PROVE  SystemPromote(s, e, old, new, bump) = SystemOf(Replaced(ht, e, new))
<1>1. PICK changed : changed = Replaced(ht, e, new)
  OBVIOUS
<1>2. /\ s.all = ht /\ s.tree = Roster(ht) /\ s.grades = GradesOf(ht)
      /\ s = SystemBook(ht, Roster(ht), EmpsOf(ht), GradesOf(ht))
  BY SystemFields DEF SystemOf
<1>3. /\ old \in Data /\ new \in Data /\ old.salary \in Nat /\ bump \in Nat
      /\ new.salary = old.salary /\ new.grade = old.grade + bump
  BY PromotedData DEF Table
<1>4. Rebooked(ht, changed, e, old, new)
  BY <1>1, <1>3, BooksChanged
<1>5. CASE old.salary = 0
  <2>1. PICK g : g = GradesOf(ht) + bump
    OBVIOUS
  <2>2. PICK q : q = [s EXCEPT !.grades = g]
    OBVIOUS
  <2>3. q = [s EXCEPT !.grades = @ + bump]
    BY <1>2, <2>1, <2>2, Zenon
  <2>4. q = SystemBook(ht, Roster(ht), EmpsOf(ht), g)
    BY <1>2, <2>2, SystemFields
  <2>5. Roster(changed) = Roster(ht) /\ EmpsOf(changed) = EmpsOf(ht) /\ GradesOf(changed) = g
    BY <1>3, <1>4, <1>5, <2>1 DEF Rebooked
  <2>6. q = SystemBook(ht, Roster(changed), EmpsOf(changed), GradesOf(changed))
    BY <2>4, <2>5, Zenon
  <2>7. q.all = ht /\ [q EXCEPT !.all = changed] = SystemOf(changed)
    BY <2>6, SystemFields DEF SystemOf
  <2>8. [q EXCEPT !.all[e] = new] = SystemOf(changed)
    BY <1>1, <2>7 DEF Replaced
  <2>9. QED
    BY <1>1, <1>5, <2>3, <2>8, Zenon DEF SystemPromote
<1>6. CASE old.salary # 0
  <2>1. PICK t : t = (Roster(ht) \ {Key(e, old)}) \cup {Key(e, new)}
    OBVIOUS
  <2>2. PICK q : q = [s EXCEPT !.tree = t]
    OBVIOUS
  <2>3. q = Paid(s, Key(e, old), Key(e, new))
    BY <1>2, <2>1, <2>2, Zenon DEF Paid
  <2>4. q = SystemBook(ht, t, EmpsOf(ht), GradesOf(ht))
    BY <1>2, <2>2, SystemFields
  <2>5. Roster(changed) = t /\ EmpsOf(ht) = EmpsOf(changed) /\ GradesOf(ht) = GradesOf(changed)
    <3>1. old.salary > 0 /\ new.salary > 0
      BY <1>3, <1>6
    <3>2. QED
      BY <1>4, <2>1, <3>1 DEF Rebooked
  <2>6. q = SystemBook(ht, Roster(changed), EmpsOf(changed), GradesOf(changed))
    BY <2>4, <2>5, Zenon
  <2>7. q.all = ht /\ [q EXCEPT !.all = changed] = SystemOf(changed)
    BY <2>6, SystemFields DEF SystemOf
  <2>8. [q EXCEPT !.all[e] = new] = SystemOf(changed)
    BY <1>1, <2>7 DEF Replaced
  <2>9. QED
    BY <1>1, <1>6, <2>3, <2>8, Zenon DEF SystemPromote
<1>7. QED
  BY <1>5, <1>6

LEMMA CompanyPromoted ==
  ASSUME NEW ht, Table(ht), NEW e \in DOMAIN ht, NEW old, old = ht[e],
         NEW new, NEW bump, PromotedTo(old, new, bump), NEW s, s = CompanyOf(ht)
  PROVE  CompanyPromote(s, e, old, new, bump) = CompanyOf(Replaced(ht, e, new))
<1>1. PICK changed : changed = Replaced(ht, e, new)
  OBVIOUS
<1>2. /\ s.ht = ht /\ s.tree = Roster(ht) /\ s.grades = GradesOf(ht)
      /\ s = CompanyBook(ht, Roster(ht), EmpsOf(ht), GradesOf(ht))
  BY CompanyFields DEF CompanyOf
<1>3. /\ old \in Data /\ new \in Data /\ old.salary \in Nat /\ bump \in Nat
      /\ new.salary = old.salary /\ new.grade = old.grade + bump
  BY PromotedData DEF Table
<1>4. Rebooked(ht, changed, e, old, new)
  BY <1>1, <1>3, BooksChanged
<1>5. CASE old.salary = 0
  <2>1. PICK g : g = GradesOf(ht) + bump
    OBVIOUS
  <2>2. PICK q : q = [s EXCEPT !.grades = g]
    OBVIOUS
  <2>3. q = [s EXCEPT !.grades = @ + bump]
    BY <1>2, <2>1, <2>2, Zenon
  <2>4. q = CompanyBook(ht, Roster(ht), EmpsOf(ht), g)
    BY <1>2, <2>2, CompanyFields
  <2>5. Roster(changed) = Roster(ht) /\ EmpsOf(changed) = EmpsOf(ht) /\ GradesOf(changed) = g
    BY <1>3, <1>4, <1>5, <2>1 DEF Rebooked
  <2>6. q = CompanyBook(ht, Roster(changed), EmpsOf(changed), GradesOf(changed))
    BY <2>4, <2>5, Zenon
  <2>7. q.ht = ht /\ [q EXCEPT !.ht = changed] = CompanyOf(changed)
    BY <2>6, CompanyFields DEF CompanyOf
  <2>8. [q EXCEPT !.ht[e] = new] = CompanyOf(changed)
    BY <1>1, <2>7 DEF Replaced
  <2>9. QED
    BY <1>1, <1>5, <2>3, <2>8, Zenon DEF CompanyPromote
<1>6. CASE old.salary # 0
  <2>1. PICK t : t = (Roster(ht) \ {Key(e, old)}) \cup {Key(e, new)}
    OBVIOUS
  <2>2. PICK q : q = [s EXCEPT !.tree = t]
    OBVIOUS
  <2>3. q = Paid(s, Key(e, old), Key(e, new))
    BY <1>2, <2>1, <2>2, Zenon DEF Paid
  <2>4. q = CompanyBook(ht, t, EmpsOf(ht), GradesOf(ht))
    BY <1>2, <2>2, CompanyFields
  <2>5. Roster(changed) = t /\ EmpsOf(ht) = EmpsOf(changed) /\ GradesOf(ht) = GradesOf(changed)
    <3>1. old.salary > 0 /\ new.salary > 0
      BY <1>3, <1>6
    <3>2. QED
      BY <1>4, <2>1, <3>1 DEF Rebooked
  <2>6. q = CompanyBook(ht, Roster(changed), EmpsOf(changed), GradesOf(changed))
    BY <2>4, <2>5, Zenon
  <2>7. q.ht = ht /\ [q EXCEPT !.ht = changed] = CompanyOf(changed)
    BY <2>6, CompanyFields DEF CompanyOf
  <2>8. [q EXCEPT !.ht[e] = new] = CompanyOf(changed)
    BY <1>1, <2>7 DEF Replaced
  <2>9. QED
    BY <1>1, <1>6, <2>3, <2>8, Zenon DEF CompanyPromote
<1>7. QED
  BY <1>5, <1>6

-----------------------------------------------------------------------------
(* The employees of a company, and what every copy of them says: the       *)
(* inductive form of StructuresAgree.                                      *)
PartOf(all, cells, r) == [e \in {d \in DOMAIN cells : cells[d] = r} |-> all[e]]

Cells(all) == [DOMAIN all -> Ids]

Booked(u, all, comps, cells) ==
  /\ Forest(u) /\ Table(all)
  /\ cells \in Cells(all) /\ \A e \in DOMAIN all : is_root(u, cells[e])
  /\ comps = [i \in Ids |-> comps[i]]
  /\ \A r \in Ids : is_root(u, r) => comps[r] = CompanyOf(PartOf(all, cells, r))

Inv == system = SystemOf(system.all) /\ Booked(arr, system.all, comp, cell)

LEMMA PartIsTable ==
  ASSUME NEW all, Table(all), NEW cells \in Cells(all), NEW r
  PROVE  Table(PartOf(all, cells, r))
<1>1. PICK p : p = PartOf(all, cells, r)
  OBVIOUS
<1>2. /\ DOMAIN p = {d \in DOMAIN all : cells[d] = r} /\ p = [e \in DOMAIN p |-> p[e]]
      /\ \A e \in DOMAIN p : p[e] = all[e]
  BY <1>1 DEF PartOf, Cells
<1>3. IsFiniteSet(DOMAIN p)
  BY <1>2, FS_Subset DEF Table
<1>4. Table(p)
  BY <1>2, <1>3 DEF Table
<1>5. QED
  BY <1>1, <1>4

LEMMA BookedAgrees == Inv => StructuresAgree
<1> SUFFICES ASSUME Inv PROVE StructuresAgree
  OBVIOUS
<1>1. Agrees(system.all, system)
  <2>1. PICK s, ht : s = system /\ ht = system.all /\ s = SystemOf(ht)
    BY DEF Inv
  <2>2. s.tree = Roster(ht) /\ s.emps = EmpsOf(ht) /\ s.grades = GradesOf(ht)
    BY <2>1, SystemFields DEF SystemOf
  <2>3. QED
    BY <2>1, <2>2 DEF Agrees, EmpsOf, GradesOf, UnpaidKeys
<1>2. DOMAIN cell = DOMAIN system.all /\ \A e \in DOMAIN cell : is_root(arr, cell[e])
  BY DEF Inv, Booked, Cells
<1>3. ASSUME NEW r \in Ids, is_root(arr, r)
      PROVE  /\ comp[r].ht = [e \in {d \in DOMAIN cell : cell[d] = r} |-> system.all[e]]
             /\ Agrees(comp[r].ht, comp[r])
  <2>1. PICK s, ht : s = comp[r] /\ ht = PartOf(system.all, cell, r) /\ s = CompanyOf(ht)
    BY <1>3 DEF Inv, Booked
  <2>2. s.ht = ht /\ s.tree = Roster(ht) /\ s.emps = EmpsOf(ht) /\ s.grades = GradesOf(ht)
    BY <2>1, CompanyFields DEF CompanyOf
  <2>3. Agrees(s.ht, s)
    BY <2>2 DEF Agrees, EmpsOf, GradesOf, UnpaidKeys
  <2>4. QED
    BY <2>1, <2>2, <2>3 DEF PartOf
<1>4. QED
  BY <1>1, <1>2, <1>3 DEF StructuresAgree

(* Between two tables with their cells, only the part of r differs.        *)
OnlyPart(all, cells, to, now, r) ==
  /\ now \in Cells(to)
  /\ \A s \in Ids \ {r} : PartOf(to, now, s) = PartOf(all, cells, s)

(* What an employee more, less or changed does to the parts.               *)
LEMMA PartsWith ==
  ASSUME NEW all, Table(all), NEW cells \in Cells(all), NEW e, e \notin DOMAIN all,
         NEW d, NEW r \in Ids
  PROVE  LET more == With(all, e, d) now == With(cells, e, r) IN
         /\ OnlyPart(all, cells, more, now, r)
         /\ e \notin DOMAIN PartOf(all, cells, r)
         /\ PartOf(more, now, r) = With(PartOf(all, cells, r), e, d)
<1>1. PICK more, now : more = With(all, e, d) /\ now = With(cells, e, r)
  OBVIOUS
<1>2. /\ DOMAIN more = DOMAIN all \cup {e} /\ DOMAIN now = DOMAIN all \cup {e}
      /\ now = [f \in DOMAIN now |-> now[f]]
      /\ more[e] = d /\ now[e] = r
      /\ \A f \in DOMAIN all : more[f] = all[f] /\ now[f] = cells[f]
  BY <1>1 DEF With, Cells
<1>3. now \in Cells(more)
  BY <1>2 DEF Cells
<1>4. e \notin DOMAIN PartOf(all, cells, r)
  BY DEF PartOf, Cells
<1>5. PartOf(more, now, r) = With(PartOf(all, cells, r), e, d)
  <2>1. PICK p : p = PartOf(all, cells, r)
    OBVIOUS
  <2>2. /\ DOMAIN p = {f \in DOMAIN all : cells[f] = r}
        /\ \A f \in DOMAIN p : p[f] = all[f]
    BY <2>1 DEF PartOf, Cells
  <2>3. {f \in DOMAIN now : now[f] = r} = DOMAIN p \cup {e}
    BY <1>2, <2>2
  <2>4. \A f \in DOMAIN p \cup {e} : more[f] = IF f = e THEN d ELSE p[f]
    BY <1>2, <2>2
  <2>5. PartOf(more, now, r) = With(p, e, d)
    BY <2>3, <2>4 DEF PartOf, With
  <2>6. QED
    BY <2>1, <2>5
<1>6. ASSUME NEW s \in Ids \ {r}
      PROVE  PartOf(more, now, s) = PartOf(all, cells, s)
  <2>1. {f \in DOMAIN now : now[f] = s} = {f \in DOMAIN cells : cells[f] = s}
    BY <1>2 DEF Cells
  <2>2. \A f \in {g \in DOMAIN cells : cells[g] = s} : more[f] = all[f]
    BY <1>2 DEF Cells
  <2>3. QED
    BY <2>1, <2>2 DEF PartOf
<1>7. QED
  BY <1>1, <1>3, <1>4, <1>5, <1>6 DEF OnlyPart

LEMMA PartsWithout ==
  ASSUME NEW all, Table(all), NEW cells \in Cells(all), NEW e \in DOMAIN all,
         NEW r, r = cells[e]
  PROVE  LET less == Without(all, e) now == Without(cells, e) IN
         /\ OnlyPart(all, cells, less, now, r)
         /\ PartOf(less, now, r) = Without(PartOf(all, cells, r), e)
<1>1. PICK less, now : less = Without(all, e) /\ now = Without(cells, e)
  OBVIOUS
<1>2. /\ DOMAIN less = DOMAIN all \ {e} /\ DOMAIN now = DOMAIN all \ {e}
      /\ now = [f \in DOMAIN now |-> now[f]]
      /\ \A f \in DOMAIN less : less[f] = all[f] /\ now[f] = cells[f]
  BY <1>1 DEF Without, Cells
<1>3. now \in Cells(less)
  BY <1>2 DEF Cells
<1>4. PartOf(less, now, r) = Without(PartOf(all, cells, r), e)
  <2>1. PICK p : p = PartOf(all, cells, r)
    OBVIOUS
  <2>2. /\ DOMAIN p = {f \in DOMAIN all : cells[f] = r}
        /\ \A f \in DOMAIN p : p[f] = all[f]
    BY <2>1 DEF PartOf, Cells
  <2>3. {f \in DOMAIN now : now[f] = r} = DOMAIN p \ {e}
    BY <1>2, <2>2
  <2>4. \A f \in DOMAIN p \ {e} : less[f] = p[f]
    BY <1>2, <2>2
  <2>5. PartOf(less, now, r) = Without(p, e)
    BY <2>3, <2>4 DEF PartOf, Without
  <2>6. QED
    BY <2>1, <2>5
<1>5. ASSUME NEW s \in Ids \ {r}
      PROVE  PartOf(less, now, s) = PartOf(all, cells, s)
  <2>1. {f \in DOMAIN now : now[f] = s} = {f \in DOMAIN cells : cells[f] = s}
    BY <1>2 DEF Cells
  <2>2. \A f \in {g \in DOMAIN cells : cells[g] = s} : less[f] = all[f]
    BY <1>2 DEF Cells
  <2>3. QED
    BY <2>1, <2>2 DEF PartOf
<1>6. QED
  BY <1>1, <1>3, <1>4, <1>5 DEF OnlyPart

LEMMA PartsChanged ==
  ASSUME NEW all, Table(all), NEW cells \in Cells(all), NEW e \in DOMAIN all, NEW new,
         NEW r, r = cells[e]
  PROVE  LET changed == Replaced(all, e, new) IN
         /\ OnlyPart(all, cells, changed, cells, r)
         /\ PartOf(changed, cells, r) = Replaced(PartOf(all, cells, r), e, new)
BY DEF PartOf, Table, OnlyPart, Cells, Replaced

(* One company changes; of the forest, at most the paths.                  *)
LEMMA OneCompany ==
  ASSUME NEW u, NEW all, NEW comps, NEW cells, Booked(u, all, comps, cells),
         NEW v, Forest(v), Alike(u, v),
         NEW to, Table(to), NEW now, NEW r \in Ids, OnlyPart(all, cells, to, now, r),
         \A e \in DOMAIN to : is_root(u, now[e]),
         NEW company, company = CompanyOf(PartOf(to, now, r))
  PROVE  Booked(v, to, [comps EXCEPT ![r] = company], now)
<1>1. \A e \in DOMAIN to : is_root(v, now[e])
  BY DEF Alike, OnlyPart, Cells
<1>2. PICK c : c = [comps EXCEPT ![r] = company]
  OBVIOUS
<1>3. c = [i \in Ids |-> c[i]] /\ c[r] = company /\ \A s \in Ids \ {r} : c[s] = comps[s]
  BY <1>2 DEF Booked
<1>4. ASSUME NEW s \in Ids, is_root(v, s)
      PROVE  c[s] = CompanyOf(PartOf(to, now, s))
  <2>1. s # r => comps[s] = CompanyOf(PartOf(all, cells, s))
    BY <1>4 DEF Booked, Alike
  <2>2. QED
    BY <1>3, <2>1 DEF OnlyPart
<1>5. QED
  BY <1>1, <1>2, <1>3, <1>4 DEF Booked, OnlyPart

LEMMA SameCompanies ==
  ASSUME NEW u, NEW all, NEW comps, NEW cells, Booked(u, all, comps, cells),
         NEW v, Forest(v), Alike(u, v)
  PROVE  Booked(v, all, comps, cells)
BY DEF Booked, Alike, Cells

(* The books before a step, under rigid names.                             *)
Before(u, all, cells) ==
  /\ u = arr /\ all = system.all /\ cells = cell
  /\ Forest(u) /\ Table(all) /\ cells \in Cells(all)
  /\ \A e \in DOMAIN all : is_root(u, cells[e])
  /\ system = SystemOf(all) /\ Booked(u, all, comp, cells)

LEMMA BooksBefore == ASSUME Inv PROVE \E u, all, cells : Before(u, all, cells)
BY DEF Inv, Booked, Before

LEMMA FoundInTable ==
  ASSUME NEW u, NEW all, NEW cells, Before(u, all, cells), NEW e \in DOMAIN all,
         NEW r, r = cells[e], NEW part, part = PartOf(all, cells, r)
  PROVE  /\ r \in Ids /\ is_root(u, r) /\ all[e] \in Data
         /\ Table(part) /\ e \in DOMAIN part /\ part[e] = all[e]
         /\ comp[r] = CompanyOf(part)
<1>1. r \in Ids /\ is_root(u, r) /\ all[e] \in Data
  BY DEF Before, Table, Cells
<1>2. comp[r] = CompanyOf(part)
  BY <1>1 DEF Before, Booked
<1>3. Table(all) /\ cells \in Cells(all)
  BY DEF Before
<1>4. Table(part)
  BY <1>3, PartIsTable
<1>5. e \in DOMAIN part /\ part[e] = all[e]
  BY <1>3 DEF PartOf, Cells
<1>6. QED
  BY <1>1, <1>2, <1>4, <1>5

(* Sound books with the tables and cells named.                            *)
After(u, to, now, res) ==
  /\ Inv' /\ Alike(u, arr') /\ system'.all = to /\ cell' = now /\ result' = res

LEMMA BooksAfter ==
  ASSUME NEW u, NEW all, NEW cells, Before(u, all, cells), Forest(arr'), Alike(u, arr'),
         NEW to, Table(to), NEW now, NEW r \in Ids, OnlyPart(all, cells, to, now, r),
         \A e \in DOMAIN to : is_root(u, now[e]),
         system' = SystemOf(to), cell' = now, result' = "SUCCESS",
         comp' = [comp EXCEPT ![r] = CompanyOf(PartOf(to, now, r))]
  PROVE  After(u, to, now, "SUCCESS")
<1>1. PICK v, company : v = arr' /\ company = CompanyOf(PartOf(to, now, r))
  OBVIOUS
<1>2. Booked(u, all, comp, cells) /\ Forest(v) /\ Alike(u, v)
  BY <1>1 DEF Before
<1>3. Booked(v, to, [comp EXCEPT ![r] = company], now)
  BY <1>1, <1>2, OneCompany
<1>4. Booked(arr', to, comp', now)
  BY <1>1, <1>3
<1>5. system'.all = to
  BY SystemFields DEF SystemOf
<1>6. QED
  BY <1>4, <1>5 DEF Inv, After

LEMMA AddKeeps ==
  ASSUME NEW u, NEW all, NEW cells, Before(u, all, cells),
         NEW e, e \notin DOMAIN all, NEW c \in Ids, NEW grade \in 0 .. MaxGrade,
         AddEmployee(e, c, grade), NEW d, d = [salary |-> 0, grade |-> grade],
         NEW r, r = Root(u, c)
  PROVE  r \in Ids /\ is_root(u, r) /\ After(u, With(all, e, d), With(cells, e, r), "SUCCESS")
<1>1. /\ u = arr /\ all = system.all /\ cells = cell
      /\ Forest(u) /\ Table(all) /\ cells \in Cells(all)
      /\ \A f \in DOMAIN all : is_root(u, cells[f])
      /\ system = SystemOf(all)
  BY DEF Before
<1>2. PICK more, now, part, own : /\ more = With(all, e, d) /\ now = With(cells, e, r)
                                  /\ part = PartOf(all, cells, r) /\ own = comp[r]
  OBVIOUS
<1>3. r \in Ids /\ is_root(u, r)
  BY <1>1, ForestRoots
<1>4. own = CompanyOf(part)
  BY <1>2, <1>3 DEF Before, Booked
<1>5. Forest(arr') /\ Alike(u, arr')
  BY <1>1, FindAlike DEF AddEmployee
<1>6. /\ system' = CountIn([system EXCEPT !.all = With(@, e, d)], grade)
      /\ comp' = [comp EXCEPT ![r] = CountIn([own EXCEPT !.ht = With(@, e, d)], grade)]
      /\ cell' = now /\ result' = "SUCCESS"
  BY <1>1, <1>2, Zenon DEF AddEmployee, Return
<1>7. /\ OnlyPart(all, cells, more, now, r) /\ e \notin DOMAIN part
      /\ PartOf(more, now, r) = With(part, e, d)
  <2>1. /\ OnlyPart(all, cells, With(all, e, d), With(cells, e, r), r)
        /\ e \notin DOMAIN PartOf(all, cells, r)
        /\ PartOf(With(all, e, d), With(cells, e, r), r) = With(PartOf(all, cells, r), e, d)
    BY <1>1, <1>3, PartsWith
  <2>2. QED
    BY <1>2, <2>1, Zenon
<1>8. Table(part)
  BY <1>1, <1>2, PartIsTable
<1>9. system' = SystemOf(more)
  BY <1>1, <1>2, <1>6, SystemAdded
<1>10. comp' = [comp EXCEPT ![r] = CompanyOf(PartOf(more, now, r))]
  <2>1. CountIn([CompanyOf(part) EXCEPT !.ht = With(@, e, d)], grade) = CompanyOf(With(part, e, d))
    BY <1>7, <1>8, CompanyAdded
  <2>2. CountIn([own EXCEPT !.ht = With(@, e, d)], grade) = CompanyOf(With(part, e, d))
    BY <1>4, <2>1, Zenon
  <2>3. QED
    BY <1>6, <1>7, <2>2, Zenon
<1>11. Table(more)
  BY <1>1, <1>2, BooksAdded
<1>12. \A f \in DOMAIN more : is_root(u, now[f])
  BY <1>1, <1>2, <1>3 DEF With, Cells
<1>13. After(u, more, now, "SUCCESS")
  BY <1>3, <1>5, <1>6, <1>7, <1>9, <1>10, <1>11, <1>12, BooksAfter
<1>14. QED
  BY <1>2, <1>3, <1>13

LEMMA RemoveKeeps ==
  ASSUME NEW u, NEW all, NEW cells, Before(u, all, cells), NEW e \in DOMAIN all,
         RemoveEmployee(e)
  PROVE  After(u, Without(all, e), Without(cells, e), "SUCCESS")
<1>1. /\ u = arr /\ all = system.all /\ cells = cell /\ arr' = arr
      /\ Forest(u) /\ Table(all) /\ cells \in Cells(all)
      /\ \A f \in DOMAIN all : is_root(u, cells[f])
      /\ system = SystemOf(all)
  BY DEF Before, RemoveEmployee
<1>2. PICK less, now, r, part, own, d :
        /\ less = Without(all, e) /\ now = Without(cells, e) /\ r = cells[e]
        /\ part = PartOf(all, cells, r) /\ own = comp[r] /\ d = all[e]
  OBVIOUS
<1>3. /\ r \in Ids /\ is_root(u, r) /\ Table(part) /\ e \in DOMAIN part /\ part[e] = d
      /\ own = CompanyOf(part)
  BY <1>2, FoundInTable
<1>4. Forest(arr') /\ Alike(u, arr')
  BY <1>1 DEF Alike
<1>5. /\ system' = SystemLess(system, e, d)
      /\ comp' = [comp EXCEPT ![r] = CompanyLess(own, e, d)]
      /\ cell' = now /\ result' = "SUCCESS"
  BY <1>1, <1>2, Zenon DEF RemoveEmployee, Return, SystemLess, CompanyLess
<1>6. OnlyPart(all, cells, less, now, r) /\ PartOf(less, now, r) = Without(part, e)
  <2>1. /\ OnlyPart(all, cells, Without(all, e), Without(cells, e), r)
        /\ PartOf(Without(all, e), Without(cells, e), r) = Without(PartOf(all, cells, r), e)
    BY <1>1, <1>2, PartsWithout
  <2>2. QED
    BY <1>2, <2>1, Zenon
<1>7. SystemLess(system, e, d) = SystemOf(less)
  BY <1>1, <1>2, SystemRemoved
<1>8. CompanyLess(own, e, d) = CompanyOf(PartOf(less, now, r))
  <2>1. CompanyLess(own, e, d) = CompanyOf(Without(part, e))
    BY <1>3, CompanyRemoved
  <2>2. QED
    BY <1>6, <2>1
<1>9. system' = SystemOf(less) /\ comp' = [comp EXCEPT ![r] = CompanyOf(PartOf(less, now, r))]
  BY <1>5, <1>7, <1>8, Zenon
<1>10. Table(less)
  BY <1>1, <1>2, BooksRemoved
<1>11. \A f \in DOMAIN less : is_root(u, now[f])
  BY <1>1, <1>2 DEF Without, Cells
<1>12. After(u, less, now, "SUCCESS")
  BY <1>3, <1>4, <1>5, <1>6, <1>9, <1>10, <1>11, BooksAfter
<1>13. QED
  BY <1>2, <1>12

(* The two operations that change an employee, their result named.         *)
RaiseStep(e, new) ==
  LET old == system.all[e] own == comp[cell[e]]
  IN  /\ UNCHANGED arr
      /\ Return(SystemRaise(system, e, old, new),
                [comp EXCEPT ![cell[e]] = CompanyRaise(own, e, old, new)], cell, "SUCCESS")

PromoteStep(e, new, bump) ==
  LET old == system.all[e] own == comp[cell[e]]
  IN  /\ UNCHANGED arr
      /\ Return(SystemPromote(system, e, old, new, bump),
                [comp EXCEPT ![cell[e]] = CompanyPromote(own, e, old, new, bump)], cell, "SUCCESS")

LEMMA RaiseIsStep ==
  ASSUME NEW e \in DOMAIN system.all, NEW raise \in 1 .. MaxSalary - system.all[e].salary,
         EmployeeSalaryIncrease(e, raise), NEW new, new = [system.all[e] EXCEPT !.salary = @ + raise]
  PROVE  RaisedTo(system.all[e], new) /\ RaiseStep(e, new)
<1>1. RaisedTo(system.all[e], new)
  BY DEF RaisedTo
<1>2. RaiseStep(e, new)
  BY Zenon DEF EmployeeSalaryIncrease, RaiseStep, Return, SystemRaise, CompanyRaise
<1>3. QED
  BY <1>1, <1>2

LEMMA PromoteIsStep ==
  ASSUME NEW e \in DOMAIN system.all, NEW bump \in 1 .. MaxGrade - system.all[e].grade,
         PromoteEmployee(e, bump), NEW new, new = [system.all[e] EXCEPT !.grade = @ + bump]
  PROVE  PromotedTo(system.all[e], new, bump) /\ PromoteStep(e, new, bump)
<1>1. PromotedTo(system.all[e], new, bump)
  BY DEF PromotedTo
<1>2. PromoteStep(e, new, bump)
  BY Zenon DEF PromoteEmployee, PromoteStep, Return, SystemPromote, CompanyPromote
<1>3. QED
  BY <1>1, <1>2

LEMMA ChangeKeeps ==
  ASSUME NEW u, NEW all, NEW cells, Before(u, all, cells), NEW e \in DOMAIN all,
         NEW new \in Data, NEW r, r = cells[e], NEW part, part = PartOf(all, cells, r),
         arr' = arr, cell' = cells, result' = "SUCCESS",
         system' = SystemOf(Replaced(all, e, new)),
         comp' = [comp EXCEPT ![r] = CompanyOf(Replaced(part, e, new))]
  PROVE  After(u, Replaced(all, e, new), cells, "SUCCESS")
<1>1. /\ u = arr /\ Forest(u) /\ Table(all) /\ cells \in Cells(all)
      /\ \A f \in DOMAIN all : is_root(u, cells[f])
  BY DEF Before
<1>2. PICK changed : changed = Replaced(all, e, new)
  OBVIOUS
<1>3. r \in Ids
  BY FoundInTable
<1>4. Forest(arr') /\ Alike(u, arr')
  BY <1>1 DEF Alike
<1>5. /\ OnlyPart(all, cells, changed, cells, r)
      /\ PartOf(changed, cells, r) = Replaced(part, e, new)
  BY <1>1, <1>2, PartsChanged
<1>6. system' = SystemOf(changed) /\ comp' = [comp EXCEPT ![r] = CompanyOf(PartOf(changed, cells, r))]
  BY <1>2, <1>5
<1>7. Table(changed)
  <2>1. Rebooked(all, changed, e, all[e], new)
    BY <1>1, <1>2, BooksChanged
  <2>2. QED
    BY <2>1 DEF Rebooked
<1>8. \A f \in DOMAIN changed : is_root(u, cells[f])
  BY <1>1, <1>2 DEF Replaced
<1>9. After(u, changed, cells, "SUCCESS")
  BY <1>3, <1>4, <1>5, <1>6, <1>7, <1>8, BooksAfter
<1>10. QED
  BY <1>2, <1>9

LEMMA RaiseKeeps ==
  ASSUME NEW u, NEW all, NEW cells, Before(u, all, cells), NEW e \in DOMAIN all,
         NEW new, RaisedTo(all[e], new), RaiseStep(e, new)
  PROVE  After(u, Replaced(all, e, new), cells, "SUCCESS")
<1>1. PICK old, r, own, part :
        /\ old = all[e] /\ r = cells[e] /\ own = comp[r] /\ part = PartOf(all, cells, r)
  OBVIOUS
<1>2. /\ arr' = arr /\ cell' = cells /\ result' = "SUCCESS"
      /\ system' = SystemRaise(system, e, old, new)
      /\ comp' = [comp EXCEPT ![r] = CompanyRaise(own, e, old, new)]
  BY <1>1, Zenon DEF RaiseStep, Return, Before
<1>3. /\ Table(part) /\ e \in DOMAIN part /\ part[e] = old /\ own = CompanyOf(part)
      /\ old \in Data
  BY <1>1, FoundInTable
<1>4. RaisedTo(old, new)
  BY <1>1
<1>5. Table(all) /\ system = SystemOf(all)
  BY DEF Before
<1>6. SystemRaise(system, e, old, new) = SystemOf(Replaced(all, e, new))
  BY <1>1, <1>4, <1>5, SystemRaised
<1>7. CompanyRaise(own, e, old, new) = CompanyOf(Replaced(part, e, new))
  BY <1>3, <1>4, CompanyRaised
<1>8. new \in Data
  BY <1>3, <1>4, RaisedData
<1>9. QED
  BY <1>1, <1>2, <1>6, <1>7, <1>8, ChangeKeeps

LEMMA PromoteKeeps ==
  ASSUME NEW u, NEW all, NEW cells, Before(u, all, cells), NEW e \in DOMAIN all,
         NEW new, NEW bump, PromotedTo(all[e], new, bump), PromoteStep(e, new, bump)
  PROVE  After(u, Replaced(all, e, new), cells, "SUCCESS")
<1>1. PICK old, r, own, part :
        /\ old = all[e] /\ r = cells[e] /\ own = comp[r] /\ part = PartOf(all, cells, r)
  OBVIOUS
<1>2. /\ arr' = arr /\ cell' = cells /\ result' = "SUCCESS"
      /\ system' = SystemPromote(system, e, old, new, bump)
      /\ comp' = [comp EXCEPT ![r] = CompanyPromote(own, e, old, new, bump)]
  BY <1>1, Zenon DEF PromoteStep, Return, Before
<1>3. /\ Table(part) /\ e \in DOMAIN part /\ part[e] = old /\ own = CompanyOf(part)
      /\ old \in Data
  BY <1>1, FoundInTable
<1>4. PromotedTo(old, new, bump)
  BY <1>1
<1>5. Table(all) /\ system = SystemOf(all)
  BY DEF Before
<1>6. SystemPromote(system, e, old, new, bump) = SystemOf(Replaced(all, e, new))
  BY <1>1, <1>4, <1>5, SystemPromoted
<1>7. CompanyPromote(own, e, old, new, bump) = CompanyOf(Replaced(part, e, new))
  BY <1>3, <1>4, CompanyPromoted
<1>8. new \in Data
  BY <1>3, <1>4, PromotedData
<1>9. QED
  BY <1>1, <1>2, <1>6, <1>7, <1>8, ChangeKeeps

(* The cells after the company lose went on as win.                        *)
Moved(all, cells, win, lose) ==
  [e \in DOMAIN all |-> IF cells[e] = lose THEN win ELSE cells[e]]

LEMMA MovedParts ==
  ASSUME NEW all, Table(all), NEW cells \in Cells(all), NEW win \in Ids, NEW lose \in Ids,
         win # lose, NEW now, now = Moved(all, cells, win, lose)
  PROVE  /\ now \in Cells(all)
         /\ PartOf(all, now, win) = Together(PartOf(all, cells, win), PartOf(all, cells, lose))
         /\ \A s \in Ids \ {win, lose} : PartOf(all, now, s) = PartOf(all, cells, s)
         /\ DOMAIN PartOf(all, cells, win) \cap DOMAIN PartOf(all, cells, lose) = {}
<1>1. /\ DOMAIN now = DOMAIN all /\ DOMAIN cells = DOMAIN all
      /\ \A e \in DOMAIN all : now[e] = IF cells[e] = lose THEN win ELSE cells[e]
  BY DEF Moved, Cells
<1>2. now \in Cells(all)
  BY DEF Moved, Cells
<1>3. PICK p, q : p = PartOf(all, cells, win) /\ q = PartOf(all, cells, lose)
  OBVIOUS
<1>4. /\ DOMAIN p = {e \in DOMAIN all : cells[e] = win}
      /\ DOMAIN q = {e \in DOMAIN all : cells[e] = lose}
      /\ \A e \in DOMAIN p : p[e] = all[e]
      /\ \A e \in DOMAIN q : q[e] = all[e]
  BY <1>1, <1>3 DEF PartOf
<1>5. PartOf(all, now, win) = Together(p, q)
  <2>1. {e \in DOMAIN now : now[e] = win} = DOMAIN p \cup DOMAIN q
    BY <1>1, <1>4
  <2>2. \A e \in DOMAIN p \cup DOMAIN q : all[e] = IF e \in DOMAIN p THEN p[e] ELSE q[e]
    BY <1>4
  <2>3. QED
    BY <2>1, <2>2 DEF PartOf, Together
<1>6. ASSUME NEW s \in Ids \ {win, lose}
      PROVE  PartOf(all, now, s) = PartOf(all, cells, s)
  <2>1. {e \in DOMAIN now : now[e] = s} = {e \in DOMAIN cells : cells[e] = s}
    BY <1>1
  <2>2. QED
    BY <2>1 DEF PartOf
<1>7. DOMAIN p \cap DOMAIN q = {}
  BY <1>4
<1>8. QED
  BY <1>2, <1>3, <1>5, <1>6, <1>7

OtherThan(win, first, second) == CHOOSE r \in {first, second} : r # win

GoesOn(u, v, a, win, lose, first, second) ==
  /\ Root(v, a) = win /\ win # lose /\ is_root(u, win) /\ is_root(u, lose)
  /\ OtherThan(win, first, second) = lose

(* The company that goes on is at the root of the union, the other is the  *)
(* other root.                                                             *)
LEMMA WhoGoesOn ==
  ASSUME NEW u, Forest(u), NEW v, NEW a \in Ids, NEW t \in Ids, NEW first, NEW second,
         first = Root(u, a), second = Root(u, t), NEW win \in Ids, NEW lose \in Ids, NEW gain,
         Joined(u, v, win, lose, first, second, gain)
  PROVE  GoesOn(u, v, a, win, lose, first, second)
<1>1. win # lose /\ {win, lose} = {first, second}
  BY DEF Joined
<1>2. first \in {win, lose} /\ second \in {win, lose} /\ win \in {first, second}
      /\ lose \in {first, second}
  BY <1>1
<1>3. Root(v, a) = IF first = lose THEN win ELSE first
  BY DEF Joined
<1>4. Root(v, a) = win
  BY <1>2, <1>3
<1>5. is_root(u, first) /\ is_root(u, second)
  BY ForestRoots
<1>6. is_root(u, win) /\ is_root(u, lose)
  BY <1>2, <1>5
<1>7. \A r \in {first, second} : r # win <=> r = lose
  BY <1>1, <1>2
<1>8. OtherThan(win, first, second) = lose
  BY <1>2, <1>7 DEF OtherThan
<1>9. QED
  BY <1>1, <1>4, <1>6, <1>8 DEF GoesOn

(* The books of two companies added up are those of their tables together. *)
LEMMA BooksMerged ==
  ASSUME NEW p, Table(p), NEW q, Table(q), DOMAIN p \cap DOMAIN q = {},
         NEW own, own = CompanyOf(p), NEW target, target = CompanyOf(q),
         NEW ht, ht = Together(p, q)
  PROVE  [ht |-> ht, tree |-> own.tree \cup target.tree, emps |-> own.emps + target.emps,
          grades |-> own.grades + target.grades] = CompanyOf(ht)
<1>1. own.tree = Roster(p) /\ own.emps = EmpsOf(p) /\ own.grades = GradesOf(p)
  BY CompanyFields DEF CompanyOf
<1>2. target.tree = Roster(q) /\ target.emps = EmpsOf(q) /\ target.grades = GradesOf(q)
  BY CompanyFields DEF CompanyOf
<1>3. /\ Roster(ht) = Roster(p) \cup Roster(q)
      /\ EmpsOf(ht) = EmpsOf(p) + EmpsOf(q)
      /\ GradesOf(ht) = GradesOf(p) + GradesOf(q)
  BY BooksTogether
<1>4. QED
  BY <1>1, <1>2, <1>3, Zenon DEF CompanyOf, CompanyBook

(* Sound books after two groups became one.                                *)
AfterJoin(u, all, cells, first, second, gain) ==
  \E win, lose \in Ids :
    /\ Joined(u, arr', win, lose, first, second, gain)
    /\ is_root(u, win) /\ is_root(u, lose)
    /\ Inv' /\ system'.all = all /\ cell' = Moved(all, cells, win, lose) /\ result' = "SUCCESS"

LEMMA BooksAfterJoin ==
  ASSUME NEW u, NEW all, NEW cells, Before(u, all, cells), NEW v, v = arr', Forest(v),
         NEW first, NEW second, NEW gain, NEW win \in Ids, NEW lose \in Ids,
         Joined(u, v, win, lose, first, second, gain), is_root(u, win), is_root(u, lose),
         NEW now, now = Moved(all, cells, win, lose),
         system' = system, cell' = now, result' = "SUCCESS",
         NEW c, comp' = c, c = [i \in Ids |-> c[i]],
         c[win] = CompanyOf(PartOf(all, now, win)),
         \A s \in Ids \ {win, lose} : c[s] = comp[s]
  PROVE  AfterJoin(u, all, cells, first, second, gain)
<1>1. /\ Table(all) /\ cells \in Cells(all) /\ \A e \in DOMAIN all : is_root(u, cells[e])
      /\ system = SystemOf(all) /\ all = system.all
      /\ \A r \in Ids : is_root(u, r) => comp[r] = CompanyOf(PartOf(all, cells, r))
  BY DEF Before, Booked
<1>2. win # lose /\ \A n \in Ids : is_root(v, n) <=> n # lose /\ is_root(u, n)
  BY DEF Joined
<1>3. /\ now \in Cells(all)
      /\ \A s \in Ids \ {win, lose} : PartOf(all, now, s) = PartOf(all, cells, s)
  <2>1. /\ Moved(all, cells, win, lose) \in Cells(all)
        /\ \A s \in Ids \ {win, lose} :
             PartOf(all, Moved(all, cells, win, lose), s) = PartOf(all, cells, s)
    BY <1>1, <1>2, MovedParts
  <2>2. QED
    BY <2>1, Zenon
<1>4. \A e \in DOMAIN all : is_root(v, now[e])
  <2>1. \A e \in DOMAIN all : now[e] = IF cells[e] = lose THEN win ELSE cells[e]
    BY DEF Moved
  <2>2. \A e \in DOMAIN all : cells[e] \in Ids
    BY <1>1 DEF Cells
  <2>3. QED
    BY <1>1, <1>2, <2>1, <2>2
<1>5. ASSUME NEW s \in Ids, is_root(v, s)
      PROVE  c[s] = CompanyOf(PartOf(all, now, s))
  <2>1. s # lose /\ is_root(u, s)
    BY <1>2, <1>5
  <2>2. CASE s = win
    BY <2>2
  <2>3. CASE s # win
    <3>1. PartOf(all, now, s) = PartOf(all, cells, s) /\ c[s] = comp[s]
      BY <1>3, <2>1, <2>3
    <3>2. comp[s] = CompanyOf(PartOf(all, cells, s))
      BY <1>1, <2>1
    <3>3. QED
      BY <3>1, <3>2
  <2>4. QED
    BY <2>2, <2>3
<1>6. Booked(v, all, c, now)
  BY <1>1, <1>3, <1>4, <1>5 DEF Booked
<1>7. Inv'
  <2>1. system'.all = all /\ system' = SystemOf(system'.all)
    BY <1>1
  <2>2. QED
    BY <1>6, <2>1 DEF Inv
<1>8. QED
  BY <1>1, <1>7 DEF AfterJoin

LEMMA NobodyMoves ==
  ASSUME NEW all, Table(all), NEW cells \in Cells(all), NEW win \in Ids, NEW lose \in Ids,
         win # lose, PartOf(all, cells, lose) = << >>, NEW now, now = Moved(all, cells, win, lose)
  PROVE  now = cells
<1>1. DOMAIN PartOf(all, cells, lose) = {}
  OBVIOUS
<1>2. \A e \in DOMAIN all : cells[e] # lose
  BY <1>1 DEF PartOf, Cells
<1>3. now = cells
  BY <1>2 DEF Moved, Cells
<1>4. QED
  BY <1>3

(* adjustCompanyID over the merged table reaches exactly those who move.   *)
LEMMA CellsAdjusted ==
  ASSUME NEW all, Table(all), NEW cells \in Cells(all), cells = cell,
         NEW win \in Ids, NEW lose \in Ids,
         NEW ht, ht = Together(PartOf(all, cells, win), PartOf(all, cells, lose))
  PROVE  adjustCompanyID(ht, lose, win) = Moved(all, cells, win, lose)
<1>1. DOMAIN cells = DOMAIN all
  BY DEF Cells
<1>2. \A e \in DOMAIN all : cells[e] = lose => e \in DOMAIN ht
  BY <1>1 DEF Together, PartOf
<1>3. QED
  BY <1>1, <1>2 DEF adjustCompanyID, Moved

LEMMA AcquireKeeps ==
  ASSUME NEW u, NEW all, NEW cells, Before(u, all, cells), NEW a \in Ids, NEW t \in Ids,
         NEW factor \in Int, AcquireCompany(a, t, factor), NEW first, NEW second, NEW gain,
         first = Root(u, a), second = Root(u, t), first # second,
         gain = factor * u[second].union_value
  PROVE  AfterJoin(u, all, cells, first, second, gain)
<1>1. /\ u = arr /\ all = system.all /\ cells = cell
      /\ Forest(u) /\ Table(all) /\ cells \in Cells(all)
      /\ \A r \in Ids : is_root(u, r) => comp[r] = CompanyOf(PartOf(all, cells, r))
      /\ comp = [i \in Ids |-> comp[i]]
  BY DEF Before, Booked
<1>2. PICK v : v = arr'
  OBVIOUS
<1>3. v = Union(u, a, t, factor)
  BY <1>1, <1>2 DEF AcquireCompany, Acquire
<1>4. Forest(v) /\ \E win, lose \in Ids : Joined(u, v, win, lose, first, second, gain)
  <2>1. /\ Forest(v)
        /\ \E win, lose \in Ids :
             Joined(u, v, win, lose, Root(u, a), Root(u, t), factor * u[Root(u, t)].union_value)
    BY <1>1, <1>3, UnionJoins
  <2>2. QED
    BY <2>1
<1>5. PICK win \in Ids, lose \in Ids : Joined(u, v, win, lose, first, second, gain)
  BY <1>4
<1>6. /\ Root(v, a) = win /\ win # lose /\ is_root(u, win) /\ is_root(u, lose)
      /\ OtherThan(win, first, second) = lose
  <2>1. GoesOn(u, v, a, win, lose, first, second)
    BY <1>1, <1>5, WhoGoesOn
  <2>2. QED
    BY <2>1 DEF GoesOn
<1>7. PICK p, q, now : /\ p = PartOf(all, cells, win) /\ q = PartOf(all, cells, lose)
                       /\ now = Moved(all, cells, win, lose)
  OBVIOUS
<1>8. comp[win] = CompanyOf(p) /\ comp[lose] = CompanyOf(q) /\ comp[lose].ht = q /\ comp[win].ht = p
  <2>1. comp[win] = CompanyOf(p) /\ comp[lose] = CompanyOf(q)
    BY <1>1, <1>6, <1>7
  <2>2. QED
    BY <2>1, CompanyFields DEF CompanyOf
<1>9. IF comp[lose].ht = << >> THEN Return(system, comp, cell, "SUCCESS")
      ELSE TakeOver(comp[win], comp[lose], win, lose)
  <2>1. Root(arr, a) = first /\ Root(arr, t) = second /\ Root(arr', a) = win
    BY <1>1, <1>2, <1>6
  <2>2. ~ (Root(arr, a) = Root(arr, t))
    BY <2>1
  <2>3. (CHOOSE r \in {Root(arr, a), Root(arr, t)} : r # Root(arr', a)) = lose
    BY <1>6, <2>1 DEF OtherThan
  <2>4. QED
    BY <2>1, <2>2, <2>3, Zenon DEF AcquireCompany
<1>10. CASE comp[lose].ht = << >>
  <2>1. system' = system /\ comp' = comp /\ cell' = cells /\ result' = "SUCCESS"
    BY <1>1, <1>9, <1>10 DEF Return
  <2>2. q = << >>
    BY <1>8, <1>10
  <2>3. now = cells /\ PartOf(all, now, win) = p
    <3>1. PartOf(all, cells, lose) = << >>
      BY <1>7, <2>2
    <3>2. now = cells
      BY <1>1, <1>6, <1>7, <3>1, NobodyMoves
    <3>3. QED
      BY <1>7, <3>2
  <2>4. comp[win] = CompanyOf(PartOf(all, now, win))
    BY <1>8, <2>3
  <2>5. cell' = now
    BY <2>1, <2>3
  <2>6. QED
    BY <1>1, <1>2, <1>4, <1>5, <1>6, <1>7, <2>1, <2>4, <2>5, BooksAfterJoin
<1>11. CASE comp[lose].ht # << >>
  <2>1. PICK own, target, ht, merged :
          /\ own = comp[win] /\ target = comp[lose] /\ ht = Together(p, q)
          /\ merged = [ht |-> ht, tree |-> own.tree \cup target.tree,
                       emps |-> own.emps + target.emps, grades |-> own.grades + target.grades]
    OBVIOUS
  <2>2. PICK c : c = [comp EXCEPT ![win] = merged, ![lose].ht = << >>, ![lose].tree = {}]
    OBVIOUS
  <2>3. ht = [e \in DOMAIN own.ht \cup DOMAIN target.ht |->
                IF e \in DOMAIN own.ht THEN own.ht[e] ELSE target.ht[e]]
    BY <1>8, <2>1, Zenon DEF Together
  <2>4. /\ system' = system /\ comp' = c /\ result' = "SUCCESS"
        /\ cell' = adjustCompanyID(ht, lose, win)
    <3>1. TakeOver(own, target, win, lose)
      BY <1>9, <1>11, <2>1
    <3>2. QED
      BY <2>1, <2>2, <2>3, <3>1, Zenon DEF TakeOver, Return
  <2>5. cell' = now
    BY <1>1, <1>7, <2>1, <2>4, CellsAdjusted
  <2>6. c = [i \in Ids |-> c[i]] /\ c[win] = merged /\ \A s \in Ids \ {win, lose} : c[s] = comp[s]
    BY <1>1, <1>6, <2>2
  <2>7. PartOf(all, now, win) = ht /\ DOMAIN p \cap DOMAIN q = {}
    BY <1>1, <1>6, <1>7, <2>1, MovedParts
  <2>8. Table(p) /\ Table(q)
    BY <1>1, <1>7, PartIsTable
  <2>9. merged = CompanyOf(ht)
    BY <1>8, <2>1, <2>7, <2>8, BooksMerged
  <2>10. c[win] = CompanyOf(PartOf(all, now, win))
    BY <2>6, <2>7, <2>9
  <2>11. QED
    BY <1>2, <1>4, <1>5, <1>6, <1>7, <2>4, <2>5, <2>6, <2>10, BooksAfterJoin
<1>12. QED
  BY <1>10, <1>11

-----------------------------------------------------------------------------
(* What a call can do, from sound books.                                   *)
Refused(u, all, cells) ==
  \E res \in {"FAILURE", "INVALID_INPUT"} : After(u, all, cells, res)

Added(u, all, cells) ==
  \E e \in Employees \ DOMAIN all, c \in Ids, grade \in 0 .. MaxGrade :
    /\ is_root(u, Root(u, c))
    /\ After(u, With(all, e, [salary |-> 0, grade |-> grade]), With(cells, e, Root(u, c)),
             "SUCCESS")

Removed(u, all, cells) ==
  \E e \in Employees \cap DOMAIN all : After(u, Without(all, e), Without(cells, e), "SUCCESS")

Raised(u, all, cells) ==
  \E e \in Employees \cap DOMAIN all, raise \in 1 .. MaxSalary :
    After(u, Replaced(all, e, [all[e] EXCEPT !.salary = @ + raise]), cells, "SUCCESS")

Promoted(u, all, cells) ==
  \E e \in Employees \cap DOMAIN all, bump \in 1 .. MaxGrade :
    After(u, Replaced(all, e, [all[e] EXCEPT !.grade = @ + bump]), cells, "SUCCESS")

Acquired(u, all, cells) ==
  \E a, t \in Ids, factor \in Factors :
    /\ Root(u, a) # Root(u, t)
    /\ AfterJoin(u, all, cells, Root(u, a), Root(u, t), factor * u[Root(u, t)].union_value)

Outcome(u, all, cells) ==
  \/ Refused(u, all, cells) \/ Added(u, all, cells) \/ Removed(u, all, cells)
  \/ Raised(u, all, cells) \/ Promoted(u, all, cells) \/ Acquired(u, all, cells)

LEMMA RefusedAfter ==
  ASSUME NEW u, NEW all, NEW cells, Before(u, all, cells), Forest(arr'), Alike(u, arr'),
         NEW res, Refuse(res)
  PROVE  After(u, all, cells, res)
<1>1. Booked(u, all, comp, cells) /\ all = system.all /\ cells = cell /\ system = SystemOf(all)
  BY DEF Before
<1>2. system' = system /\ comp' = comp /\ cell' = cells /\ result' = res
  BY <1>1 DEF Refuse, Return
<1>3. PICK v : v = arr'
  OBVIOUS
<1>4. Booked(v, all, comp, cells)
  BY <1>1, <1>3, SameCompanies
<1>5. QED
  BY <1>1, <1>2, <1>3, <1>4 DEF After, Inv

LEMMA EveryCall ==
  ASSUME Inv, ComplexNext
  PROVE  \E u, all, cells : Before(u, all, cells) /\ Outcome(u, all, cells)
<1>1. PICK u, all, cells : Before(u, all, cells)
  BY BooksBefore
<1>2. u = arr /\ all = system.all /\ cells = cell /\ Forest(u) /\ Alike(u, u)
  BY <1>1 DEF Before, Alike
<1>3. ASSUME NEW e \in Employees, NEW c \in Ids, NEW grade \in 0 .. MaxGrade,
             AddEmployee(e, c, grade)
      PROVE  Outcome(u, all, cells)
  <2>1. CASE e \in DOMAIN all
    <3>1. Refuse("FAILURE") /\ arr' = find_assist(u, c)
      BY <1>2, <1>3, <2>1 DEF AddEmployee
    <3>2. Forest(arr') /\ Alike(u, arr')
      BY <1>2, <3>1, FindAlike
    <3>3. After(u, all, cells, "FAILURE")
      BY <1>1, <3>1, <3>2, RefusedAfter
    <3>4. QED
      BY <3>3 DEF Outcome, Refused
  <2>2. CASE e \notin DOMAIN all
    <3>1. PICK d, r : d = [salary |-> 0, grade |-> grade] /\ r = Root(u, c)
      OBVIOUS
    <3>2. is_root(u, r) /\ After(u, With(all, e, d), With(cells, e, r), "SUCCESS")
      BY <1>1, <1>3, <2>2, <3>1, AddKeeps
    <3>3. Added(u, all, cells)
      BY <2>2, <3>1, <3>2 DEF Added
    <3>4. QED
      BY <3>3 DEF Outcome
  <2>3. QED
    BY <2>1, <2>2
<1>4. ASSUME NEW e \in Employees, RemoveEmployee(e)
      PROVE  Outcome(u, all, cells)
  <2>1. CASE e \in DOMAIN all
    <3>1. After(u, Without(all, e), Without(cells, e), "SUCCESS")
      BY <1>1, <1>4, <2>1, RemoveKeeps
    <3>2. QED
      BY <2>1, <3>1 DEF Outcome, Removed
  <2>2. CASE e \notin DOMAIN all
    <3>1. Refuse("FAILURE") /\ arr' = u
      BY <1>2, <1>4, <2>2 DEF RemoveEmployee
    <3>2. After(u, all, cells, "FAILURE")
      BY <1>1, <1>2, <3>1, RefusedAfter
    <3>3. QED
      BY <3>2 DEF Outcome, Refused
  <2>3. QED
    BY <2>1, <2>2
<1>5. ASSUME NEW e \in Employees, NEW raise \in 1 .. MaxSalary - SalaryOf(e),
             EmployeeSalaryIncrease(e, raise)
      PROVE  Outcome(u, all, cells)
  <2>1. CASE e \in DOMAIN all
    <3>1. PICK new : new = [all[e] EXCEPT !.salary = @ + raise]
      OBVIOUS
    <3>2. raise \in 1 .. MaxSalary - all[e].salary
      BY <1>2, <1>5, <2>1 DEF SalaryOf
    <3>3. RaisedTo(all[e], new) /\ RaiseStep(e, new)
      BY <1>2, <1>5, <2>1, <3>1, <3>2, RaiseIsStep
    <3>4. After(u, Replaced(all, e, new), cells, "SUCCESS")
      BY <1>1, <2>1, <3>3, RaiseKeeps
    <3>5. raise \in 1 .. MaxSalary
      <4>1. all[e].salary \in Nat
        BY <1>1, <2>1, FoundInTable, DataTypes
      <4>2. QED
        BY <3>2, <4>1, ComplexAssumption
    <3>6. QED
      BY <2>1, <3>1, <3>4, <3>5 DEF Outcome, Raised
  <2>2. CASE e \notin DOMAIN all
    <3>1. Refuse("FAILURE") /\ arr' = u
      BY <1>2, <1>5, <2>2 DEF EmployeeSalaryIncrease
    <3>2. After(u, all, cells, "FAILURE")
      BY <1>1, <1>2, <3>1, RefusedAfter
    <3>3. QED
      BY <3>2 DEF Outcome, Refused
  <2>3. QED
    BY <2>1, <2>2
<1>6. ASSUME NEW e \in Employees, NEW bump \in 1 .. MaxGrade - GradeOf(e),
             PromoteEmployee(e, bump)
      PROVE  Outcome(u, all, cells)
  <2>1. CASE e \in DOMAIN all
    <3>1. PICK new : new = [all[e] EXCEPT !.grade = @ + bump]
      OBVIOUS
    <3>2. bump \in 1 .. MaxGrade - all[e].grade
      BY <1>2, <1>6, <2>1 DEF GradeOf
    <3>3. PromotedTo(all[e], new, bump) /\ PromoteStep(e, new, bump)
      BY <1>2, <1>6, <2>1, <3>1, <3>2, PromoteIsStep
    <3>4. After(u, Replaced(all, e, new), cells, "SUCCESS")
      BY <1>1, <2>1, <3>3, PromoteKeeps
    <3>5. bump \in 1 .. MaxGrade
      <4>1. all[e].grade \in Nat
        BY <1>1, <2>1, FoundInTable, DataTypes
      <4>2. QED
        BY <3>2, <4>1, ComplexAssumption
    <3>6. QED
      BY <2>1, <3>1, <3>4, <3>5 DEF Outcome, Promoted
  <2>2. CASE e \notin DOMAIN all
    <3>1. Refuse("FAILURE") /\ arr' = u
      BY <1>2, <1>6, <2>2 DEF PromoteEmployee
    <3>2. After(u, all, cells, "FAILURE")
      BY <1>1, <1>2, <3>1, RefusedAfter
    <3>3. QED
      BY <3>2 DEF Outcome, Refused
  <2>3. QED
    BY <2>1, <2>2
<1>7. ASSUME NEW a \in Ids, NEW t \in Ids, NEW factor \in Factors, AcquireCompany(a, t, factor)
      PROVE  Outcome(u, all, cells)
  <2>1. factor \in Int
    BY UnionFindAssumption
  <2>2. CASE Root(u, a) = Root(u, t)
    <3>1. Refuse("INVALID_INPUT") /\ arr' = Union(u, a, t, factor)
      BY <1>2, <1>7, <2>2 DEF AcquireCompany, Acquire
    <3>2. Forest(arr') /\ Alike(u, arr')
      BY <1>2, <2>1, <2>2, <3>1, UnionInGroup
    <3>3. After(u, all, cells, "INVALID_INPUT")
      BY <1>1, <3>1, <3>2, RefusedAfter
    <3>4. QED
      BY <3>3 DEF Outcome, Refused
  <2>3. CASE Root(u, a) # Root(u, t)
    <3>1. PICK first, second, gain : /\ first = Root(u, a) /\ second = Root(u, t)
                                     /\ gain = factor * u[second].union_value
      OBVIOUS
    <3>2. AfterJoin(u, all, cells, first, second, gain)
      BY <1>1, <1>7, <2>1, <2>3, <3>1, AcquireKeeps
    <3>3. Acquired(u, all, cells)
      BY <2>3, <3>1, <3>2 DEF Acquired
    <3>4. QED
      BY <3>3 DEF Outcome
  <2>4. QED
    BY <2>2, <2>3
<1>8. Outcome(u, all, cells)
  BY <1>3, <1>4, <1>5, <1>6, <1>7 DEF ComplexNext, EmployeeCalls, Acquisitions
<1>9. QED
  BY <1>1, <1>8

LEMMA NobodyInBooks ==
  ASSUME NEW ht, DOMAIN ht = {}, ht = [e \in {} |-> ht[e]]
  PROVE  /\ Table(ht) /\ Roster(ht) = {} /\ EmpsOf(ht) = 0 /\ GradesOf(ht) = 0
<1>1. Table(ht)
  <2>1. IsFiniteSet({})
    BY FS_EmptySet
  <2>2. QED
    BY <2>1 DEF Table
<1>2. Roster(ht) = {} /\ Unpaid(ht) = {} /\ UnpaidKeys(ht) = {}
  BY DEF Roster, Unpaid, UnpaidKeys
<1>3. EmpsOf(ht) = 0
  BY <1>2, FS_EmptySet DEF EmpsOf
<1>4. GradesOf(ht) = 0
  <2>1. Graded(UnpaidKeys(ht))
    BY <1>1, UnpaidFinite
  <2>2. QED
    BY <1>2, <2>1, GradesAre DEF GradesOf
<1>5. QED
  BY <1>1, <1>2, <1>3, <1>4

LEMMA FirstBooks == ComplexInit => Inv
<1> SUFFICES ASSUME ComplexInit PROVE Inv
  OBVIOUS
<1>1. PICK none : none = << >>
  OBVIOUS
<1>2. DOMAIN none = {} /\ none = [e \in {} |-> none[e]]
  BY <1>1
<1>3. Table(none) /\ Roster(none) = {} /\ EmpsOf(none) = 0 /\ GradesOf(none) = 0
  BY <1>2, NobodyInBooks
<1>4. /\ system = [all |-> none, tree |-> {}, emps |-> 0, grades |-> 0]
      /\ comp = [i \in Ids |-> [ht |-> none, tree |-> {}, emps |-> 0, grades |-> 0]]
      /\ cell = none
  BY <1>1 DEF ComplexInit
<1>5. system = SystemOf(none) /\ system.all = none
  BY <1>3, <1>4 DEF SystemOf, SystemBook
<1>6. \A r \in Ids : comp[r] = CompanyOf(none)
  BY <1>3, <1>4 DEF CompanyOf, CompanyBook
<1>7. \A r \in Ids : PartOf(none, none, r) = none
  BY <1>2 DEF PartOf
<1>8. none \in Cells(none)
  BY <1>2 DEF Cells
<1>9. Forest(arr)
  BY FirstForest DEF ComplexInit, Init
<1>10. comp = [i \in Ids |-> comp[i]]
  BY <1>4
<1>11. QED
  BY <1>2, <1>3, <1>4, <1>5, <1>6, <1>7, <1>8, <1>9, <1>10 DEF Inv, Booked

LEMMA EveryStepKeeps == Inv /\ [ComplexNext]_vars => Inv'
<1> SUFFICES ASSUME Inv, [ComplexNext]_vars PROVE Inv'
  OBVIOUS
<1>1. CASE ComplexNext
  <2>1. PICK u, all, cells : Before(u, all, cells) /\ Outcome(u, all, cells)
    BY <1>1, EveryCall
  <2>2. QED
    BY <2>1 DEF Outcome, Refused, Added, Removed, Raised, Promoted, Acquired, After, AfterJoin
<1>2. CASE UNCHANGED vars
  BY <1>2 DEF vars, Inv
<1>3. QED
  BY <1>1, <1>2

(* Whatever is added, raised, promoted, removed and acquired, table, trees, *)
(* totals and cells say the same of every employee (library2.cpp).         *)
THEOREM BooksAgree == ComplexSpec => []StructuresAgree
<1>1. ComplexInit => Inv
  BY FirstBooks
<1>2. Inv /\ [ComplexNext]_vars => Inv'
  BY EveryStepKeeps
<1>3. Inv => StructuresAgree
  BY BookedAgrees
<1>4. QED
  BY <1>1, <1>2, <1>3, PTL DEF ComplexSpec

(* The employees that books, cells and forest stand for.                   *)
StaffMap(u, all, cells) ==
  [e \in DOMAIN cells |-> [group |-> Group(u, cells[e]),
                           salary |-> all[e].salary, grade |-> all[e].grade]]

LEMMA StaffAlike ==
  ASSUME NEW u, NEW v, Alike(u, v), NEW all, NEW cells
  PROVE  StaffMap(v, all, cells) = StaffMap(u, all, cells)
<1>1. \A r : Group(v, r) = Group(u, r)
  BY DEF Group, Alike
<1>2. QED
  BY <1>1 DEF StaffMap

(* A staff with a newcomer of no salary.                                   *)
Enlisted(staff, e, group, grade) ==
  [f \in DOMAIN staff \cup {e} |->
     IF f = e THEN [group |-> group, salary |-> 0, grade |-> grade] ELSE staff[f]]

LEMMA StaffWith ==
  ASSUME NEW u, NEW all, NEW cells \in Cells(all), NEW e, e \notin DOMAIN all, NEW r,
         NEW grade, NEW d, d = [salary |-> 0, grade |-> grade], NEW staff,
         staff = StaffMap(u, all, cells)
  PROVE  /\ e \notin DOMAIN staff
         /\ StaffMap(u, With(all, e, d), With(cells, e, r))
              = Enlisted(staff, e, Group(u, r), grade)
<1>1. PICK more, now : more = With(all, e, d) /\ now = With(cells, e, r)
  OBVIOUS
<1>2. /\ DOMAIN staff = DOMAIN all /\ DOMAIN now = DOMAIN all \cup {e}
      /\ more[e] = d /\ now[e] = r
      /\ \A f \in DOMAIN all : more[f] = all[f] /\ now[f] = cells[f]
  BY <1>1 DEF With, StaffMap, Cells
<1>3. \A f \in DOMAIN all :
        staff[f] = [group |-> Group(u, cells[f]), salary |-> all[f].salary, grade |-> all[f].grade]
  BY DEF StaffMap, Cells
<1>4. d.salary = 0 /\ d.grade = grade
  OBVIOUS
<1>5. \A f \in DOMAIN now :
        [group |-> Group(u, now[f]), salary |-> more[f].salary, grade |-> more[f].grade] =
          IF f = e THEN [group |-> Group(u, r), salary |-> 0, grade |-> grade] ELSE staff[f]
  BY <1>2, <1>3, <1>4
<1>6. StaffMap(u, more, now) =
        [f \in DOMAIN now |->
           IF f = e THEN [group |-> Group(u, r), salary |-> 0, grade |-> grade] ELSE staff[f]]
  BY <1>5 DEF StaffMap
<1>7. StaffMap(u, more, now) = Enlisted(staff, e, Group(u, r), grade)
  BY <1>2, <1>6 DEF Enlisted
<1>8. QED
  BY <1>1, <1>2, <1>7

LEMMA StaffWithout ==
  ASSUME NEW u, NEW all, NEW cells \in Cells(all), NEW e \in DOMAIN all, NEW staff,
         staff = StaffMap(u, all, cells)
  PROVE  /\ e \in DOMAIN staff
         /\ StaffMap(u, Without(all, e), Without(cells, e)) =
              [f \in DOMAIN staff \ {e} |-> staff[f]]
<1>1. PICK less, now : less = Without(all, e) /\ now = Without(cells, e)
  OBVIOUS
<1>2. /\ DOMAIN staff = DOMAIN all /\ DOMAIN now = DOMAIN all \ {e}
      /\ \A f \in DOMAIN now : less[f] = all[f] /\ now[f] = cells[f]
  BY <1>1 DEF Without, StaffMap, Cells
<1>3. \A f \in DOMAIN all :
        staff[f] = [group |-> Group(u, cells[f]), salary |-> all[f].salary, grade |-> all[f].grade]
  BY DEF StaffMap, Cells
<1>4. \A f \in DOMAIN now :
        [group |-> Group(u, now[f]), salary |-> less[f].salary, grade |-> less[f].grade] = staff[f]
  BY <1>2, <1>3
<1>5. StaffMap(u, less, now) = [f \in DOMAIN now |-> staff[f]]
  BY <1>4 DEF StaffMap
<1>6. QED
  BY <1>1, <1>2, <1>5

(* A staff with one entry rewritten, and with two groups made one.         *)
Rewritten(staff, e, salary, grade) ==
  [f \in DOMAIN staff |->
     IF f = e THEN [group |-> staff[e].group, salary |-> salary, grade |-> grade] ELSE staff[f]]
Merged(staff, one, other) ==
  [e \in DOMAIN staff |->
     IF staff[e].group \in {one, other} THEN [staff[e] EXCEPT !.group = one \cup other]
     ELSE staff[e]]

LEMMA StaffChanged ==
  ASSUME NEW u, NEW all, Table(all), NEW cells \in Cells(all), NEW e \in DOMAIN all, NEW staff,
         staff = StaffMap(u, all, cells), NEW salary, NEW grade, NEW new,
         new = [salary |-> salary, grade |-> grade]
  PROVE  /\ e \in DOMAIN staff
         /\ staff[e].salary = all[e].salary /\ staff[e].grade = all[e].grade
         /\ StaffMap(u, Replaced(all, e, new), cells) = Rewritten(staff, e, salary, grade)
<1>1. PICK changed : changed = Replaced(all, e, new)
  OBVIOUS
<1>2. /\ DOMAIN staff = DOMAIN all /\ DOMAIN cells = DOMAIN all
      /\ changed[e] = new
      /\ \A f \in DOMAIN all \ {e} : changed[f] = all[f]
  BY <1>1 DEF Replaced, StaffMap, Cells, Table
<1>3. \A f \in DOMAIN all :
        staff[f] = [group |-> Group(u, cells[f]), salary |-> all[f].salary, grade |-> all[f].grade]
  BY DEF StaffMap, Cells
<1>4. \A f \in DOMAIN cells :
        [group |-> Group(u, cells[f]), salary |-> changed[f].salary, grade |-> changed[f].grade] =
          IF f = e THEN [group |-> staff[e].group, salary |-> salary, grade |-> grade]
          ELSE staff[f]
  BY <1>2, <1>3
<1>5. StaffMap(u, changed, cells) =
        [f \in DOMAIN staff |->
           IF f = e THEN [group |-> staff[e].group, salary |-> salary, grade |-> grade]
           ELSE staff[f]]
  BY <1>2, <1>4 DEF StaffMap
<1>6. QED
  BY <1>1, <1>2, <1>3, <1>5 DEF Rewritten

LEMMA StaffMoved ==
  ASSUME NEW u, Forest(u), NEW all, Table(all), NEW cells \in Cells(all),
         \A e \in DOMAIN all : is_root(u, cells[e]),
         NEW v, NEW win \in Ids, NEW lose \in Ids, NEW a \in Ids, NEW t \in Ids,
         NEW first, NEW second, NEW gain, first = Root(u, a), second = Root(u, t),
         Joined(u, v, win, lose, first, second, gain), NEW staff, staff = StaffMap(u, all, cells)
  PROVE  StaffMap(v, all, Moved(all, cells, win, lose)) =
           Merged(staff, Group(u, first), Group(u, second))
<1>1. PICK now, both : /\ now = Moved(all, cells, win, lose)
                       /\ both = Group(u, first) \cup Group(u, second)
  OBVIOUS
<1>2. /\ DOMAIN staff = DOMAIN all /\ DOMAIN cells = DOMAIN all /\ DOMAIN now = DOMAIN all
      /\ \A e \in DOMAIN all : cells[e] \in Ids
      /\ \A e \in DOMAIN all : now[e] = IF cells[e] = lose THEN win ELSE cells[e]
  BY <1>1 DEF StaffMap, Cells, Moved
<1>3. \A e \in DOMAIN all :
        staff[e] = [group |-> Group(u, cells[e]), salary |-> all[e].salary, grade |-> all[e].grade]
  BY DEF StaffMap, Cells
<1>4. Group(v, win) = both /\ \A r \in Ids \ {win, lose} : Group(v, r) = Group(u, r)
  BY <1>1, JoinedGroup
<1>5. first \in Ids /\ second \in Ids /\ is_root(u, first) /\ is_root(u, second)
  BY ForestRoots
<1>6. {win, lose} = {first, second}
  BY DEF Joined
<1>7. ASSUME NEW e \in DOMAIN all
      PROVE  [group |-> Group(v, now[e]), salary |-> all[e].salary, grade |-> all[e].grade] =
               IF staff[e].group \in {Group(u, first), Group(u, second)}
               THEN [staff[e] EXCEPT !.group = both] ELSE staff[e]
  <2>1. PICK r, x : r = cells[e] /\ x = staff[e]
    OBVIOUS
  <2>2. /\ r \in Ids /\ is_root(u, r)
        /\ x = [group |-> Group(u, r), salary |-> all[e].salary, grade |-> all[e].grade]
        /\ now[e] = IF r = lose THEN win ELSE r
    BY <1>2, <1>3, <2>1
  <2>3. Group(u, r) \in {Group(u, first), Group(u, second)} <=> r \in {first, second}
    <3>1. Group(u, r) = Group(u, first) <=> r = first
      BY <1>5, <2>2, SameGroup
    <3>2. Group(u, r) = Group(u, second) <=> r = second
      BY <1>5, <2>2, SameGroup
    <3>3. QED
      BY <3>1, <3>2
  <2>4. CASE r \in {first, second}
    <3>1. r \in {win, lose}
      BY <1>6, <2>4
    <3>2. now[e] = win
      BY <2>2, <3>1
    <3>3. [x EXCEPT !.group = both]
            = [group |-> both, salary |-> all[e].salary, grade |-> all[e].grade]
      BY <2>2
    <3>4. x.group \in {Group(u, first), Group(u, second)}
      BY <2>2, <2>3, <2>4
    <3>5. QED
      BY <1>4, <2>1, <3>2, <3>3, <3>4
  <2>5. CASE r \notin {first, second}
    <3>1. r \notin {win, lose}
      BY <1>6, <2>5
    <3>2. Group(v, now[e]) = Group(u, r)
      BY <1>4, <2>2, <3>1
    <3>3. x.group \notin {Group(u, first), Group(u, second)}
      BY <2>2, <2>3, <2>5
    <3>4. QED
      BY <2>1, <2>2, <3>2, <3>3
  <2>6. QED
    BY <2>4, <2>5
<1>8. StaffMap(v, all, now) =
        [e \in DOMAIN staff |->
           IF staff[e].group \in {Group(u, first), Group(u, second)}
           THEN [staff[e] EXCEPT !.group = both] ELSE staff[e]]
  BY <1>2, <1>7 DEF StaffMap
<1>9. QED
  BY <1>1, <1>8 DEF Merged

-----------------------------------------------------------------------------
(* What the registry sees of a step.                                       *)
LEMMA RegistryIds == Registry!Ids = Ids
BY DEF Registry!Ids, Ids

LEMMA LedgerUnchanged ==
  ASSUME NEW u, NEW all, NEW cells, Before(u, all, cells), NEW to, NEW now, NEW res,
         After(u, to, now, res)
  PROVE  /\ UNCHANGED Registry!vars
         /\ StaffMap(arr, system.all, cell)' = StaffMap(u, to, now)
         /\ StaffMap(arr, system.all, cell) = StaffMap(u, all, cells)
<1>1. u = arr /\ Forest(u) /\ Alike(u, arr')
  BY DEF Before, After
<1>2. /\ ValueMap(arr') = ValueMap(arr) /\ WorthMap(arr') = WorthMap(arr)
      /\ GroupMap(arr') = GroupMap(arr)
  BY <1>1, AlikeLedgers
<1>3. UNCHANGED Registry!vars
  BY <1>2 DEF Registry!vars, ValueMap, WorthMap, GroupMap
<1>4. StaffMap(arr', to, now) = StaffMap(u, to, now)
  BY <1>1, StaffAlike
<1>5. StaffMap(arr, system.all, cell)' = StaffMap(arr', system'.all, cell')
  BY DEF StaffMap
<1>6. system'.all = to /\ cell' = now /\ all = system.all /\ cells = cell
  BY DEF Before, After
<1>7. StaffMap(arr, system.all, cell)' = StaffMap(u, to, now)
  BY <1>4, <1>5, <1>6
<1>8. StaffMap(arr, system.all, cell) = StaffMap(u, all, cells)
  BY <1>1, <1>6
<1>9. QED
  BY <1>3, <1>7, <1>8

LEMMA RefusedIsSeen ==
  ASSUME NEW u, NEW all, NEW cells, Before(u, all, cells), Refused(u, all, cells)
  PROVE  Registry!RegistryNext
<1>1. PICK res \in {"FAILURE", "INVALID_INPUT"} : After(u, all, cells, res)
  BY DEF Refused
<1>2. /\ UNCHANGED Registry!vars
      /\ StaffMap(arr, system.all, cell)' = StaffMap(arr, system.all, cell)
  BY <1>1, LedgerUnchanged
<1>3. result' = res
  BY <1>1 DEF After
<1>4. Registry!Refused(res)
  BY <1>2, <1>3, Zenon DEF Registry!Refused, StaffMap
<1>5. QED
  BY <1>4 DEF Registry!RegistryNext

LEMMA AddedIsSeen ==
  ASSUME NEW u, NEW all, NEW cells, Before(u, all, cells), Added(u, all, cells)
  PROVE  Registry!RegistryNext
<1>1. PICK e \in Employees \ DOMAIN all, c \in Ids, grade \in 0 .. MaxGrade :
        /\ is_root(u, Root(u, c))
        /\ After(u, With(all, e, [salary |-> 0, grade |-> grade]), With(cells, e, Root(u, c)),
                 "SUCCESS")
  BY DEF Added
<1>2. PICK d, r, staff : /\ d = [salary |-> 0, grade |-> grade] /\ r = Root(u, c)
                         /\ staff = StaffMap(u, all, cells)
  OBVIOUS
<1>3. After(u, With(all, e, d), With(cells, e, r), "SUCCESS")
  BY <1>1, <1>2
<1>4. /\ UNCHANGED Registry!vars
      /\ StaffMap(arr, system.all, cell)' = StaffMap(u, With(all, e, d), With(cells, e, r))
      /\ StaffMap(arr, system.all, cell) = staff
  BY <1>2, <1>3, LedgerUnchanged
<1>5. cells \in Cells(all) /\ e \notin DOMAIN all /\ u = arr
  BY <1>1 DEF Before
<1>6. /\ e \notin DOMAIN staff
      /\ StaffMap(u, With(all, e, d), With(cells, e, r))
           = Enlisted(staff, e, Group(u, r), grade)
  BY <1>2, <1>5, StaffWith
<1>7. GroupMap(arr)[c] = Group(u, r)
  BY <1>2, <1>5 DEF GroupMap
<1>8. /\ e \notin DOMAIN StaffMap(arr, system.all, cell)
      /\ StaffMap(arr, system.all, cell)' =
           [f \in DOMAIN StaffMap(arr, system.all, cell) \cup {e} |->
              IF f = e THEN [group |-> GroupMap(arr)[c], salary |-> 0, grade |-> grade]
              ELSE StaffMap(arr, system.all, cell)[f]]
  BY <1>4, <1>6, <1>7 DEF Enlisted
<1>9. Registry!AddEmployee(e, c, grade)
  BY <1>8, Zenon DEF Registry!AddEmployee, StaffMap, GroupMap
<1>10. Registry!Done
  BY <1>3 DEF Registry!Done, After
<1>11. e \in Employees
  BY <1>1
<1>12. Registry!EmployeeCalls
  BY <1>9, <1>11, RegistryIds DEF Registry!EmployeeCalls
<1>13. QED
  BY <1>4, <1>10, <1>12 DEF Registry!RegistryNext

LEMMA RemovedIsSeen ==
  ASSUME NEW u, NEW all, NEW cells, Before(u, all, cells), Removed(u, all, cells)
  PROVE  Registry!RegistryNext
<1>1. PICK e \in Employees \cap DOMAIN all :
        After(u, Without(all, e), Without(cells, e), "SUCCESS")
  BY DEF Removed
<1>2. PICK staff : staff = StaffMap(u, all, cells)
  OBVIOUS
<1>3. /\ UNCHANGED Registry!vars
      /\ StaffMap(arr, system.all, cell)' = StaffMap(u, Without(all, e), Without(cells, e))
      /\ StaffMap(arr, system.all, cell) = staff
  BY <1>1, <1>2, LedgerUnchanged
<1>4. cells \in Cells(all) /\ e \in DOMAIN all
  BY <1>1 DEF Before
<1>5. /\ e \in DOMAIN staff
      /\ StaffMap(u, Without(all, e), Without(cells, e)) = [f \in DOMAIN staff \ {e} |-> staff[f]]
  BY <1>2, <1>4, StaffWithout
<1>6. /\ e \in DOMAIN StaffMap(arr, system.all, cell)
      /\ StaffMap(arr, system.all, cell)' =
           [f \in DOMAIN StaffMap(arr, system.all, cell) \ {e} |-> StaffMap(arr, system.all, cell)[f]]
  BY <1>3, <1>5
<1>7. Registry!RemoveEmployee(e)
  BY <1>6, Zenon DEF Registry!RemoveEmployee, StaffMap
<1>8. Registry!Done
  BY <1>1 DEF Registry!Done, After
<1>9. Registry!EmployeeCalls
  BY <1>1, <1>7 DEF Registry!EmployeeCalls
<1>10. QED
  BY <1>3, <1>8, <1>9 DEF Registry!RegistryNext

(* A staff is a function, and its entries are records of three fields.     *)
Listing(staff) == staff = [f \in DOMAIN staff |-> staff[f]]
WithSalary(staff, e, m) == [staff EXCEPT ![e].salary = m]
WithGrade(staff, e, m) == [staff EXCEPT ![e].grade = m]
Entry(x) == x = [group |-> x.group, salary |-> x.salary, grade |-> x.grade]

(* The entry of a raised or promoted employee, in the books and the staff. *)
LEMMA EntryRaised ==
  ASSUME NEW staff, NEW e \in DOMAIN staff, Listing(staff), NEW x, x = staff[e], Entry(x), NEW m
  PROVE  /\ WithSalary(staff, e, m) = Rewritten(staff, e, m, x.grade)
         /\ WithGrade(staff, e, m) = Rewritten(staff, e, x.salary, m)
<1>1. [x EXCEPT !.salary = m] = [group |-> x.group, salary |-> m, grade |-> x.grade]
  BY DEF Entry
<1>2. [x EXCEPT !.grade = m] = [group |-> x.group, salary |-> x.salary, grade |-> m]
  BY DEF Entry
<1>3. QED
  BY <1>1, <1>2 DEF Rewritten, Listing, WithSalary, WithGrade

LEMMA StaffTypes ==
  ASSUME NEW u, NEW all, NEW cells, NEW staff, staff = StaffMap(u, all, cells)
  PROVE  Listing(staff) /\ \A e \in DOMAIN staff : Entry(staff[e])
BY DEF StaffMap, Listing, Entry

LEMMA RaisedIsSeen ==
  ASSUME NEW u, NEW all, NEW cells, Before(u, all, cells), Raised(u, all, cells)
  PROVE  Registry!RegistryNext
<1>1. PICK e \in Employees \cap DOMAIN all, raise \in 1 .. MaxSalary :
        After(u, Replaced(all, e, [all[e] EXCEPT !.salary = @ + raise]), cells, "SUCCESS")
  BY DEF Raised
<1>2. PICK staff, m, new, x :
        /\ staff = StaffMap(u, all, cells) /\ new = [all[e] EXCEPT !.salary = @ + raise]
        /\ m = all[e].salary + raise /\ x = staff[e]
  OBVIOUS
<1>3. cells \in Cells(all) /\ e \in DOMAIN all /\ Table(all)
  BY <1>1 DEF Before
<1>4. new = [salary |-> m, grade |-> all[e].grade]
  <2>1. all[e] \in Data
    BY <1>3 DEF Table
  <2>2. all[e] = [salary |-> all[e].salary, grade |-> all[e].grade]
    BY <2>1, DataTypes
  <2>3. QED
    BY <1>2, <2>2
<1>5. /\ UNCHANGED Registry!vars
      /\ StaffMap(arr, system.all, cell)' = StaffMap(u, Replaced(all, e, new), cells)
      /\ StaffMap(arr, system.all, cell) = staff
  BY <1>1, <1>2, LedgerUnchanged
<1>6. /\ e \in DOMAIN staff
      /\ x.salary = all[e].salary /\ x.grade = all[e].grade
      /\ StaffMap(u, Replaced(all, e, new), cells) = Rewritten(staff, e, m, x.grade)
  <2>1. PICK k : k = all[e].grade
    OBVIOUS
  <2>2. staff = StaffMap(u, all, cells) /\ x = staff[e]
    BY <1>2
  <2>3. new = [salary |-> m, grade |-> k]
    BY <1>4, <2>1
  <2>4. /\ e \in DOMAIN staff
        /\ staff[e].salary = all[e].salary /\ staff[e].grade = all[e].grade
        /\ StaffMap(u, Replaced(all, e, new), cells) = Rewritten(staff, e, m, k)
    BY <1>3, <2>2, <2>3, StaffChanged
  <2>5. QED
    BY <2>1, <2>2, <2>4
<1>7. StaffMap(u, Replaced(all, e, new), cells) = [staff EXCEPT ![e].salary = m]
  <2>1. x = staff[e] /\ staff = StaffMap(u, all, cells)
    BY <1>2
  <2>2. Listing(staff) /\ Entry(x)
    BY <1>6, <2>1, StaffTypes
  <2>3. WithSalary(staff, e, m) = Rewritten(staff, e, m, x.grade)
    BY <1>6, <2>1, <2>2, EntryRaised
  <2>4. QED
    BY <1>6, <2>3, Zenon DEF WithSalary
<1>8. m = staff[e].salary + raise
  BY <1>2, <1>6
<1>9. /\ e \in DOMAIN StaffMap(arr, system.all, cell)
      /\ StaffMap(arr, system.all, cell)' =
           [StaffMap(arr, system.all, cell) EXCEPT ![e].salary = @ + raise]
  <2>1. StaffMap(arr, system.all, cell)' = [staff EXCEPT ![e].salary = @ + raise]
    BY <1>5, <1>7, <1>8, Zenon
  <2>2. QED
    BY <1>5, <1>6, <2>1, Zenon
<1>10. Registry!EmployeeSalaryIncrease(e, raise)
  BY <1>9, Zenon DEF Registry!EmployeeSalaryIncrease, StaffMap
<1>11. Registry!Done
  BY <1>1 DEF Registry!Done, After
<1>12. Registry!EmployeeCalls
  BY <1>1, <1>10 DEF Registry!EmployeeCalls
<1>13. QED
  BY <1>5, <1>11, <1>12 DEF Registry!RegistryNext

LEMMA PromotedIsSeen ==
  ASSUME NEW u, NEW all, NEW cells, Before(u, all, cells), Promoted(u, all, cells)
  PROVE  Registry!RegistryNext
<1>1. PICK e \in Employees \cap DOMAIN all, bump \in 1 .. MaxGrade :
        After(u, Replaced(all, e, [all[e] EXCEPT !.grade = @ + bump]), cells, "SUCCESS")
  BY DEF Promoted
<1>2. PICK staff, m, new, x :
        /\ staff = StaffMap(u, all, cells) /\ new = [all[e] EXCEPT !.grade = @ + bump]
        /\ m = all[e].grade + bump /\ x = staff[e]
  OBVIOUS
<1>3. cells \in Cells(all) /\ e \in DOMAIN all /\ Table(all)
  BY <1>1 DEF Before
<1>4. new = [salary |-> all[e].salary, grade |-> m]
  <2>1. all[e] \in Data
    BY <1>3 DEF Table
  <2>2. all[e] = [salary |-> all[e].salary, grade |-> all[e].grade]
    BY <2>1, DataTypes
  <2>3. QED
    BY <1>2, <2>2
<1>5. /\ UNCHANGED Registry!vars
      /\ StaffMap(arr, system.all, cell)' = StaffMap(u, Replaced(all, e, new), cells)
      /\ StaffMap(arr, system.all, cell) = staff
  BY <1>1, <1>2, LedgerUnchanged
<1>6. /\ e \in DOMAIN staff
      /\ x.salary = all[e].salary /\ x.grade = all[e].grade
      /\ StaffMap(u, Replaced(all, e, new), cells) = Rewritten(staff, e, x.salary, m)
  <2>1. PICK k : k = all[e].salary
    OBVIOUS
  <2>2. staff = StaffMap(u, all, cells) /\ x = staff[e]
    BY <1>2
  <2>3. new = [salary |-> k, grade |-> m]
    BY <1>4, <2>1
  <2>4. /\ e \in DOMAIN staff
        /\ staff[e].salary = all[e].salary /\ staff[e].grade = all[e].grade
        /\ StaffMap(u, Replaced(all, e, new), cells) = Rewritten(staff, e, k, m)
    BY <1>3, <2>2, <2>3, StaffChanged
  <2>5. QED
    BY <2>1, <2>2, <2>4
<1>7. StaffMap(u, Replaced(all, e, new), cells) = [staff EXCEPT ![e].grade = m]
  <2>1. x = staff[e] /\ staff = StaffMap(u, all, cells)
    BY <1>2
  <2>2. Listing(staff) /\ Entry(x)
    BY <1>6, <2>1, StaffTypes
  <2>3. WithGrade(staff, e, m) = Rewritten(staff, e, x.salary, m)
    BY <1>6, <2>1, <2>2, EntryRaised
  <2>4. QED
    BY <1>6, <2>3, Zenon DEF WithGrade
<1>8. m = staff[e].grade + bump
  BY <1>2, <1>6
<1>9. /\ e \in DOMAIN StaffMap(arr, system.all, cell)
      /\ StaffMap(arr, system.all, cell)' =
           [StaffMap(arr, system.all, cell) EXCEPT ![e].grade = @ + bump]
  <2>1. StaffMap(arr, system.all, cell)' = [staff EXCEPT ![e].grade = @ + bump]
    BY <1>5, <1>7, <1>8, Zenon
  <2>2. QED
    BY <1>5, <1>6, <2>1, Zenon
<1>10. Registry!PromoteEmployee(e, bump)
  BY <1>9, Zenon DEF Registry!PromoteEmployee, StaffMap
<1>11. Registry!Done
  BY <1>1 DEF Registry!Done, After
<1>12. Registry!EmployeeCalls
  BY <1>1, <1>10 DEF Registry!EmployeeCalls
<1>13. QED
  BY <1>5, <1>11, <1>12 DEF Registry!RegistryNext

LEMMA AcquiredIsSeen ==
  ASSUME NEW u, NEW all, NEW cells, Before(u, all, cells), Acquired(u, all, cells)
  PROVE  Registry!RegistryNext
<1>1. PICK a \in Ids, t \in Ids, factor \in Factors :
        /\ Root(u, a) # Root(u, t)
        /\ AfterJoin(u, all, cells, Root(u, a), Root(u, t), factor * u[Root(u, t)].union_value)
  BY DEF Acquired
<1>2. PICK first, second, gain, staff :
        /\ first = Root(u, a) /\ second = Root(u, t) /\ gain = factor * u[second].union_value
        /\ staff = StaffMap(u, all, cells)
  OBVIOUS
<1>3. AfterJoin(u, all, cells, first, second, gain)
  BY <1>1, <1>2
<1>4. PICK win \in Ids, lose \in Ids :
        /\ Joined(u, arr', win, lose, first, second, gain)
        /\ system'.all = all /\ cell' = Moved(all, cells, win, lose) /\ result' = "SUCCESS"
  BY <1>3 DEF AfterJoin
<1>5. /\ u = arr /\ all = system.all /\ cells = cell /\ Forest(u) /\ Table(all)
      /\ cells \in Cells(all) /\ \A e \in DOMAIN all : is_root(u, cells[e])
  BY DEF Before
<1>6. PICK v : v = arr'
  OBVIOUS
<1>7. LedgerStep(arr, arr', a, t, factor)
  <2>1. factor \in Int
    BY UnionFindAssumption
  <2>2. Joined(u, v, win, lose, Root(u, a), Root(u, t), factor * u[Root(u, t)].union_value)
    BY <1>2, <1>4, <1>6
  <2>3. LedgerStep(u, v, a, t, factor)
    BY <1>5, <2>1, <2>2, JoinedLedgers
  <2>4. QED
    BY <1>5, <1>6, <2>3
<1>8. Registry!Acquire(a, t, factor)
  BY <1>7, RegistryIds, Zenon DEF Registry!Acquire, LedgerStep, ValueMap, WorthMap, GroupMap
<1>9. GroupMap(arr)[a] = Group(u, first) /\ GroupMap(arr)[t] = Group(u, second)
  BY <1>2, <1>5 DEF GroupMap
<1>10. StaffMap(v, all, Moved(all, cells, win, lose)) =
         Merged(staff, Group(u, first), Group(u, second))
  BY <1>2, <1>4, <1>5, <1>6, StaffMoved
<1>11. /\ StaffMap(arr, system.all, cell)' = StaffMap(v, all, Moved(all, cells, win, lose))
       /\ StaffMap(arr, system.all, cell) = staff
  <2>1. StaffMap(arr, system.all, cell)' = StaffMap(arr', system'.all, cell')
    BY DEF StaffMap
  <2>2. QED
    BY <1>2, <1>4, <1>5, <1>6, <2>1
<1>12. StaffMap(arr, system.all, cell)' =
         [e \in DOMAIN StaffMap(arr, system.all, cell) |->
            IF StaffMap(arr, system.all, cell)[e].group \in {GroupMap(arr)[a], GroupMap(arr)[t]}
            THEN [StaffMap(arr, system.all, cell)[e] EXCEPT
                    !.group = GroupMap(arr)[a] \cup GroupMap(arr)[t]]
            ELSE StaffMap(arr, system.all, cell)[e]]
  <2>1. StaffMap(arr, system.all, cell)' =
          Merged(StaffMap(arr, system.all, cell), GroupMap(arr)[a], GroupMap(arr)[t])
    BY <1>9, <1>10, <1>11, Zenon
  <2>2. QED
    BY <2>1, Zenon DEF Merged
<1>13. Registry!AcquireCompany(a, t, factor)
  BY <1>8, <1>12, Zenon DEF Registry!AcquireCompany, StaffMap, GroupMap
<1>14. Registry!Done
  BY <1>4 DEF Registry!Done
<1>15. QED
  BY <1>13, <1>14, RegistryIds DEF Registry!RegistryNext

(* Tables, trees, totals, cells and forest together behave as one registry *)
(* of values and employees (library2.cpp on uf.h).                         *)
THEOREM ComplexIsRegistry == ComplexSpec => ImplementsRegistry
<1>1. ComplexInit => Inv
  BY FirstBooks
<1>2. Inv /\ [ComplexNext]_vars => Inv'
  BY EveryStepKeeps
<1>3. ComplexInit => Registry!RegistryInit
  <2> SUFFICES ASSUME ComplexInit PROVE Registry!RegistryInit
    OBVIOUS
  <2>1. Registry!Init
    BY FirstLedger DEF ComplexInit, Registry!Init, Ledger!Init, Registry!Ids, Ledger!Ids
  <2>2. [e \in DOMAIN cell |-> [group |-> Group(arr, cell[e]), salary |-> system.all[e].salary,
                                grade |-> system.all[e].grade]] = << >>
    BY DEF ComplexInit
  <2>3. QED
    BY <2>1, <2>2 DEF Registry!RegistryInit, ComplexInit
<1>4. Inv /\ [ComplexNext]_vars => [Registry!RegistryNext]_(Registry!registry)
  <2> SUFFICES ASSUME Inv, [ComplexNext]_vars
               PROVE  [Registry!RegistryNext]_(Registry!registry)
    OBVIOUS
  <2>1. CASE ComplexNext
    <3>1. PICK u, all, cells : Before(u, all, cells) /\ Outcome(u, all, cells)
      BY <2>1, EveryCall
    <3>2. QED
      BY <3>1, RefusedIsSeen, AddedIsSeen, RemovedIsSeen, RaisedIsSeen, PromotedIsSeen,
         AcquiredIsSeen DEF Outcome
  <2>2. CASE UNCHANGED vars
    BY <2>2 DEF vars, Registry!registry
  <2>3. QED
    BY <2>1, <2>2
<1>5. QED
  BY <1>1, <1>2, <1>3, <1>4, PTL DEF ComplexSpec, ImplementsRegistry, Registry!RegistrySpec


-----------------------------------------------------------------------------
(* What the queries answer for a company.                                  *)
KeysOf(ht, S) == {Key(e, ht[e]) : e \in S}

Asked(ht, lo, hi) == {e \in DOMAIN ht : lo <= ht[e].salary /\ ht[e].salary <= hi}

LEMMA KeysCounted ==
  ASSUME NEW ht, Table(ht), NEW S \in SUBSET DOMAIN ht
  PROVE  /\ IsFiniteSet(S) /\ Graded(KeysOf(ht, S))
         /\ Cardinality(KeysOf(ht, S)) = Cardinality(S)
<1>1. IsFiniteSet(S)
  BY FS_Subset DEF Table
<1> DEFINE k == [e \in S |-> Key(e, ht[e])]
<1>2. \A e \in S : k[e] = Key(e, ht[e]) /\ k[e] \in KeysOf(ht, S)
  BY DEF KeysOf
<1>3. k \in Bijection(S, KeysOf(ht, S))
  <2>1. k \in [S -> KeysOf(ht, S)]
    BY DEF KeysOf
  <2>2. \A e, f \in S : k[e] = k[f] => e = f
    BY <1>2, KeysDiffer
  <2>3. \A x \in KeysOf(ht, S) : \E e \in S : k[e] = x
    BY <1>2 DEF KeysOf
  <2> HIDE DEF k
  <2>4. QED
    BY <2>1, <2>2, <2>3 DEF Bijection, Injection, Surjection, IsInjective
<1> HIDE DEF k
<1>4. IsFiniteSet(KeysOf(ht, S)) /\ Cardinality(KeysOf(ht, S)) = Cardinality(S)
  BY <1>1, <1>3, FS_Bijection DEF ExistsBijection
<1>5. \A x \in KeysOf(ht, S) : x.grade \in Nat
  <2>1. ASSUME NEW e \in S
        PROVE  Key(e, ht[e]).grade \in Nat
    <3>1. ht[e] \in Data
      BY DEF Table
    <3>2. QED
      BY <3>1, DataTypes DEF Key
  <2>2. QED
    BY <2>1 DEF KeysOf
<1>6. QED
  BY <1>1, <1>4, <1>5 DEF Graded

(* AverageBumpGradeBetweenSalaryByGroup: the tree answers for the paid, the *)
(* totals for the others, and together they answer for everybody asked for. *)
LEMMA AverageIs ==
  ASSUME NEW ht, Table(ht), NEW lo \in Nat, NEW hi \in Nat, NEW where, where = CompanyOf(ht)
  PROVE  AverageOf(where, lo, hi) =
           <<SumGrades(KeysOf(ht, Asked(ht, lo, hi))), Cardinality(Asked(ht, lo, hi))>>
<1>1. PICK asked, paid, unpaid, in :
        /\ asked = Asked(ht, lo, hi) /\ unpaid = Unpaid(ht)
        /\ paid = {e \in asked : ht[e].salary > 0}
        /\ in = {k \in where.tree : lo <= k.salary /\ k.salary <= hi}
  OBVIOUS
<1>2. \A e \in DOMAIN ht : ht[e].salary \in Nat
  BY DataTypes DEF Table
<1>3. asked \in SUBSET DOMAIN ht /\ paid \in SUBSET DOMAIN ht /\ unpaid \in SUBSET DOMAIN ht
  BY <1>1 DEF Asked, Unpaid
<1>4. where.tree = Roster(ht) /\ where.emps = Cardinality(unpaid)
      /\ where.grades = SumGrades(KeysOf(ht, unpaid))
  <2>1. /\ where.tree = Roster(ht) /\ where.emps = EmpsOf(ht) /\ where.grades = GradesOf(ht)
    BY CompanyFields DEF CompanyOf
  <2>2. QED
    BY <1>1, <2>1 DEF EmpsOf, GradesOf, UnpaidKeys, KeysOf
<1>5. in = KeysOf(ht, paid)
  <2>1. \A e : Key(e, ht[e]).salary = ht[e].salary
    BY DEF Key
  <2>2. QED
    BY <1>1, <1>4, <2>1 DEF Roster, KeysOf, Asked
<1>6. /\ IsFiniteSet(paid) /\ Graded(KeysOf(ht, paid))
      /\ Cardinality(KeysOf(ht, paid)) = Cardinality(paid) /\ Cardinality(paid) \in Nat
      /\ SumGrades(KeysOf(ht, paid)) \in Nat
  BY <1>3, KeysCounted, GradesNatural, FS_CardinalityType
<1>7. /\ IsFiniteSet(unpaid) /\ Graded(KeysOf(ht, unpaid))
  BY <1>3, KeysCounted
<1>8. AverageOf(where, lo, hi) =
        <<SumGrades(in) + IF lo = 0 THEN where.grades ELSE 0,
          Cardinality(in) + IF lo = 0 THEN where.emps ELSE 0>>
  BY <1>1 DEF AverageOf
<1>9. CASE lo = 0
  <2>1. paid \cap unpaid = {} /\ asked = paid \cup unpaid
    BY <1>1, <1>2, <1>9 DEF Asked, Unpaid
  <2>2. Cardinality(asked) = Cardinality(paid) + Cardinality(unpaid)
    BY <1>6, <1>7, <2>1, DisjointCardinality
  <2>3. KeysOf(ht, asked) = KeysOf(ht, paid) \cup KeysOf(ht, unpaid)
    BY <2>1 DEF KeysOf
  <2>4. KeysOf(ht, paid) \cap KeysOf(ht, unpaid) = {}
    BY <2>1, KeysDiffer DEF KeysOf
  <2>5. SumGrades(KeysOf(ht, asked)) = SumGrades(KeysOf(ht, paid)) + SumGrades(KeysOf(ht, unpaid))
    BY <1>6, <1>7, <2>3, <2>4, GradesOfUnion
  <2>6. QED
    BY <1>1, <1>4, <1>5, <1>6, <1>8, <1>9, <2>2, <2>5
<1>10. CASE lo # 0
  <2>1. asked = paid
    BY <1>1, <1>2, <1>10 DEF Asked
  <2>2. AverageOf(where, lo, hi) = <<SumGrades(in) + 0, Cardinality(in) + 0>>
    BY <1>8, <1>10, Zenon
  <2>3. SumGrades(in) + 0 = SumGrades(in) /\ Cardinality(in) + 0 = Cardinality(in)
    BY <1>5, <1>6
  <2>4. SumGrades(in) = SumGrades(KeysOf(ht, asked)) /\ Cardinality(in) = Cardinality(asked)
    BY <1>5, <1>6, <2>1
  <2>5. QED
    BY <1>1, <2>2, <2>3, <2>4
<1>11. QED
  BY <1>9, <1>10

(* SumOfBumpGradeBetweenTopWorkersByGroup for as many as there are: nobody  *)
(* earns more than oneself, so the last of a tree has a place in it.        *)
LEMMA TopIs ==
  ASSUME NEW ht, Table(ht), DOMAIN ht \subseteq Employees, NEW tree, tree = Roster(ht)
  PROVE  SumOfTop(tree, Cardinality(tree)) = SumGrades(tree)
<1>1. PICK paid : paid = {e \in DOMAIN ht : ht[e].salary > 0}
  OBVIOUS
<1>2. tree = KeysOf(ht, paid)
  BY <1>1 DEF Roster, KeysOf
<1>3. IsFiniteSet(tree)
  BY <1>1, <1>2, KeysCounted DEF Graded
<1>4. ASSUME NEW k \in tree
      PROVE  k.salary \in Nat /\ k.id \in Nat
  <2>1. PICK e \in DOMAIN ht : k = Key(e, ht[e])
    BY DEF Roster
  <2>2. ht[e].salary \in Nat /\ e \in Nat
    BY DataTypes, ComplexAssumption DEF Table
  <2>3. QED
    BY <2>1, <2>2 DEF Key
<1>5. ASSUME NEW k \in tree
      PROVE  Cardinality({j \in tree : \/ j.salary > k.salary
                                       \/ j.salary = k.salary /\ j.id > k.id}) < Cardinality(tree)
  <2>1. PICK over : over = {j \in tree : \/ j.salary > k.salary
                                         \/ j.salary = k.salary /\ j.id > k.id}
    OBVIOUS
  <2>2. k \notin over
    BY <1>4, <2>1
  <2>3. over \in SUBSET tree /\ over # tree
    BY <2>1, <2>2
  <2>4. /\ IsFiniteSet(over) /\ Cardinality(over) <= Cardinality(tree)
        /\ Cardinality(over) # Cardinality(tree)
    BY <1>3, <2>3, FS_Subset
  <2>5. Cardinality(over) \in Nat /\ Cardinality(tree) \in Nat
    BY <1>3, <2>4, FS_CardinalityType
  <2>6. QED
    BY <2>1, <2>4, <2>5
<1>6. {k \in tree : Cardinality({j \in tree : \/ j.salary > k.salary
                                              \/ j.salary = k.salary /\ j.id > k.id})
                      < Cardinality(tree)} = tree
  BY <1>5
<1>7. QED
  BY <1>6, Zenon DEF SumOfTop

Known == DOMAIN system.all \subseteq Employees

LEMMA KnownKept == Inv /\ Known /\ [ComplexNext]_vars => Known'
<1> SUFFICES ASSUME Inv, Known, [ComplexNext]_vars PROVE Known'
  OBVIOUS
<1>1. CASE ComplexNext
  <2>1. PICK u, all, cells : Before(u, all, cells) /\ Outcome(u, all, cells)
    BY <1>1, EveryCall
  <2>2. DOMAIN all \subseteq Employees
    BY <2>1 DEF Before, Known
  <2>3. CASE Refused(u, all, cells)
    BY <2>2, <2>3 DEF Refused, After, Known
  <2>4. CASE Added(u, all, cells)
    BY <2>2, <2>4 DEF Added, After, Known, With
  <2>5. CASE Removed(u, all, cells)
    BY <2>2, <2>5 DEF Removed, After, Known, Without
  <2>6. CASE Raised(u, all, cells)
    <3>1. PICK e, new : system'.all = Replaced(all, e, new)
      BY <2>6 DEF Raised, After
    <3>2. QED
      BY <2>2, <3>1 DEF Replaced, Known
  <2>7. CASE Promoted(u, all, cells)
    <3>1. PICK e, new : system'.all = Replaced(all, e, new)
      BY <2>7 DEF Promoted, After
    <3>2. QED
      BY <2>2, <3>1 DEF Replaced, Known
  <2>8. CASE Acquired(u, all, cells)
    BY <2>2, <2>8 DEF Acquired, AfterJoin, Known
  <2>9. QED
    BY <2>1, <2>3, <2>4, <2>5, <2>6, <2>7, <2>8 DEF Outcome
<1>2. CASE UNCHANGED vars
  BY <1>2 DEF Known, vars
<1>3. QED
  BY <1>1, <1>2

LEMMA AnswersHold == Inv /\ Known => AnswersAgree
<1> SUFFICES ASSUME Inv, Known, NEW c \in Ids,
                    NEW lo \in 0 .. MaxSalary, NEW hi \in lo .. MaxSalary
             PROVE  LET r     == Root(arr, c)
                        asked == {e \in DOMAIN cell : /\ c \in Group(arr, cell[e])
                                                      /\ lo <= system.all[e].salary
                                                      /\ system.all[e].salary <= hi}
                        keys  == {Key(e, system.all[e]) : e \in asked}
                    IN  /\ AverageOf(comp[r], lo, hi) = <<SumGrades(keys), Cardinality(asked)>>
                        /\ lo = 1 /\ hi = MaxSalary
                             => SumOfTop(comp[r].tree, Cardinality(asked)) = SumGrades(keys)
  BY DEF AnswersAgree
<1>1. PICK r, p, asked, where :
        /\ r = Root(arr, c) /\ p = PartOf(system.all, cell, r) /\ where = comp[r]
        /\ asked = {e \in DOMAIN cell : /\ c \in Group(arr, cell[e])
                                        /\ lo <= system.all[e].salary
                                        /\ system.all[e].salary <= hi}
  OBVIOUS
<1>2. /\ Forest(arr) /\ Table(system.all) /\ cell \in Cells(system.all)
      /\ \A s \in Ids : is_root(arr, s) => comp[s] = CompanyOf(PartOf(system.all, cell, s))
  BY DEF Inv, Booked
<1>3. r \in Ids /\ is_root(arr, r)
  BY <1>1, <1>2, ForestRoots
<1>4. where = CompanyOf(p) /\ Table(p)
  BY <1>1, <1>2, <1>3, PartIsTable
<1>5. /\ DOMAIN p = {e \in DOMAIN cell : cell[e] = r} /\ DOMAIN p \subseteq DOMAIN system.all
      /\ \A e \in DOMAIN p : p[e] = system.all[e]
  BY <1>1, <1>2 DEF PartOf, Cells
<1>6. asked = Asked(p, lo, hi)
  <2>1. \A e \in DOMAIN cell : c \in Group(arr, cell[e]) <=> cell[e] = r
    BY <1>1 DEF Group
  <2>2. QED
    BY <1>1, <1>5, <2>1 DEF Asked
<1>7. {Key(e, system.all[e]) : e \in asked} = KeysOf(p, asked)
  BY <1>5, <1>6 DEF KeysOf, Asked
<1>8. lo \in Nat /\ hi \in Nat
  BY ComplexAssumption
<1>9. AverageOf(where, lo, hi) = <<SumGrades(KeysOf(p, asked)), Cardinality(asked)>>
  BY <1>4, <1>6, <1>8, AverageIs
<1>10. ASSUME lo = 1, hi = MaxSalary
       PROVE  SumOfTop(where.tree, Cardinality(asked)) = SumGrades(KeysOf(p, asked))
  <2>1. PICK tree : tree = Roster(p)
    OBVIOUS
  <2>2. where.tree = tree
    BY <1>4, <2>1, CompanyFields DEF CompanyOf
  <2>3. \A e \in DOMAIN p : p[e].salary \in Nat /\ p[e].salary <= MaxSalary
    BY <1>4, DataTypes DEF Table
  <2>4. asked = {e \in DOMAIN p : p[e].salary > 0}
    BY <1>6, <1>10, <2>3 DEF Asked
  <2>5. KeysOf(p, asked) = tree
    BY <2>1, <2>4 DEF KeysOf, Roster
  <2>6. Cardinality(asked) = Cardinality(tree)
    BY <1>4, <2>4, <2>5, KeysCounted
  <2>7. SumOfTop(tree, Cardinality(tree)) = SumGrades(tree)
    BY <1>4, <1>5, <2>1, TopIs DEF Known
  <2>8. QED
    BY <2>2, <2>5, <2>6, <2>7
<1>11. QED
  BY <1>1, <1>7, <1>9, <1>10

(* library2.cpp: what the queries answer for a company is about everybody in *)
(* the group of companies it is in, whether already paid or only counted.    *)
THEOREM AnswersAreRight == ComplexSpec => []AnswersAgree
<1>1. ComplexInit => Inv /\ Known
  BY FirstBooks DEF Known, ComplexInit
<1>2. Inv /\ Known /\ [ComplexNext]_vars => Inv' /\ Known'
  BY EveryStepKeeps, KnownKept
<1>3. Inv /\ Known => AnswersAgree
  BY AnswersHold
<1>4. QED
  BY <1>1, <1>2, <1>3, PTL DEF ComplexSpec

-----------------------------------------------------------------------------
(* The calls of the complex leave the forest to find_assist and Union.     *)
LEMMA ComplexIsForest == ComplexSpec => Spec
<1>1. ComplexInit => Init
  BY DEF ComplexInit
<1>2. [ComplexNext]_vars => [Next]_arr
  <2> SUFFICES ASSUME [ComplexNext]_vars
               PROVE  [Next]_arr
    OBVIOUS
  <2>1. CASE UNCHANGED vars
    BY <2>1 DEF vars
  <2>2. ASSUME NEW e \in Employees, NEW c \in Ids, NEW grade \in 0 .. MaxGrade,
               AddEmployee(e, c, grade)
        PROVE  [Next]_arr
    <3>1. Find(c)
      BY <2>2, Zenon DEF AddEmployee, Find
    <3>2. QED
      BY <3>1 DEF Next
  <2>3. ASSUME NEW e \in Employees, RemoveEmployee(e)
        PROVE  [Next]_arr
    BY <2>3 DEF RemoveEmployee
  <2>4. ASSUME NEW e \in Employees, NEW raise, EmployeeSalaryIncrease(e, raise)
        PROVE  [Next]_arr
    BY <2>4 DEF EmployeeSalaryIncrease
  <2>5. ASSUME NEW e \in Employees, NEW bump, PromoteEmployee(e, bump)
        PROVE  [Next]_arr
    BY <2>5 DEF PromoteEmployee
  <2>6. ASSUME NEW a \in Ids, NEW t \in Ids, NEW factor \in Factors, AcquireCompany(a, t, factor)
        PROVE  [Next]_arr
    <3>1. Acquire(a, t, factor)
      BY <2>6, Zenon DEF AcquireCompany
    <3>2. QED
      BY <3>1 DEF Next
  <2>7. QED
    BY <2>1, <2>2, <2>3, <2>4, <2>5, <2>6 DEF ComplexNext, EmployeeCalls, Acquisitions
<1>3. QED
  BY <1>1, <1>2, PTL DEF ComplexSpec, Spec

(* The same in the companies complex, whose calls find and join companies  *)
(* between the changes to their employees.                                 *)
THEOREM ComplexPathsStayShort == ComplexSpec => []SizesAreRight
BY ComplexIsForest, PathsStayShort, PTL

-----------------------------------------------------------------------------
(* A company with the employees a, and what the operations of library1.cpp *)
(* make of one.                                                            *)
Firm(v, a) == [value |-> v, idTree |-> a, salaryTree |-> Lib!Roster(a)]

Listed(a) == a = [e \in DOMAIN a |-> a[e]]

LEMMA RosterWith ==
  ASSUME NEW a, NEW e, e \notin DOMAIN a, NEW d
  PROVE  Lib!Roster(Lib!With(a, e, d)) = Lib!Roster(a) \cup {Lib!Key(e, d)}
<1>1. PICK w : w = Lib!With(a, e, d)
  OBVIOUS
<1>2. /\ DOMAIN w = DOMAIN a \cup {e} /\ w[e] = d
      /\ \A f \in DOMAIN a : w[f] = a[f]
  BY <1>1 DEF Lib!With
<1>3. Lib!Roster(w) = {Lib!Key(f, w[f]) : f \in DOMAIN a} \cup {Lib!Key(e, d)}
  BY <1>2 DEF Lib!Roster
<1>4. {Lib!Key(f, w[f]) : f \in DOMAIN a} = Lib!Roster(a)
  BY <1>2 DEF Lib!Roster
<1>5. QED
  BY <1>1, <1>3, <1>4

LEMMA RosterWithout ==
  ASSUME NEW a, NEW e \in DOMAIN a
  PROVE  /\ Lib!Key(e, a[e]) \in Lib!Roster(a)
         /\ Lib!Roster(Lib!Without(a, e)) = Lib!Roster(a) \ {Lib!Key(e, a[e])}
<1>1. PICK w : w = Lib!Without(a, e)
  OBVIOUS
<1>2. DOMAIN w = DOMAIN a \ {e} /\ \A f \in DOMAIN w : w[f] = a[f]
  BY <1>1 DEF Lib!Without
<1>3. \A f \in DOMAIN a : Lib!Key(f, a[f]) = Lib!Key(e, a[e]) => f = e
  BY DEF Lib!Key
<1>4. Lib!Roster(w) = {Lib!Key(f, a[f]) : f \in DOMAIN a \ {e}}
  BY <1>2 DEF Lib!Roster
<1>5. {Lib!Key(f, a[f]) : f \in DOMAIN a \ {e}} = Lib!Roster(a) \ {Lib!Key(e, a[e])}
  BY <1>3 DEF Lib!Roster
<1>6. QED
  BY <1>1, <1>4, <1>5 DEF Lib!Roster

Changed(a, e, d) == [a EXCEPT ![e] = d]

LEMMA RosterChanged ==
  ASSUME NEW a, NEW e \in DOMAIN a, NEW d, NEW w, w = Changed(a, e, d)
  PROVE  Lib!Roster(w) = (Lib!Roster(a) \ {Lib!Key(e, a[e])}) \cup {Lib!Key(e, d)}
<1>1. DOMAIN w = DOMAIN a /\ w[e] = d /\ \A f \in DOMAIN a \ {e} : w[f] = a[f]
  BY DEF Changed
<1>2. \A f \in DOMAIN a : Lib!Key(f, a[f]) = Lib!Key(e, a[e]) => f = e
  BY DEF Lib!Key
<1>3. Lib!Roster(w) = {Lib!Key(f, a[f]) : f \in DOMAIN a \ {e}} \cup {Lib!Key(e, d)}
  BY <1>1 DEF Lib!Roster
<1>4. {Lib!Key(f, a[f]) : f \in DOMAIN a \ {e}} = Lib!Roster(a) \ {Lib!Key(e, a[e])}
  BY <1>2 DEF Lib!Roster
<1>5. QED
  BY <1>3, <1>4

LEMMA FirmFields ==
  ASSUME NEW v, NEW a
  PROVE  Firm(v, a).value = v /\ Firm(v, a).idTree = a /\ Firm(v, a).salaryTree = Lib!Roster(a)
BY DEF Firm

LEMMA FirmValued == \A v, a, w : [Firm(v, a) EXCEPT !.value = w] = Firm(w, a)
BY DEF Firm

WithIds(p, b)  == [p EXCEPT !.idTree = b]
WithTree(p, t) == [p EXCEPT !.salaryTree = t]

FirmWith(p, b, t) == [p EXCEPT !.idTree = b, !.salaryTree = t]

LEMMA FirmIds ==
  ASSUME NEW v, NEW a, NEW b
  PROVE  /\ WithIds(Firm(v, a), b).salaryTree = Lib!Roster(a)
         /\ WithIds(Firm(v, a), b).idTree = b
         /\ WithTree(WithIds(Firm(v, a), b), Lib!Roster(b)) = Firm(v, b)
<1>1. PICK q, r : q = Lib!Roster(a) /\ r = Lib!Roster(b)
  OBVIOUS
<1>2. PICK m : m = WithIds(Firm(v, a), b)
  OBVIOUS
<1>3. m = [value |-> v, idTree |-> b, salaryTree |-> q]
  BY <1>1, <1>2 DEF Firm, WithIds
<1>4. WithTree(m, r) = [value |-> v, idTree |-> b, salaryTree |-> r]
  BY <1>3 DEF WithTree
<1>5. m.salaryTree = q /\ m.idTree = b
  BY <1>3
<1>6. QED
  BY <1>1, <1>2, <1>4, <1>5 DEF Firm

LEMMA FirmTree ==
  ASSUME NEW v, NEW a, NEW b
  PROVE  /\ WithTree(Firm(v, a), Lib!Roster(b)).idTree = a
         /\ WithIds(WithTree(Firm(v, a), Lib!Roster(b)), b) = Firm(v, b)
<1>1. PICK r : r = Lib!Roster(b)
  OBVIOUS
<1>2. PICK m : m = WithTree(Firm(v, a), r)
  OBVIOUS
<1>3. m = [value |-> v, idTree |-> a, salaryTree |-> r]
  BY <1>2 DEF Firm, WithTree
<1>4. WithIds(m, b) = [value |-> v, idTree |-> b, salaryTree |-> r]
  BY <1>3 DEF WithIds
<1>5. m.idTree = a
  BY <1>3
<1>6. QED
  BY <1>1, <1>2, <1>4, <1>5 DEF Firm

LEMMA FirmWithBoth ==
  ASSUME NEW v, NEW a, NEW b
  PROVE  FirmWith(Firm(v, a), b, Lib!Roster(b)) = Firm(v, b)
<1>1. PICK p, r : p = Firm(v, a) /\ r = Lib!Roster(b)
  OBVIOUS
<1>2. PICK m : m = [p EXCEPT !.idTree = b]
  OBVIOUS
<1>3. WithTree(m, r) = Firm(v, b)
  BY <1>1, <1>2, FirmIds DEF WithIds
<1>4. FirmWith(p, b, r) = WithTree(m, r)
  BY <1>2, Zenon DEF FirmWith, WithTree
<1>5. QED
  BY <1>1, <1>3, <1>4

LEMMA FirmEmpty == \A v : Lib!Company(v) = Firm(v, << >>)
BY DEF Lib!Company, Firm, Lib!Roster

MergedIds(a, b) == [e \in DOMAIN a \cup DOMAIN b |-> IF e \in DOMAIN a THEN a[e] ELSE b[e]]

LEMMA FirmsMerged ==
  ASSUME NEW v, NEW a, NEW w, NEW b, DOMAIN a \cap DOMAIN b = {}, NEW x, NEW all,
         all = MergedIds(a, b)
  PROVE  Lib!mergeCompanies(Firm(v, a), Firm(w, b), x) = Firm(x, all)
<1>1. Lib!Roster(all) = Lib!Roster(a) \cup Lib!Roster(b)
  <2>1. DOMAIN all = DOMAIN a \cup DOMAIN b
    BY DEF MergedIds
  <2>2. /\ \A e \in DOMAIN a : all[e] = a[e]
        /\ \A e \in DOMAIN b : all[e] = b[e]
    BY DEF MergedIds
  <2>3. Lib!Roster(all) = {Lib!Key(e, all[e]) : e \in DOMAIN a}
                            \cup {Lib!Key(e, all[e]) : e \in DOMAIN b}
    BY <2>1 DEF Lib!Roster
  <2>4. {Lib!Key(e, all[e]) : e \in DOMAIN a} = Lib!Roster(a)
    BY <2>2 DEF Lib!Roster
  <2>5. {Lib!Key(e, all[e]) : e \in DOMAIN b} = Lib!Roster(b)
    BY <2>2 DEF Lib!Roster
  <2>6. QED
    BY <2>3, <2>4, <2>5
<1>2. QED
  BY <1>1 DEF Lib!mergeCompanies, Firm, MergedIds

-----------------------------------------------------------------------------
(* The four trees and the table of companies, all made of the values, the  *)
(* data of the employees and their cells.                                  *)
Hired(cells) == {cells[e] : e \in DOMAIN cells}

PartIn(ids, cells, c) == [e \in {f \in DOMAIN cells : cells[f] = c} |-> ids[e]]

FirmIn(value, ids, cells, c) == Firm(value[c], PartIn(ids, cells, c))

Firms(value, ids, cells) == [c \in Hired(cells) |-> FirmIn(value, ids, cells, c)]

Holding(value, settled, ids, tree, cells) ==
  [companies |-> value, settled |-> settled, idTree |-> ids, salaryTree |-> tree,
   companyID |-> cells]

HoldingOf(value, ids, cells) ==
  Holding(value, Firms(value, ids, cells), ids, Lib!Roster(ids), cells)

Tables(value, ids, cells) ==
  /\ Listed(value) /\ Listed(ids) /\ Listed(cells)
  /\ DOMAIN cells = DOMAIN ids /\ Hired(cells) \subseteq DOMAIN value

ManagerInv ==
  \E value, ids, cells : Tables(value, ids, cells) /\ manager = HoldingOf(value, ids, cells)

LEMMA HoldingFields ==
  ASSUME NEW v, NEW f, NEW i, NEW t, NEW l
  PROVE  LET s == Holding(v, f, i, t, l) IN
         /\ s.companies = v /\ s.settled = f /\ s.idTree = i /\ s.salaryTree = t
         /\ s.companyID = l
BY DEF Holding

LEMMA HoldingEdits ==
  ASSUME NEW v, NEW f, NEW i, NEW t, NEW l, NEW s, s = Holding(v, f, i, t, l)
  PROVE  /\ \A x : [s EXCEPT !.companies = x] = Holding(x, f, i, t, l)
         /\ \A x : [s EXCEPT !.settled = x] = Holding(v, x, i, t, l)
         /\ \A x : [s EXCEPT !.idTree = x] = Holding(v, f, x, t, l)
         /\ \A x : [s EXCEPT !.salaryTree = x] = Holding(v, f, i, x, l)
         /\ \A x : [s EXCEPT !.companyID = x] = Holding(v, f, i, t, x)
BY DEF Holding

Edited(s, f, i, t, l) ==
  [s EXCEPT !.settled = f, !.idTree = i, !.salaryTree = t, !.companyID = l]

LEMMA HoldingEdited ==
  ASSUME NEW v, NEW f, NEW i, NEW t, NEW l, NEW s, s = Holding(v, f, i, t, l),
         NEW f2, NEW i2, NEW t2, NEW l2
  PROVE  Edited(s, f2, i2, t2, l2) = Holding(v, f2, i2, t2, l2)
<1>1. PICK a : a = [s EXCEPT !.settled = f2]
  OBVIOUS
<1>2. PICK b : b = [a EXCEPT !.idTree = i2]
  OBVIOUS
<1>3. PICK c : c = [b EXCEPT !.salaryTree = t2]
  OBVIOUS
<1>4. a = Holding(v, f2, i, t, l)
  BY <1>1, HoldingEdits
<1>5. b = Holding(v, f2, i2, t, l)
  BY <1>2, <1>4, HoldingEdits
<1>6. c = Holding(v, f2, i2, t2, l)
  BY <1>3, <1>5, HoldingEdits
<1>7. [c EXCEPT !.companyID = l2] = Holding(v, f2, i2, t2, l2)
  BY <1>6, HoldingEdits
<1>8. Edited(s, f2, i2, t2, l2) = [c EXCEPT !.companyID = l2]
  BY <1>1, <1>2, <1>3, Zenon DEF Edited
<1>9. QED
  BY <1>7, <1>8

IdsOf(s, c, b)  == [s EXCEPT !.settled[c].idTree = b]
TreeOf(s, c, b) == [s EXCEPT !.settled[c].salaryTree = b]
ValueOf(s, c, b) == [s EXCEPT !.settled[c].value = b]

AtIds(f, c, b)   == [f EXCEPT ![c] = WithIds(f[c], b)]
AtTree(f, c, b)  == [f EXCEPT ![c] = WithTree(f[c], b)]
AtValue(f, c, b) == [f EXCEPT ![c] = [f[c] EXCEPT !.value = b]]

LEMMA FirmsEdited ==
  ASSUME NEW v, NEW f, NEW i, NEW t, NEW l, NEW c, NEW b, NEW s, s = Holding(v, f, i, t, l)
  PROVE  /\ IdsOf(s, c, b) = Holding(v, AtIds(f, c, b), i, t, l)
         /\ TreeOf(s, c, b) = Holding(v, AtTree(f, c, b), i, t, l)
         /\ ValueOf(s, c, b) = Holding(v, AtValue(f, c, b), i, t, l)
<1>1. s.settled = f
  BY HoldingFields
<1>2. IdsOf(s, c, b) = [s EXCEPT !.settled = AtIds(f, c, b)]
  BY <1>1, Zenon DEF IdsOf, WithIds, AtIds
<1>3. TreeOf(s, c, b) = [s EXCEPT !.settled = AtTree(f, c, b)]
  BY <1>1, Zenon DEF TreeOf, WithTree, AtTree
<1>4. ValueOf(s, c, b) = [s EXCEPT !.settled = AtValue(f, c, b)]
  BY <1>1, Zenon DEF ValueOf, AtValue
<1>5. \A x : [s EXCEPT !.settled = x] = Holding(v, x, i, t, l)
  BY HoldingEdits
<1>6. QED
  BY <1>2, <1>3, <1>4, <1>5, Zenon

LEMMA FirmsAre ==
  ASSUME NEW S, NEW value, NEW ids, NEW cells,
         Listed(S), DOMAIN S = Hired(cells),
         \A c \in DOMAIN S : S[c] = FirmIn(value, ids, cells, c)
  PROVE  S = Firms(value, ids, cells)
BY DEF Firms, Listed

LEMMA HoldingAgrees == ManagerInv => Lib!StructuresAgree
<1> SUFFICES ASSUME NEW value, NEW ids, NEW cells, Tables(value, ids, cells),
                    manager = HoldingOf(value, ids, cells)
             PROVE  Lib!StructuresAgree
  BY DEF ManagerInv
<1>1. /\ manager.companies = value /\ manager.idTree = ids /\ manager.salaryTree = Lib!Roster(ids)
      /\ manager.companyID = cells /\ manager.settled = Firms(value, ids, cells)
  BY HoldingFields DEF HoldingOf
<1>2. \A c : Lib!Staff(c) = {f \in DOMAIN cells : cells[f] = c}
  BY <1>1 DEF Lib!Staff, Tables
<1>3. ASSUME NEW c \in DOMAIN manager.settled
      PROVE  LET firm == manager.settled[c] IN
               /\ firm.value = manager.companies[c]
               /\ firm.idTree = [e \in Lib!Staff(c) |-> manager.idTree[e]]
               /\ firm.salaryTree = Lib!Roster(firm.idTree)
  <2>1. PICK p : p = manager.settled[c]
    OBVIOUS
  <2>2. PICK v, a : v = value[c] /\ a = PartIn(ids, cells, c)
    OBVIOUS
  <2>3. p = Firm(v, a)
    BY <1>1, <1>3, <2>1, <2>2 DEF Firms, FirmIn
  <2>4. p.value = v /\ p.idTree = a /\ p.salaryTree = Lib!Roster(a)
    BY <2>3, FirmFields
  <2>5. a = [e \in Lib!Staff(c) |-> ids[e]]
    BY <1>2, <2>2 DEF PartIn
  <2>6. QED
    BY <1>1, <2>1, <2>2, <2>4, <2>5
<1>4. DOMAIN manager.settled = {manager.companyID[e] : e \in DOMAIN manager.idTree}
  BY <1>1 DEF Firms, Hired, Tables
<1>5. DOMAIN manager.settled \subseteq DOMAIN manager.companies
  BY <1>1 DEF Firms, Tables
<1>6. QED
  BY <1>1, <1>3, <1>4, <1>5 DEF Lib!StructuresAgree, Tables

-----------------------------------------------------------------------------
(* How the parts of the companies follow the tables.                       *)
LEMMA NoPart ==
  ASSUME NEW ids, NEW cells, NEW c, c \notin Hired(cells)
  PROVE  PartIn(ids, cells, c) = << >>
<1>1. {f \in DOMAIN cells : cells[f] = c} = {}
  BY DEF Hired
<1>2. PICK S : S = {f \in DOMAIN cells : cells[f] = c}
  OBVIOUS
<1>3. PartIn(ids, cells, c) = [e \in S |-> ids[e]] /\ S = {}
  BY <1>1, <1>2 DEF PartIn
<1>4. QED
  BY <1>3

LEMMA FirmOrNew ==
  ASSUME NEW value, NEW ids, NEW cells, NEW c, NEW S, S = Firms(value, ids, cells), NEW p,
         p = IF c \in DOMAIN S THEN S[c] ELSE Lib!Company(value[c])
  PROVE  p = FirmIn(value, ids, cells, c)
<1>1. DOMAIN S = Hired(cells)
  BY DEF Firms
<1>2. CASE c \in Hired(cells)
  BY <1>1, <1>2 DEF Firms
<1>3. CASE c \notin Hired(cells)
  BY <1>1, <1>3, NoPart, FirmEmpty DEF FirmIn
<1>4. QED
  BY <1>2, <1>3

LEMMA PartsHired ==
  ASSUME NEW ids, NEW cells, DOMAIN cells = DOMAIN ids, NEW e, e \notin DOMAIN ids,
         NEW c, NEW emp, NEW i, i = Lib!With(ids, e, emp), NEW l, l = Lib!With(cells, e, c)
  PROVE  /\ Hired(l) = Hired(cells) \cup {c}
         /\ PartIn(i, l, c) = Lib!With(PartIn(ids, cells, c), e, emp)
         /\ e \notin DOMAIN PartIn(ids, cells, c)
         /\ \A d : d # c => PartIn(i, l, d) = PartIn(ids, cells, d)
<1>1. /\ DOMAIN i = DOMAIN ids \cup {e} /\ i[e] = emp /\ \A f \in DOMAIN ids : i[f] = ids[f]
      /\ DOMAIN l = DOMAIN ids \cup {e} /\ l[e] = c /\ \A f \in DOMAIN ids : l[f] = cells[f]
  BY DEF Lib!With
<1>2. Hired(l) = Hired(cells) \cup {c}
  BY <1>1 DEF Hired
<1>3. ASSUME NEW d, d # c
      PROVE  PartIn(i, l, d) = PartIn(ids, cells, d)
  <2>1. {f \in DOMAIN l : l[f] = d} = {f \in DOMAIN cells : cells[f] = d}
    BY <1>1, <1>3
  <2>2. \A f \in {g \in DOMAIN cells : cells[g] = d} : i[f] = ids[f]
    BY <1>1
  <2>3. QED
    BY <2>1, <2>2 DEF PartIn
<1>4. PICK A : A = {f \in DOMAIN cells : cells[f] = c}
  OBVIOUS
<1>5. {f \in DOMAIN l : l[f] = c} = A \cup {e} /\ e \notin A
  BY <1>1, <1>4
<1>6. PartIn(ids, cells, c) = [f \in A |-> ids[f]]
  BY <1>4 DEF PartIn
<1>7. PartIn(i, l, c) = [f \in A \cup {e} |-> i[f]]
  BY <1>5 DEF PartIn
<1>8. \A f \in A : i[f] = ids[f]
  BY <1>1, <1>4
<1>9. [f \in A \cup {e} |-> i[f]] = Lib!With([f \in A |-> ids[f]], e, emp)
  BY <1>1, <1>5, <1>8 DEF Lib!With
<1>10. QED
  BY <1>2, <1>3, <1>5, <1>6, <1>7, <1>9

LEMMA PartsLeft ==
  ASSUME NEW ids, NEW cells, DOMAIN cells = DOMAIN ids, NEW e \in DOMAIN ids,
         NEW c, c = cells[e], NEW i, i = Lib!Without(ids, e), NEW l, l = Lib!Without(cells, e)
  PROVE  /\ PartIn(i, l, c) = Lib!Without(PartIn(ids, cells, c), e)
         /\ e \in DOMAIN PartIn(ids, cells, c) /\ PartIn(ids, cells, c)[e] = ids[e]
         /\ \A d : d # c => PartIn(i, l, d) = PartIn(ids, cells, d)
         /\ c \in Hired(cells)
         /\ Hired(l) = IF DOMAIN PartIn(i, l, c) = {} THEN Hired(cells) \ {c} ELSE Hired(cells)
<1>1. /\ DOMAIN i = DOMAIN ids \ {e} /\ \A f \in DOMAIN i : i[f] = ids[f]
      /\ DOMAIN l = DOMAIN ids \ {e} /\ \A f \in DOMAIN l : l[f] = cells[f]
  BY DEF Lib!Without
<1>2. ASSUME NEW d, d # c
      PROVE  PartIn(i, l, d) = PartIn(ids, cells, d)
  <2>1. {f \in DOMAIN l : l[f] = d} = {f \in DOMAIN cells : cells[f] = d}
    BY <1>1, <1>2
  <2>2. \A f \in {g \in DOMAIN l : l[g] = d} : i[f] = ids[f]
    BY <1>1
  <2>3. QED
    BY <2>1, <2>2 DEF PartIn
<1>3. PICK A : A = {f \in DOMAIN cells : cells[f] = c}
  OBVIOUS
<1>4. {f \in DOMAIN l : l[f] = c} = A \ {e} /\ e \in A
  BY <1>1, <1>3
<1>5. PartIn(ids, cells, c) = [f \in A |-> ids[f]]
  BY <1>3 DEF PartIn
<1>6. PartIn(i, l, c) = [f \in A \ {e} |-> i[f]]
  BY <1>4 DEF PartIn
<1>7. \A f \in A \ {e} : i[f] = ids[f]
  BY <1>1, <1>3
<1>8. [f \in A \ {e} |-> i[f]] = Lib!Without([f \in A |-> ids[f]], e)
  BY <1>7 DEF Lib!Without
<1>9. Hired(l) = IF A \ {e} = {} THEN Hired(cells) \ {c} ELSE Hired(cells)
  <2>1. Hired(l) \ {c} = Hired(cells) \ {c}
    BY <1>1 DEF Hired
  <2>2. c \in Hired(l) <=> A \ {e} # {}
    BY <1>1, <1>3 DEF Hired
  <2>3. c \in Hired(cells)
    BY DEF Hired
  <2>4. QED
    BY <2>1, <2>2, <2>3
<1>10. c \in Hired(cells)
  BY DEF Hired
<1>11. DOMAIN [f \in A \ {e} |-> i[f]] = A \ {e} /\ [f \in A |-> ids[f]][e] = ids[e]
       /\ DOMAIN [f \in A |-> ids[f]] = A
  BY <1>4
<1>12. QED
  BY <1>2, <1>4, <1>5, <1>6, <1>8, <1>9, <1>10, <1>11

LEMMA PartsEdited ==
  ASSUME NEW ids, NEW cells, DOMAIN cells = DOMAIN ids, NEW e \in DOMAIN ids,
         NEW c, c = cells[e], NEW emp, NEW i, i = Changed(ids, e, emp)
  PROVE  /\ PartIn(i, cells, c) = Changed(PartIn(ids, cells, c), e, emp)
         /\ e \in DOMAIN PartIn(ids, cells, c) /\ PartIn(ids, cells, c)[e] = ids[e]
         /\ \A d : d # c => PartIn(i, cells, d) = PartIn(ids, cells, d)
         /\ c \in Hired(cells)
<1>1. DOMAIN i = DOMAIN ids /\ i[e] = emp /\ \A f \in DOMAIN ids \ {e} : i[f] = ids[f]
  BY DEF Changed
<1>2. ASSUME NEW d, d # c
      PROVE  PartIn(i, cells, d) = PartIn(ids, cells, d)
  <2>1. \A f \in {g \in DOMAIN cells : cells[g] = d} : i[f] = ids[f]
    BY <1>1, <1>2
  <2>2. QED
    BY <2>1 DEF PartIn
<1>3. PICK A : A = {f \in DOMAIN cells : cells[f] = c} /\ e \in A /\ A \subseteq DOMAIN ids
  OBVIOUS
<1>4. PartIn(ids, cells, c) = [f \in A |-> ids[f]] /\ PartIn(i, cells, c) = [f \in A |-> i[f]]
  BY <1>3 DEF PartIn
<1>5. [f \in A |-> i[f]] = Changed([f \in A |-> ids[f]], e, emp)
  BY <1>1, <1>3 DEF Changed
<1>6. [f \in A |-> ids[f]][e] = ids[e] /\ e \in DOMAIN [f \in A |-> ids[f]]
  BY <1>3
<1>7. c \in Hired(cells)
  BY DEF Hired
<1>8. QED
  BY <1>2, <1>4, <1>5, <1>6, <1>7

-----------------------------------------------------------------------------
(* What each call of library1.cpp does, told by the three tables.          *)
Unlisted(s, e)     == [s EXCEPT !.idTree = Lib!Without(@, e)]
Unsalaried(s, key)     == [s EXCEPT !.salaryTree = @ \ {key}]
LeftIds(s, c, e)   == [s EXCEPT !.settled[c].idTree = Lib!Without(@, e)]
LeftPay(s, c, key) == [s EXCEPT !.settled[c].salaryTree = @ \ {key}]
Emptied(s, c) ==
  IF DOMAIN s.settled[c].idTree = {} THEN [s EXCEPT !.settled = Lib!Without(@, c)] ELSE s
Unplaced(s, e)     == [s EXCEPT !.companyID = Lib!Without(@, e)]

LEMMA RemovalSteps ==
  ASSUME NEW s, NEW e, e \in DOMAIN s.idTree, NEW key, key = Lib!Key(e, s.idTree[e]),
         NEW c, c = s.companyID[e],
         key \in s.salaryTree, e \in DOMAIN s.settled[c].idTree,
         key \in s.settled[c].salaryTree,
         NEW s1, s1 = Unlisted(s, e), NEW s2, s2 = Unsalaried(s1, key),
         NEW s3, s3 = LeftIds(s2, c, e), NEW s4, s4 = LeftPay(s3, c, key),
         NEW s5, s5 = Emptied(s4, c)
  PROVE  Lib!RemoveEmployee(s, e) = Lib!Success(Unplaced(s5, e))
<1> DEFINE KeyS == Lib!Key(e, s.idTree[e])
           C == s.companyID[e]
           S1 == Unlisted(s, e)
           S2 == Unsalaried(S1, KeyS)
           S3 == LeftIds(S2, C, e)
           S4 == LeftPay(S3, C, KeyS)
<1>1. Lib!RemoveEmployee(s, e)
        = IF e \notin DOMAIN s.idTree THEN Lib!Failure(s)
          ELSE IF KeyS \notin s.salaryTree THEN Lib!Failure(S1)
          ELSE IF e \notin DOMAIN s.settled[C].idTree THEN Lib!Failure(S2)
          ELSE IF KeyS \notin s.settled[C].salaryTree THEN Lib!Failure(S3)
          ELSE Lib!Success(Unplaced(Emptied(S4, C), e))
  BY Zenon DEF Lib!RemoveEmployee, Unlisted, Unsalaried, LeftIds, LeftPay, Emptied, Unplaced
<1>2. KeyS = key /\ C = c
  OBVIOUS
<1>3. S1 = s1 /\ S2 = s2 /\ S3 = s3 /\ S4 = s4
  BY <1>2
<1> HIDE DEF S1, S2, S3, S4, KeyS, C
<1>4. QED
  BY <1>1, <1>2, <1>3

LEMMA TablesWith ==
  ASSUME NEW value, NEW ids, NEW cells, Tables(value, ids, cells), NEW e, e \notin DOMAIN ids,
         NEW c \in DOMAIN value, NEW emp
  PROVE  Tables(value, Lib!With(ids, e, emp), Lib!With(cells, e, c))
<1>1. PICK i, l : i = Lib!With(ids, e, emp) /\ l = Lib!With(cells, e, c)
  OBVIOUS
<1>2. /\ DOMAIN i = DOMAIN ids \cup {e} /\ Listed(i)
      /\ DOMAIN l = DOMAIN ids \cup {e} /\ Listed(l)
  BY <1>1 DEF Lib!With, Listed, Tables
<1>3. DOMAIN cells = DOMAIN ids
  BY DEF Tables
<1>4. Hired(l) = Hired(cells) \cup {c}
  BY <1>1, <1>3, PartsHired
<1>5. QED
  BY <1>1, <1>2, <1>4 DEF Tables

LEMMA TablesWithout ==
  ASSUME NEW value, NEW ids, NEW cells, Tables(value, ids, cells), NEW e \in DOMAIN ids
  PROVE  Tables(value, Lib!Without(ids, e), Lib!Without(cells, e))
<1>1. PICK i, l : i = Lib!Without(ids, e) /\ l = Lib!Without(cells, e)
  OBVIOUS
<1>2. /\ DOMAIN i = DOMAIN ids \ {e} /\ Listed(i)
      /\ DOMAIN l = DOMAIN ids \ {e} /\ Listed(l) /\ \A f \in DOMAIN l : l[f] = cells[f]
  BY <1>1 DEF Lib!Without, Listed, Tables
<1>3. Hired(l) \subseteq Hired(cells)
  BY <1>2 DEF Hired, Tables
<1>4. QED
  BY <1>1, <1>2, <1>3 DEF Tables

LEMMA ManagerAdds ==
  ASSUME NEW value, NEW ids, NEW cells, Tables(value, ids, cells),
         NEW s, s = HoldingOf(value, ids, cells), NEW e, e \notin DOMAIN ids,
         NEW c \in DOMAIN value, NEW emp
  PROVE  Lib!AddEmployee(s, e, c, emp)
           = Lib!Success(HoldingOf(value, Lib!With(ids, e, emp), Lib!With(cells, e, c)))
<1>1. PICK S, T : S = Firms(value, ids, cells) /\ T = Lib!Roster(ids)
  OBVIOUS
<1>2. s = Holding(value, S, ids, T, cells)
  BY <1>1 DEF HoldingOf
<1>3. /\ s.companies = value /\ s.settled = S /\ s.idTree = ids /\ s.salaryTree = T
      /\ s.companyID = cells
  BY <1>2, HoldingFields
<1>4. PICK i, l, t, p : /\ i = Lib!With(ids, e, emp) /\ l = Lib!With(cells, e, c)
                        /\ t = T \cup {Lib!Key(e, emp)}
                        /\ p = IF c \in DOMAIN S THEN S[c] ELSE Lib!Company(value[c])
  OBVIOUS
<1>5. PICK v, a : v = value[c] /\ a = PartIn(ids, cells, c)
  OBVIOUS
<1>6. p = Firm(v, a)
  BY <1>1, <1>4, <1>5, FirmOrNew DEF FirmIn
<1>7. /\ Hired(l) = Hired(cells) \cup {c}
      /\ PartIn(i, l, c) = Lib!With(a, e, emp)
      /\ e \notin DOMAIN a
      /\ \A d : d # c => PartIn(i, l, d) = PartIn(ids, cells, d)
  <2>1. DOMAIN cells = DOMAIN ids
    BY DEF Tables
  <2>2. /\ Hired(l) = Hired(cells) \cup {c}
        /\ PartIn(i, l, c) = Lib!With(PartIn(ids, cells, c), e, emp)
        /\ e \notin DOMAIN PartIn(ids, cells, c)
        /\ \A d : d # c => PartIn(i, l, d) = PartIn(ids, cells, d)
    BY <1>4, <2>1, PartsHired
  <2>3. QED
    BY <1>5, <2>2
<1>8. PICK b : b = Lib!With(a, e, emp)
  OBVIOUS
<1>9. PICK q : q = [p EXCEPT !.idTree = Lib!With(@, e, emp),
                             !.salaryTree = @ \cup {Lib!Key(e, emp)}]
  OBVIOUS
<1>10. q = Firm(v, b)
  <2>1. p.idTree = a /\ p.salaryTree = Lib!Roster(a)
    BY <1>6, FirmFields
  <2>2. PICK t2 : t2 = Lib!Roster(a) \cup {Lib!Key(e, emp)}
    OBVIOUS
  <2>3. q = FirmWith(p, b, t2)
    BY <1>8, <1>9, <2>1, <2>2, Zenon DEF FirmWith
  <2>4. t2 = Lib!Roster(b)
    BY <1>7, <1>8, <2>2, RosterWith
  <2>5. FirmWith(p, b, t2) = Firm(v, b)
    BY <1>6, <2>4, FirmWithBoth
  <2>6. QED
    BY <2>3, <2>5
<1>11. PICK R : R = Lib!With(S, c, q)
  OBVIOUS
<1>12. R = Firms(value, i, l)
  <2>1. /\ Listed(R) /\ DOMAIN R = DOMAIN S \cup {c} /\ R[c] = q
        /\ \A d \in DOMAIN S \ {c} : R[d] = S[d]
    BY <1>11 DEF Lib!With, Listed
  <2>2. DOMAIN S = Hired(cells) /\ \A d \in DOMAIN S : S[d] = FirmIn(value, ids, cells, d)
    BY <1>1 DEF Firms
  <2>3. R[c] = FirmIn(value, i, l, c)
    BY <1>5, <1>7, <1>8, <1>10, <2>1 DEF FirmIn
  <2>4. \A d \in DOMAIN S \ {c} : R[d] = FirmIn(value, i, l, d)
    BY <1>7, <2>1, <2>2 DEF FirmIn
  <2>5. DOMAIN R = Hired(l)
    BY <1>7, <2>1, <2>2
  <2>6. \A d \in DOMAIN R : R[d] = FirmIn(value, i, l, d)
    BY <2>1, <2>3, <2>4
  <2>7. QED
    BY <2>1, <2>5, <2>6, FirmsAre
<1>13. t = Lib!Roster(i)
  BY <1>1, <1>4, RosterWith
<1>14. Lib!AddEmployee(s, e, c, emp) = Lib!Success(Edited(s, R, i, t, l))
  <2>1. e \notin DOMAIN s.idTree /\ c \in DOMAIN s.companies
    BY <1>3
  <2>2. Lib!AddEmployee(s, e, c, emp)
          = LET firm == IF c \in DOMAIN s.settled THEN s.settled[c]
                        ELSE Lib!Company(s.companies[c])
            IN  Lib!Success([s EXCEPT
                  !.settled = Lib!With(@, c, [firm EXCEPT !.idTree = Lib!With(@, e, emp),
                                                      !.salaryTree = @ \cup {Lib!Key(e, emp)}]),
                  !.idTree = Lib!With(@, e, emp),
                  !.salaryTree = @ \cup {Lib!Key(e, emp)},
                  !.companyID = Lib!With(@, e, c)])
    BY <2>1, Zenon DEF Lib!AddEmployee
  <2>3. QED
    BY <1>3, <1>4, <1>9, <1>11, <2>2, Zenon DEF Edited
<1>15. Edited(s, R, i, t, l) = Holding(value, R, i, t, l)
  BY <1>2, HoldingEdited
<1>16. QED
  BY <1>4, <1>12, <1>13, <1>14, <1>15 DEF HoldingOf

LEMMA ManagerRemoves ==
  ASSUME NEW value, NEW ids, NEW cells, Tables(value, ids, cells),
         NEW s, s = HoldingOf(value, ids, cells), NEW e \in DOMAIN ids
  PROVE  Lib!RemoveEmployee(s, e)
           = Lib!Success(HoldingOf(value, Lib!Without(ids, e), Lib!Without(cells, e)))
<1>1. PICK S, T : S = Firms(value, ids, cells) /\ T = Lib!Roster(ids)
  OBVIOUS
<1>2. s = Holding(value, S, ids, T, cells)
  BY <1>1 DEF HoldingOf
<1>3. /\ s.companies = value /\ s.settled = S /\ s.idTree = ids /\ s.salaryTree = T
      /\ s.companyID = cells
  BY <1>2, HoldingFields
<1>4. PICK i, l, c, key : /\ i = Lib!Without(ids, e) /\ l = Lib!Without(cells, e)
                          /\ c = cells[e] /\ key = Lib!Key(e, ids[e])
  OBVIOUS
<1>5. PICK v, a : v = value[c] /\ a = PartIn(ids, cells, c)
  OBVIOUS
<1>6. /\ PartIn(i, l, c) = Lib!Without(a, e)
      /\ e \in DOMAIN a /\ a[e] = ids[e]
      /\ \A d : d # c => PartIn(i, l, d) = PartIn(ids, cells, d)
      /\ c \in Hired(cells)
      /\ Hired(l) = IF DOMAIN PartIn(i, l, c) = {} THEN Hired(cells) \ {c} ELSE Hired(cells)
  <2>1. DOMAIN cells = DOMAIN ids
    BY DEF Tables
  <2>2. /\ PartIn(i, l, c) = Lib!Without(PartIn(ids, cells, c), e)
        /\ e \in DOMAIN PartIn(ids, cells, c) /\ PartIn(ids, cells, c)[e] = ids[e]
        /\ \A d : d # c => PartIn(i, l, d) = PartIn(ids, cells, d)
        /\ c \in Hired(cells)
        /\ Hired(l) = IF DOMAIN PartIn(i, l, c) = {} THEN Hired(cells) \ {c} ELSE Hired(cells)
    BY <1>4, <2>1, PartsLeft
  <2>3. QED
    BY <1>5, <2>2
<1>7. DOMAIN S = Hired(cells) /\ \A d \in DOMAIN S : S[d] = FirmIn(value, ids, cells, d)
  BY <1>1 DEF Firms
<1>8. c \in DOMAIN S /\ S[c] = Firm(v, a) /\ S[c].idTree = a /\ S[c].salaryTree = Lib!Roster(a)
  <2>1. c \in DOMAIN S /\ S[c] = Firm(v, a)
    BY <1>5, <1>6, <1>7 DEF FirmIn
  <2>2. Firm(v, a).idTree = a /\ Firm(v, a).salaryTree = Lib!Roster(a)
    BY FirmFields
  <2>3. QED
    BY <2>1, <2>2
<1>9. PICK t, b : t = T \ {key} /\ b = Lib!Without(a, e)
  OBVIOUS
<1>10. /\ key \in T /\ t = Lib!Roster(i)
       /\ key \in Lib!Roster(a) /\ Lib!Roster(b) = Lib!Roster(a) \ {key}
  <2>1. key \in T /\ t = Lib!Roster(i)
    BY <1>1, <1>4, <1>9, RosterWithout
  <2>2. key \in Lib!Roster(a) /\ Lib!Roster(b) = Lib!Roster(a) \ {key}
    BY <1>4, <1>6, <1>9, RosterWithout
  <2>3. QED
    BY <2>1, <2>2
<1>11. PICK s1 : s1 = Unlisted(s, e)
  OBVIOUS
<1>12. PICK s2 : s2 = Unsalaried(s1, key)
  OBVIOUS
<1>13. PICK s3 : s3 = LeftIds(s2, c, e)
  OBVIOUS
<1>14. PICK s4 : s4 = LeftPay(s3, c, key)
  OBVIOUS
<1>15. PICK s5 : s5 = Emptied(s4, c)
  OBVIOUS
<1>16. Lib!RemoveEmployee(s, e) = Lib!Success(Unplaced(s5, e))
  <2>1. /\ e \in DOMAIN s.idTree /\ key = Lib!Key(e, s.idTree[e]) /\ c = s.companyID[e]
        /\ key \in s.salaryTree /\ e \in DOMAIN s.settled[c].idTree
        /\ key \in s.settled[c].salaryTree
    BY <1>3, <1>4, <1>6, <1>8, <1>10
  <2>2. QED
    BY <1>11, <1>12, <1>13, <1>14, <1>15, <2>1, RemovalSteps
<1>17. s2 = Holding(value, S, i, t, cells)
  <2>1. s1 = [s EXCEPT !.idTree = i]
    BY <1>3, <1>4, <1>11, Zenon DEF Unlisted
  <2>2. s1 = Holding(value, S, i, T, cells)
    BY <1>2, <2>1, HoldingEdits
  <2>3. s1.salaryTree = T
    BY <2>2, HoldingFields
  <2>4. s2 = [s1 EXCEPT !.salaryTree = t]
    BY <1>9, <1>12, <2>3, Zenon DEF Unsalaried
  <2>5. QED
    BY <2>2, <2>4, HoldingEdits
<1>18. PICK S3 : S3 = AtIds(S, c, b)
  OBVIOUS
<1>19. s3 = Holding(value, S3, i, t, cells)
  <2>1. s2.settled = S
    BY <1>17, HoldingFields
  <2>2. s2.settled[c].idTree = a
    BY <1>8, <2>1
  <2>5. s3 = IdsOf(s2, c, Lib!Without(s2.settled[c].idTree, e))
    BY <1>13, Zenon DEF IdsOf, LeftIds
  <2>6. s3 = IdsOf(s2, c, b)
    BY <1>9, <2>2, <2>5
  <2>3. IdsOf(s2, c, b) = Holding(value, AtIds(S, c, b), i, t, cells)
    BY <1>17, FirmsEdited
  <2>4. QED
    BY <1>18, <2>3, <2>6
<1>20. S3[c] = WithIds(Firm(v, a), b) /\ S3[c].salaryTree = Lib!Roster(a)
  <2>1. S3[c] = WithIds(Firm(v, a), b)
    BY <1>8, <1>18 DEF AtIds
  <2>2. WithIds(Firm(v, a), b).salaryTree = Lib!Roster(a)
    BY FirmIds
  <2>3. QED
    BY <2>1, <2>2
<1>21. PICK R, r : R = AtTree(S3, c, r) /\ r = Lib!Roster(b)
  OBVIOUS
<1>22. s4 = Holding(value, R, i, t, cells)
  <2>1. s3.settled = S3
    BY <1>19, HoldingFields
  <2>2. s3.settled[c].salaryTree = Lib!Roster(a)
    BY <1>20, <2>1
  <2>5. s4 = TreeOf(s3, c, s3.settled[c].salaryTree \ {key})
    BY <1>14, Zenon DEF TreeOf, LeftPay
  <2>6. s4 = TreeOf(s3, c, r)
    BY <1>10, <1>21, <2>2, <2>5
  <2>3. TreeOf(s3, c, r) = Holding(value, AtTree(S3, c, r), i, t, cells)
    BY <1>19, FirmsEdited
  <2>4. QED
    BY <1>21, <2>3, <2>6
<1>23. /\ DOMAIN R = DOMAIN S /\ Listed(R) /\ R[c] = Firm(v, b)
       /\ \A d \in DOMAIN S \ {c} : R[d] = S[d]
  <2>1. /\ DOMAIN S3 = DOMAIN S /\ \A d \in DOMAIN S \ {c} : S3[d] = S[d]
    BY <1>18 DEF AtIds
  <2>2. /\ DOMAIN R = DOMAIN S /\ R[c] = WithTree(S3[c], r)
        /\ \A d \in DOMAIN S \ {c} : R[d] = S[d]
    BY <1>8, <1>21, <2>1 DEF AtTree
  <2>3. WithTree(WithIds(Firm(v, a), b), Lib!Roster(b)) = Firm(v, b)
    BY FirmIds
  <2>4. Listed(R)
    BY <1>21 DEF Listed, AtTree
  <2>5. QED
    BY <1>20, <1>21, <2>2, <2>3, <2>4
<1>24. DOMAIN s4.settled[c].idTree = DOMAIN b /\ s4.settled = R
  <2>1. s4.settled = R
    BY <1>22, HoldingFields
  <2>2. Firm(v, b).idTree = b
    BY FirmFields
  <2>3. QED
    BY <1>23, <2>1, <2>2
<1>25. PICK Q : Q = IF DOMAIN b = {} THEN Lib!Without(R, c) ELSE R
  OBVIOUS
<1>26. s5 = Holding(value, Q, i, t, cells)
  <2>1. CASE DOMAIN b = {}
    <3>1. s5 = [s4 EXCEPT !.settled = Q]
      BY <1>15, <1>24, <1>25, <2>1 DEF Emptied
    <3>2. QED
      BY <1>22, <3>1, HoldingEdits
  <2>2. CASE DOMAIN b # {}
    BY <1>15, <1>22, <1>24, <1>25, <2>2 DEF Emptied
  <2>3. QED
    BY <2>1, <2>2
<1>27. Q = Firms(value, i, l)
  <2>1. R[c] = FirmIn(value, i, l, c)
    BY <1>5, <1>6, <1>9, <1>23 DEF FirmIn
  <2>2. \A d \in DOMAIN S \ {c} : R[d] = FirmIn(value, i, l, d)
    BY <1>6, <1>7, <1>23 DEF FirmIn
  <2>3. CASE DOMAIN b = {}
    <3>1. DOMAIN Q = DOMAIN R \ {c} /\ Listed(Q) /\ \A d \in DOMAIN Q : Q[d] = R[d]
      BY <1>25, <2>3 DEF Lib!Without, Listed
    <3>2. DOMAIN Q = Hired(l)
      BY <1>6, <1>7, <1>9, <1>23, <2>3, <3>1
    <3>3. \A d \in DOMAIN Q : Q[d] = FirmIn(value, i, l, d)
      BY <1>23, <2>2, <3>1
    <3>4. QED
      BY <3>1, <3>2, <3>3, FirmsAre
  <2>4. CASE DOMAIN b # {}
    <3>1. Q = R
      BY <1>25, <2>4
    <3>2. DOMAIN R = Hired(l) /\ Listed(R)
      BY <1>6, <1>7, <1>9, <1>23, <2>4
    <3>3. \A d \in DOMAIN R : R[d] = FirmIn(value, i, l, d)
      BY <1>23, <2>1, <2>2
    <3>4. R = Firms(value, i, l)
      BY <3>2, <3>3, FirmsAre
    <3>5. QED
      BY <3>1, <3>4
  <2>5. QED
    BY <2>3, <2>4
<1>28. Unplaced(s5, e) = Holding(value, Q, i, t, l)
  <2>1. s5.companyID = cells
    BY <1>26, HoldingFields
  <2>2. [s5 EXCEPT !.companyID = l] = Holding(value, Q, i, t, l)
    BY <1>26, HoldingEdits
  <2>3. Unplaced(s5, e) = [s5 EXCEPT !.companyID = Lib!Without(s5.companyID, e)]
    BY Zenon DEF Unplaced
  <2>4. Lib!Without(s5.companyID, e) = l
    BY <1>4, <2>1
  <2>5. QED
    BY <2>2, <2>3, <2>4
<1>29. HoldingOf(value, i, l) = Holding(value, Q, i, t, l)
  BY <1>10, <1>27 DEF HoldingOf
<1>30. QED
  BY <1>4, <1>16, <1>28, <1>29

-----------------------------------------------------------------------------
OwnAdvanced(own, raise, new) == Lib!Employee(own.salary + raise, new.grade)
Advanced(emp, raise, bump)  == Lib!Employee(emp.salary + raise, emp.grade + bump)
Regraded(s, e, emp)         == [s EXCEPT !.idTree[e] = emp]
Repaid(s, old, new)         == [s EXCEPT !.salaryTree = (@ \ {old}) \cup {new}]
RepaidIn(s, c, old, new)    == [s EXCEPT !.settled[c].salaryTree = (@ \ {old}) \cup {new}]
RegradedIn(s, c, e, emp)    == [s EXCEPT !.settled[c].idTree[e] = emp]

PromoteStep1(s, e, raise, bump) == Regraded(s, e, Advanced(s.idTree[e], raise, bump))

PromoteStep2(s, e, raise, bump) ==
  Repaid(PromoteStep1(s, e, raise, bump), Lib!Key(e, s.idTree[e]),
         Lib!Key(e, Advanced(s.idTree[e], raise, bump)))

PromoteStep3(s, e, raise, bump) ==
  RepaidIn(PromoteStep2(s, e, raise, bump), s.companyID[e], Lib!Key(e, s.idTree[e]),
           Lib!Key(e, Advanced(s.idTree[e], raise, bump)))

PromoteStep4(s, e, raise, bump) ==
  RegradedIn(PromoteStep3(s, e, raise, bump), s.companyID[e], e,
             OwnAdvanced(PromoteStep3(s, e, raise, bump).settled[s.companyID[e]].idTree[e], raise,
                         Advanced(s.idTree[e], raise, bump)))

LEMMA PromotionSteps ==
  ASSUME NEW s, NEW e, e \in DOMAIN s.idTree, NEW raise, NEW bump,
         Lib!Key(e, s.idTree[e]) \in s.salaryTree,
         Lib!Key(e, s.idTree[e]) \in s.settled[s.companyID[e]].salaryTree
  PROVE  Lib!PromoteEmployee(s, e, raise, bump) = Lib!Success(PromoteStep4(s, e, raise, bump))
<1>1. Lib!PromoteEmployee(s, e, raise, bump)
        = IF e \notin DOMAIN s.idTree THEN Lib!Failure(s)
          ELSE IF Lib!Key(e, s.idTree[e]) \notin s.salaryTree
          THEN Lib!Failure(PromoteStep1(s, e, raise, bump))
          ELSE IF Lib!Key(e, s.idTree[e]) \notin s.settled[s.companyID[e]].salaryTree
          THEN Lib!Failure(PromoteStep2(s, e, raise, bump))
          ELSE Lib!Success(PromoteStep4(s, e, raise, bump))
  BY Zenon DEF Lib!PromoteEmployee, Advanced, OwnAdvanced, Regraded, Repaid, RepaidIn, RegradedIn,
               PromoteStep1, PromoteStep2, PromoteStep3, PromoteStep4
<1>2. QED
  BY <1>1

LEMMA TablesEdited ==
  ASSUME NEW value, NEW ids, NEW cells, Tables(value, ids, cells), NEW e \in DOMAIN ids,
         NEW emp, NEW i, i = Changed(ids, e, emp)
  PROVE  Tables(value, i, cells)
<1>1. DOMAIN i = DOMAIN ids /\ Listed(i)
  BY DEF Listed, Tables, Changed
<1>2. QED
  BY <1>1 DEF Tables

LEMMA ManagerPromotes ==
  ASSUME NEW value, NEW ids, NEW cells, Tables(value, ids, cells),
         NEW s, s = HoldingOf(value, ids, cells), NEW e \in DOMAIN ids,
         NEW raise, NEW bump,
         NEW new, new = Advanced(ids[e], raise, bump),
         NEW i, i = Changed(ids, e, new)
  PROVE  Lib!PromoteEmployee(s, e, raise, bump) = Lib!Success(HoldingOf(value, i, cells))
<1>1. PICK S, T : S = Firms(value, ids, cells) /\ T = Lib!Roster(ids)
  OBVIOUS
<1>2. s = Holding(value, S, ids, T, cells)
  BY <1>1 DEF HoldingOf
<1>3. /\ s.companies = value /\ s.settled = S /\ s.idTree = ids /\ s.salaryTree = T
      /\ s.companyID = cells
  BY <1>2, HoldingFields
<1>4. PICK c, old, k1, k2 : /\ c = cells[e] /\ old = ids[e]
                            /\ k1 = Lib!Key(e, old) /\ k2 = Lib!Key(e, new)
  OBVIOUS
<1>5. PICK v, a : v = value[c] /\ a = PartIn(ids, cells, c)
  OBVIOUS
<1>6. PICK b : b = Changed(a, e, new)
  OBVIOUS
<1>7. /\ PartIn(i, cells, c) = b /\ e \in DOMAIN a /\ a[e] = old
      /\ \A d : d # c => PartIn(i, cells, d) = PartIn(ids, cells, d)
      /\ c \in Hired(cells)
  <2>1. DOMAIN cells = DOMAIN ids
    BY DEF Tables
  <2>2. /\ PartIn(i, cells, c) = Changed(PartIn(ids, cells, c), e, new)
        /\ e \in DOMAIN PartIn(ids, cells, c) /\ PartIn(ids, cells, c)[e] = ids[e]
        /\ \A d : d # c => PartIn(i, cells, d) = PartIn(ids, cells, d)
        /\ c \in Hired(cells)
    BY <1>4, <2>1, PartsEdited
  <2>3. QED
    BY <1>4, <1>5, <1>6, <2>2
<1>8. DOMAIN S = Hired(cells) /\ \A d \in DOMAIN S : S[d] = FirmIn(value, ids, cells, d)
  BY <1>1 DEF Firms
<1>9. c \in DOMAIN S /\ S[c] = Firm(v, a) /\ S[c].idTree = a /\ S[c].salaryTree = Lib!Roster(a)
  <2>1. c \in DOMAIN S /\ S[c] = Firm(v, a)
    BY <1>5, <1>7, <1>8 DEF FirmIn
  <2>2. Firm(v, a).idTree = a /\ Firm(v, a).salaryTree = Lib!Roster(a)
    BY FirmFields
  <2>3. QED
    BY <2>1, <2>2
<1>10. PICK t, r : t = (T \ {k1}) \cup {k2} /\ r = (Lib!Roster(a) \ {k1}) \cup {k2}
  OBVIOUS
<1>11. k1 \in T /\ t = Lib!Roster(i) /\ k1 \in Lib!Roster(a) /\ r = Lib!Roster(b)
  <2>1. k1 \in T /\ k1 \in Lib!Roster(a)
    BY <1>1, <1>4, <1>7, RosterWithout
  <2>2. t = Lib!Roster(i)
    BY <1>1, <1>4, <1>10, RosterChanged
  <2>3. r = Lib!Roster(b)
    BY <1>4, <1>6, <1>7, <1>10, RosterChanged
  <2>4. QED
    BY <2>1, <2>2, <2>3
<1>12. PICK s1 : s1 = Regraded(s, e, new)
  OBVIOUS
<1>13. PICK s2 : s2 = Repaid(s1, k1, k2)
  OBVIOUS
<1>14. PICK s3 : s3 = RepaidIn(s2, c, k1, k2)
  OBVIOUS
<1>15. PICK own, emp : own = s3.settled[c].idTree[e] /\ emp = OwnAdvanced(own, raise, new)
  OBVIOUS
<1>16. Lib!PromoteEmployee(s, e, raise, bump) = Lib!Success(RegradedIn(s3, c, e, emp))
  <2>1. /\ e \in DOMAIN s.idTree /\ old = s.idTree[e] /\ c = s.companyID[e]
        /\ k1 \in s.salaryTree /\ k1 \in s.settled[c].salaryTree
    BY <1>3, <1>4, <1>9, <1>11
  <2>2. new = Advanced(s.idTree[e], raise, bump) /\ k1 = Lib!Key(e, s.idTree[e])
    BY <1>3, <1>4
  <2>3. Lib!PromoteEmployee(s, e, raise, bump) = Lib!Success(PromoteStep4(s, e, raise, bump))
    BY <2>1, <2>2, PromotionSteps
  <2>4. s1 = PromoteStep1(s, e, raise, bump)
    BY <1>12, <2>2 DEF PromoteStep1
  <2>5. s2 = PromoteStep2(s, e, raise, bump)
    BY <1>4, <1>13, <2>2, <2>4 DEF PromoteStep2
  <2>6. s3 = PromoteStep3(s, e, raise, bump)
    BY <1>4, <1>14, <2>1, <2>2, <2>5 DEF PromoteStep3
  <2>7. PromoteStep4(s, e, raise, bump) = RegradedIn(s3, c, e, emp)
    BY <1>15, <2>1, <2>2, <2>6 DEF PromoteStep4
  <2>8. QED
    BY <2>3, <2>7
<1>17. s2 = Holding(value, S, i, t, cells)
  <2>1. s1 = [s EXCEPT !.idTree = Changed(s.idTree, e, new)]
    BY <1>12, Zenon DEF Regraded, Changed
  <2>2. Changed(s.idTree, e, new) = i
    BY <1>3
  <2>3. s1 = [s EXCEPT !.idTree = i]
    BY <2>1, <2>2, Zenon
  <2>4. s1 = Holding(value, S, i, T, cells)
    BY <1>2, <2>3, HoldingEdits
  <2>5. s1.salaryTree = T
    BY <2>4, HoldingFields
  <2>6. s2 = [s1 EXCEPT !.salaryTree = t]
    BY <1>10, <1>13, <2>5, Zenon DEF Repaid
  <2>7. QED
    BY <2>4, <2>6, HoldingEdits
<1>18. PICK S3 : S3 = AtTree(S, c, r)
  OBVIOUS
<1>19. s3 = Holding(value, S3, i, t, cells)
  <2>1. s2.settled = S
    BY <1>17, HoldingFields
  <2>2. s2.settled[c].salaryTree = Lib!Roster(a)
    BY <1>9, <2>1
  <2>3. s3 = TreeOf(s2, c, (s2.settled[c].salaryTree \ {k1}) \cup {k2})
    BY <1>14, Zenon DEF TreeOf, RepaidIn
  <2>4. s3 = TreeOf(s2, c, r)
    BY <1>10, <2>2, <2>3
  <2>5. TreeOf(s2, c, r) = Holding(value, AtTree(S, c, r), i, t, cells)
    BY <1>17, FirmsEdited
  <2>6. QED
    BY <1>18, <2>4, <2>5
<1>20. S3[c] = WithTree(Firm(v, a), r) /\ S3[c].idTree = a
  <2>1. S3[c] = WithTree(Firm(v, a), r)
    BY <1>9, <1>18 DEF AtTree
  <2>2. WithTree(Firm(v, a), r).idTree = a
    BY <1>11, FirmTree
  <2>3. QED
    BY <2>1, <2>2
<1>21. s3.settled = S3
  BY <1>19, HoldingFields
<1>22. own = old /\ emp = new
  <2>1. own = old
    BY <1>7, <1>15, <1>20, <1>21
  <2>2. new.grade = old.grade + bump
    BY <1>4 DEF Advanced, Lib!Employee
  <2>3. emp = Advanced(old, raise, bump)
    BY <1>15, <2>1, <2>2 DEF Advanced, OwnAdvanced
  <2>4. QED
    BY <1>4, <2>1, <2>3
<1>23. PICK R : R = AtIds(S3, c, b)
  OBVIOUS
<1>24. RegradedIn(s3, c, e, emp) = Holding(value, R, i, t, cells)
  <2>1. RegradedIn(s3, c, e, emp) = IdsOf(s3, c, Changed(s3.settled[c].idTree, e, emp))
    BY Zenon DEF RegradedIn, IdsOf, Changed
  <2>2. Changed(s3.settled[c].idTree, e, emp) = b
    BY <1>6, <1>20, <1>21, <1>22
  <2>3. RegradedIn(s3, c, e, emp) = IdsOf(s3, c, b)
    BY <2>1, <2>2
  <2>4. IdsOf(s3, c, b) = Holding(value, AtIds(S3, c, b), i, t, cells)
    BY <1>19, FirmsEdited
  <2>5. QED
    BY <1>23, <2>3, <2>4
<1>25. R = Firms(value, i, cells)
  <2>1. DOMAIN S3 = DOMAIN S /\ \A d \in DOMAIN S \ {c} : S3[d] = S[d]
    BY <1>18 DEF AtTree
  <2>2. /\ DOMAIN R = DOMAIN S /\ R[c] = WithIds(S3[c], b) /\ Listed(R)
        /\ \A d \in DOMAIN S \ {c} : R[d] = S[d]
    BY <1>9, <1>23, <2>1 DEF AtIds, Listed
  <2>3. WithIds(WithTree(Firm(v, a), Lib!Roster(b)), b) = Firm(v, b)
    BY FirmTree
  <2>4. R[c] = FirmIn(value, i, cells, c)
    BY <1>5, <1>7, <1>11, <1>20, <2>2, <2>3 DEF FirmIn
  <2>5. \A d \in DOMAIN S \ {c} : R[d] = FirmIn(value, i, cells, d)
    BY <1>7, <1>8, <2>2 DEF FirmIn
  <2>6. DOMAIN R = Hired(cells) /\ \A d \in DOMAIN R : R[d] = FirmIn(value, i, cells, d)
    BY <1>8, <2>2, <2>4, <2>5
  <2>7. QED
    BY <2>2, <2>6, FirmsAre
<1>26. HoldingOf(value, i, cells) = Holding(value, R, i, t, cells)
  BY <1>11, <1>25 DEF HoldingOf
<1>27. QED
  BY <1>16, <1>24, <1>26

LEMMA BackAgain ==
  ASSUME NEW a, Listed(a), NEW e \in DOMAIN a, NEW d
  PROVE  Lib!With(Lib!Without(a, e), e, d) = Changed(a, e, d)
<1>1. PICK w : w = Lib!Without(a, e)
  OBVIOUS
<1>2. DOMAIN w = DOMAIN a \ {e} /\ \A f \in DOMAIN w : w[f] = a[f]
  BY <1>1 DEF Lib!Without
<1>3. PICK x, y : x = Lib!With(w, e, d) /\ y = Changed(a, e, d)
  OBVIOUS
<1>4. Listed(x) /\ DOMAIN x = DOMAIN a /\ x[e] = d /\ \A f \in DOMAIN a \ {e} : x[f] = a[f]
  BY <1>2, <1>3 DEF Lib!With, Listed
<1>5. Listed(y) /\ DOMAIN y = DOMAIN a /\ y[e] = d /\ \A f \in DOMAIN a \ {e} : y[f] = a[f]
  BY <1>3 DEF Changed, Listed
<1>6. \A f \in DOMAIN a : x[f] = y[f]
  BY <1>4, <1>5
<1>7. x = y
  BY <1>4, <1>5, <1>6 DEF Listed
<1>8. QED
  BY <1>1, <1>3, <1>7

LEMMA NotChanged ==
  ASSUME NEW a, Listed(a), NEW e \in DOMAIN a
  PROVE  Changed(a, e, a[e]) = a
BY DEF Changed, Listed

LEMMA ManagerHires ==
  ASSUME NEW value, NEW ids, NEW cells, Tables(value, ids, cells),
         NEW s, s = HoldingOf(value, ids, cells), NEW e \in DOMAIN ids,
         NEW c \in DOMAIN value, cells[e] # c
  PROVE  /\ Lib!HireEmployee(s, e, c) = Lib!Success(HoldingOf(value, ids, Changed(cells, e, c)))
         /\ Tables(value, ids, Changed(cells, e, c))
<1>1. s.companies = value /\ s.idTree = ids /\ s.companyID = cells
  BY HoldingFields DEF HoldingOf
<1>2. PICK i, l, m : /\ i = Lib!Without(ids, e) /\ l = Lib!Without(cells, e)
                     /\ m = HoldingOf(value, i, l)
  OBVIOUS
<1>3. Lib!RemoveEmployee(s, e) = Lib!Success(m)
  BY <1>2, ManagerRemoves
<1>4. Lib!Success(m).system = m /\ Lib!Success(m).result = "SUCCESS"
  BY DEF Lib!Success
<1>5. Lib!HireEmployee(s, e, c) = Lib!AddEmployee(m, e, c, ids[e])
  <2>1. e \in DOMAIN s.idTree /\ c \in DOMAIN s.companies /\ s.companyID[e] # c
    BY <1>1
  <2>2. Lib!HireEmployee(s, e, c)
          = IF Lib!RemoveEmployee(s, e).result # "SUCCESS" THEN Lib!RemoveEmployee(s, e)
            ELSE Lib!AddEmployee(Lib!RemoveEmployee(s, e).system, e, c, s.idTree[e])
    BY <2>1, Zenon DEF Lib!HireEmployee
  <2>3. QED
    BY <1>1, <1>3, <1>4, <2>2
<1>6. Tables(value, i, l)
  BY <1>2, TablesWithout
<1>7. e \notin DOMAIN i
  BY <1>2 DEF Lib!Without
<1>8. PICK i2, l2 : i2 = Lib!With(i, e, ids[e]) /\ l2 = Lib!With(l, e, c)
  OBVIOUS
<1>9. Lib!AddEmployee(m, e, c, ids[e]) = Lib!Success(HoldingOf(value, i2, l2))
  BY <1>2, <1>6, <1>7, <1>8, ManagerAdds
<1>10. Tables(value, i2, l2)
  BY <1>6, <1>7, <1>8, TablesWith
<1>11. i2 = ids
  <2>1. Listed(ids)
    BY DEF Tables
  <2>2. i2 = Changed(ids, e, ids[e])
    BY <1>2, <1>8, <2>1, BackAgain
  <2>3. QED
    BY <2>1, <2>2, NotChanged
<1>12. l2 = Changed(cells, e, c)
  <2>1. Listed(cells) /\ e \in DOMAIN cells
    BY DEF Tables
  <2>2. QED
    BY <1>2, <1>8, <2>1, BackAgain
<1>13. QED
  BY <1>5, <1>9, <1>10, <1>11, <1>12

-----------------------------------------------------------------------------
LEMMA FirmsKept ==
  ASSUME NEW value, NEW ids, NEW cells, NEW w, \A c \in Hired(cells) : w[c] = value[c]
  PROVE  Firms(w, ids, cells) = Firms(value, ids, cells)
BY DEF Firms, FirmIn

LEMMA ManagerAddsCompany ==
  ASSUME NEW value, NEW ids, NEW cells, Tables(value, ids, cells),
         NEW s, s = HoldingOf(value, ids, cells), NEW c, c \notin DOMAIN value, NEW v
  PROVE  /\ Lib!AddCompany(s, c, v) = Lib!Success(HoldingOf(Lib!With(value, c, v), ids, cells))
         /\ Tables(Lib!With(value, c, v), ids, cells)
<1>1. PICK S, T, w : /\ S = Firms(value, ids, cells) /\ T = Lib!Roster(ids)
                     /\ w = Lib!With(value, c, v)
  OBVIOUS
<1>2. s = Holding(value, S, ids, T, cells)
  BY <1>1 DEF HoldingOf
<1>3. s.companies = value
  BY <1>2, HoldingFields
<1>4. DOMAIN w = DOMAIN value \cup {c} /\ Listed(w) /\ \A d \in DOMAIN value : w[d] = value[d]
  BY <1>1 DEF Lib!With, Listed
<1>5. Lib!AddCompany(s, c, v) = Lib!Success([s EXCEPT !.companies = w])
  <2>1. Lib!AddCompany(s, c, v) = Lib!Success([s EXCEPT !.companies = Lib!With(s.companies, c, v)])
    BY <1>3, Zenon DEF Lib!AddCompany
  <2>2. Lib!With(s.companies, c, v) = w
    BY <1>1, <1>3
  <2>3. QED
    BY <2>1, <2>2, Zenon
<1>6. [s EXCEPT !.companies = w] = Holding(w, S, ids, T, cells)
  BY <1>2, HoldingEdits
<1>7. Tables(w, ids, cells)
  BY <1>4 DEF Tables
<1>8. S = Firms(w, ids, cells)
  <2>1. \A d \in Hired(cells) : w[d] = value[d]
    BY <1>4 DEF Tables
  <2>2. QED
    BY <1>1, <2>1, FirmsKept
<1>9. QED
  BY <1>1, <1>5, <1>6, <1>7, <1>8 DEF HoldingOf

LEMMA ManagerRemovesCompany ==
  ASSUME NEW value, NEW ids, NEW cells, Tables(value, ids, cells),
         NEW s, s = HoldingOf(value, ids, cells), NEW c \in DOMAIN value, c \notin Hired(cells)
  PROVE  /\ Lib!RemoveCompany(s, c) = Lib!Success(HoldingOf(Lib!Without(value, c), ids, cells))
         /\ Tables(Lib!Without(value, c), ids, cells)
<1>1. PICK S, T, w : /\ S = Firms(value, ids, cells) /\ T = Lib!Roster(ids)
                     /\ w = Lib!Without(value, c)
  OBVIOUS
<1>2. s = Holding(value, S, ids, T, cells)
  BY <1>1 DEF HoldingOf
<1>3. s.companies = value /\ s.settled = S /\ DOMAIN S = Hired(cells)
  BY <1>1, <1>2, HoldingFields DEF Firms
<1>4. DOMAIN w = DOMAIN value \ {c} /\ Listed(w) /\ \A d \in DOMAIN w : w[d] = value[d]
  BY <1>1 DEF Lib!Without, Listed
<1>5. Lib!RemoveCompany(s, c) = Lib!Success([s EXCEPT !.companies = w])
  <2>1. c \in DOMAIN s.companies /\ c \notin DOMAIN s.settled
    BY <1>3
  <2>2. Lib!RemoveCompany(s, c) = Lib!Success([s EXCEPT !.companies = Lib!Without(s.companies, c)])
    BY <2>1, Zenon DEF Lib!RemoveCompany
  <2>3. Lib!Without(s.companies, c) = w
    BY <1>1, <1>3
  <2>4. QED
    BY <2>2, <2>3, Zenon
<1>6. [s EXCEPT !.companies = w] = Holding(w, S, ids, T, cells)
  BY <1>2, HoldingEdits
<1>7. Tables(w, ids, cells)
  BY <1>4 DEF Tables
<1>8. S = Firms(w, ids, cells)
  <2>1. \A d \in Hired(cells) : w[d] = value[d]
    BY <1>4 DEF Tables
  <2>2. QED
    BY <1>1, <2>1, FirmsKept
<1>9. QED
  BY <1>1, <1>5, <1>6, <1>7, <1>8 DEF HoldingOf

Revalued(s, c, v)   == [s EXCEPT !.companies[c] = v]
RevaluedIn(s, c, v) == [s EXCEPT !.settled[c].value = v]

LEMMA IncreaseSteps ==
  ASSUME NEW s, NEW c, c \in DOMAIN s.companies, NEW v, NEW new, new = s.companies[c] + v
  PROVE  Lib!IncreaseCompanyValue(s, c, v)
           = Lib!Success(IF c \in DOMAIN s.settled THEN RevaluedIn(Revalued(s, c, new), c, new)
                     ELSE Revalued(s, c, new))
<1> DEFINE N == s.companies[c] + v
<1>1. Lib!IncreaseCompanyValue(s, c, v)
        = IF c \notin DOMAIN s.companies THEN Lib!Failure(s)
          ELSE Lib!Success(IF c \in DOMAIN s.settled THEN RevaluedIn(Revalued(s, c, N), c, N)
                       ELSE Revalued(s, c, N))
  BY Zenon DEF Lib!IncreaseCompanyValue, Revalued, RevaluedIn
<1>2. N = new
  OBVIOUS
<1> HIDE DEF N
<1>3. QED
  BY <1>1, <1>2

(* Both copies of a company's value are rewritten: the one in companies    *)
(* and, while the company has employees, the one in settledCompanies.      *)
LEMMA FirmsRevalued ==
  ASSUME NEW value, NEW ids, NEW cells, NEW c \in DOMAIN value, NEW v,
         NEW w, w = Changed(value, c, v), NEW S, S = Firms(value, ids, cells)
  PROVE  /\ c \in DOMAIN S => AtValue(S, c, v) = Firms(w, ids, cells)
         /\ c \notin DOMAIN S => S = Firms(w, ids, cells)
<1>1. DOMAIN S = Hired(cells) /\ \A d \in DOMAIN S : S[d] = FirmIn(value, ids, cells, d)
  BY DEF Firms
<1>2. w[c] = v /\ \A d : d # c /\ d \in DOMAIN value => w[d] = value[d]
  BY DEF Changed
<1>3. \A d : d # c => w[d] = value[d]
  BY DEF Changed
<1>4. ASSUME c \in DOMAIN S
      PROVE  AtValue(S, c, v) = Firms(w, ids, cells)
  <2>1. PICK R, a : R = AtValue(S, c, v) /\ a = PartIn(ids, cells, c)
    OBVIOUS
  <2>2. S[c] = Firm(value[c], a)
    BY <1>1, <1>4, <2>1 DEF FirmIn
  <2>3. /\ DOMAIN R = DOMAIN S /\ Listed(R)
        /\ \A d \in DOMAIN S \ {c} : R[d] = S[d]
        /\ R[c] = [S[c] EXCEPT !.value = v]
    BY <1>4, <2>1 DEF AtValue, Listed
  <2>4. R[c] = Firm(v, a)
    BY <2>2, <2>3, FirmValued
  <2>5. R[c] = FirmIn(w, ids, cells, c)
    BY <1>2, <2>1, <2>4 DEF FirmIn
  <2>6. \A d \in DOMAIN S \ {c} : R[d] = FirmIn(w, ids, cells, d)
    BY <1>1, <1>3, <2>3 DEF FirmIn
  <2>7. DOMAIN R = Hired(cells) /\ \A d \in DOMAIN R : R[d] = FirmIn(w, ids, cells, d)
    BY <1>1, <2>3, <2>5, <2>6
  <2>8. QED
    BY <2>1, <2>3, <2>7, FirmsAre
<1>5. ASSUME c \notin DOMAIN S
      PROVE  S = Firms(w, ids, cells)
  <2>1. \A d \in Hired(cells) : w[d] = value[d]
    BY <1>1, <1>3, <1>5
  <2>2. QED
    BY <2>1, FirmsKept
<1>6. QED
  BY <1>4, <1>5

LEMMA ManagerIncreases ==
  ASSUME NEW value, NEW ids, NEW cells, Tables(value, ids, cells),
         NEW s, s = HoldingOf(value, ids, cells), NEW c \in DOMAIN value, NEW v,
         NEW new, new = value[c] + v, NEW w, w = Changed(value, c, new)
  PROVE  /\ Lib!IncreaseCompanyValue(s, c, v) = Lib!Success(HoldingOf(w, ids, cells))
         /\ Tables(w, ids, cells)
<1>1. PICK S, T : S = Firms(value, ids, cells) /\ T = Lib!Roster(ids)
  OBVIOUS
<1>2. s = Holding(value, S, ids, T, cells)
  BY <1>1 DEF HoldingOf
<1>3. s.companies = value /\ s.settled = S
  BY <1>2, HoldingFields
<1>4. PICK s1 : s1 = Revalued(s, c, new)
  OBVIOUS
<1>5. s1 = Holding(w, S, ids, T, cells)
  <2>1. s1 = [s EXCEPT !.companies = Changed(s.companies, c, new)]
    BY <1>4, Zenon DEF Revalued, Changed
  <2>2. Changed(s.companies, c, new) = w
    BY <1>3
  <2>3. s1 = [s EXCEPT !.companies = w]
    BY <2>1, <2>2, Zenon
  <2>4. QED
    BY <1>2, <2>3, HoldingEdits
<1>6. Tables(w, ids, cells)
  BY DEF Tables, Changed, Listed
<1>7. Lib!IncreaseCompanyValue(s, c, v)
        = Lib!Success(IF c \in DOMAIN S THEN RevaluedIn(s1, c, new) ELSE s1)
  BY <1>3, <1>4, IncreaseSteps
<1>8. CASE c \in DOMAIN S
  <2>1. RevaluedIn(s1, c, new) = ValueOf(s1, c, new)
    BY Zenon DEF RevaluedIn, ValueOf
  <2>2. ValueOf(s1, c, new) = Holding(w, AtValue(S, c, new), ids, T, cells)
    BY <1>5, FirmsEdited
  <2>3. AtValue(S, c, new) = Firms(w, ids, cells)
    BY <1>1, <1>8, FirmsRevalued
  <2>4. RevaluedIn(s1, c, new) = HoldingOf(w, ids, cells)
    BY <1>1, <2>1, <2>2, <2>3 DEF HoldingOf
  <2>5. QED
    BY <1>6, <1>7, <1>8, <2>4
<1>9. CASE c \notin DOMAIN S
  <2>1. S = Firms(w, ids, cells)
    BY <1>1, <1>9, FirmsRevalued
  <2>2. s1 = HoldingOf(w, ids, cells)
    BY <1>1, <1>5, <2>1 DEF HoldingOf
  <2>3. QED
    BY <1>6, <1>7, <1>9, <2>2
<1>10. QED
  BY <1>8, <1>9

-----------------------------------------------------------------------------
(* The acquirer gets the target's employees: their data stay where they    *)
(* are in the id tree, their cells name the acquirer.                      *)
Price(x, y, factor) == ((x + y) * factor) \div 2

MovedTo(cells, t, a) == [e \in DOMAIN cells |-> IF cells[e] = t THEN a ELSE cells[e]]

OwnFirm(s, a, v)       == IF a \in DOMAIN s.settled THEN s.settled[a] ELSE Lib!Company(v)
MergedFirm(s, a, t, v) == Lib!mergeCompanies(OwnFirm(s, a, v), s.settled[t], v)
Valued(s, a, t, v)     == [s EXCEPT !.companies = Lib!Without([@ EXCEPT ![a] = v], t)]
Taken(s, a, t, merged) ==
  [s EXCEPT !.settled = Lib!Without(Lib!With(@, a, merged), t),
            !.companyID = Lib!adjustCompanyID(@, merged.idTree, t, a)]

LEMMA AcquireSteps ==
  ASSUME NEW s, NEW a, NEW t, NEW factor, {a, t} \subseteq DOMAIN s.companies,
         ~ (s.companies[a] < 10 * s.companies[t]),
         NEW v, v = Price(s.companies[a], s.companies[t], factor)
  PROVE  Lib!AcquireCompany(s, a, t, factor)
           = Lib!Success(IF t \in DOMAIN s.settled
                     THEN Taken(Valued(s, a, t, v), a, t, MergedFirm(s, a, t, v))
                     ELSE IF a \in DOMAIN s.settled THEN RevaluedIn(Valued(s, a, t, v), a, v)
                     ELSE Valued(s, a, t, v))
<1> DEFINE V == Price(s.companies[a], s.companies[t], factor)
<1>1. Lib!AcquireCompany(s, a, t, factor)
        = IF ~ {a, t} \subseteq DOMAIN s.companies THEN Lib!Failure(s)
          ELSE IF s.companies[a] < 10 * s.companies[t] THEN Lib!Failure(s)
          ELSE Lib!Success(IF t \in DOMAIN s.settled
                       THEN Taken(Valued(s, a, t, V), a, t, MergedFirm(s, a, t, V))
                       ELSE IF a \in DOMAIN s.settled THEN RevaluedIn(Valued(s, a, t, V), a, V)
                       ELSE Valued(s, a, t, V))
  BY Zenon DEF Lib!AcquireCompany, Price, OwnFirm, MergedFirm, Valued, Taken, RevaluedIn
<1>2. V = v
  OBVIOUS
<1> HIDE DEF V
<1>3. QED
  BY <1>1, <1>2

LEMMA PartsMoved ==
  ASSUME NEW ids, NEW cells, NEW a, NEW t, a # t, NEW l, l = MovedTo(cells, t, a)
  PROVE  /\ DOMAIN l = DOMAIN cells /\ Listed(l)
         /\ t \in Hired(cells) => Hired(l) = (Hired(cells) \ {t}) \cup {a}
         /\ \A d : d # a /\ d # t => PartIn(ids, l, d) = PartIn(ids, cells, d)
         /\ Listed(cells) /\ t \notin Hired(cells) => l = cells
<1>1. /\ DOMAIN l = DOMAIN cells /\ Listed(l)
      /\ \A e \in DOMAIN cells : l[e] = IF cells[e] = t THEN a ELSE cells[e]
  BY DEF MovedTo, Listed
<1>2. ASSUME t \in Hired(cells)
      PROVE  Hired(l) = (Hired(cells) \ {t}) \cup {a}
  <2>1. PICK e \in DOMAIN cells : cells[e] = t
    BY <1>2 DEF Hired
  <2>2. a \in Hired(l) /\ t \notin Hired(l)
    BY <1>1, <2>1 DEF Hired
  <2>3. Hired(l) \ {a} = Hired(cells) \ {a, t}
    BY <1>1 DEF Hired
  <2>4. QED
    BY <2>2, <2>3
<1>3. ASSUME NEW d, d # a, d # t
      PROVE  PartIn(ids, l, d) = PartIn(ids, cells, d)
  <2>1. {e \in DOMAIN l : l[e] = d} = {e \in DOMAIN cells : cells[e] = d}
    BY <1>1, <1>3
  <2>2. QED
    BY <2>1 DEF PartIn
<1>5. ASSUME Listed(cells), t \notin Hired(cells)
      PROVE  l = cells
  <2>1. \A e \in DOMAIN cells : l[e] = cells[e]
    BY <1>1, <1>5 DEF Hired
  <2>2. QED
    BY <1>1, <1>5, <2>1 DEF Listed
<1>6. QED
  BY <1>1, <1>2, <1>3, <1>5

LEMMA TablesAcquired ==
  ASSUME NEW value, NEW ids, NEW cells, Tables(value, ids, cells),
         NEW a \in DOMAIN value, NEW t \in DOMAIN value, a # t, NEW v,
         NEW w, w = Lib!Without(Changed(value, a, v), t), NEW l, l = MovedTo(cells, t, a)
  PROVE  /\ Tables(w, ids, l)
         /\ w[a] = v /\ a \in DOMAIN w /\ \A d : d \in DOMAIN value \ {a, t} => w[d] = value[d]
<1>1. PICK x : x = Changed(value, a, v)
  OBVIOUS
<1>2. DOMAIN x = DOMAIN value /\ x[a] = v /\ \A d : d # a => x[d] = value[d]
  BY <1>1 DEF Changed
<1>3. DOMAIN w = DOMAIN value \ {t} /\ Listed(w) /\ \A d \in DOMAIN w : w[d] = x[d]
  BY <1>1, <1>2 DEF Lib!Without, Listed
<1>4. DOMAIN l = DOMAIN cells /\ Listed(l)
  BY PartsMoved
<1>5. Hired(l) \subseteq (Hired(cells) \ {t}) \cup {a}
  <2>1. \A e \in DOMAIN cells : l[e] = IF cells[e] = t THEN a ELSE cells[e]
    BY DEF MovedTo
  <2>2. QED
    BY <1>4, <2>1 DEF Hired
<1>6. QED
  BY <1>2, <1>3, <1>4, <1>5 DEF Tables

LEMMA ManagerValues ==
  ASSUME NEW v, NEW S, NEW i, NEW T, NEW l, NEW s, s = Holding(v, S, i, T, l),
         NEW a, NEW t, NEW x, NEW w, w = Lib!Without(Changed(v, a, x), t)
  PROVE  Valued(s, a, t, x) = Holding(w, S, i, T, l)
<1>1. s.companies = v
  BY HoldingFields
<1>2. Valued(s, a, t, x) = [s EXCEPT !.companies = Lib!Without(Changed(s.companies, a, x), t)]
  BY Zenon DEF Valued, Changed
<1>3. Lib!Without(Changed(s.companies, a, x), t) = w
  BY <1>1
<1>4. Valued(s, a, t, x) = [s EXCEPT !.companies = w]
  BY <1>2, <1>3, Zenon
<1>5. QED
  BY <1>4, HoldingEdits

LEMMA CellsRewritten ==
  ASSUME NEW cells, NEW all, NEW t, NEW a,
         \A e \in DOMAIN cells : cells[e] = t => e \in DOMAIN all
  PROVE  Lib!adjustCompanyID(cells, all, t, a) = MovedTo(cells, t, a)
BY DEF Lib!adjustCompanyID, MovedTo

LEMMA ManagerMerges ==
  ASSUME NEW value, NEW ids, NEW cells, Tables(value, ids, cells),
         NEW a \in DOMAIN value, NEW t \in Hired(cells), a # t, NEW v,
         NEW S, S = Firms(value, ids, cells),
         NEW w, w = Lib!Without(Changed(value, a, v), t), NEW l, l = MovedTo(cells, t, a),
         NEW own, own = IF a \in DOMAIN S THEN S[a] ELSE Lib!Company(v),
         NEW merged, merged = Lib!mergeCompanies(own, S[t], v)
  PROVE  /\ Lib!Without(Lib!With(S, a, merged), t) = Firms(w, ids, l)
         /\ Lib!adjustCompanyID(cells, merged.idTree, t, a) = l
<1>1. DOMAIN S = Hired(cells) /\ \A d \in DOMAIN S : S[d] = FirmIn(value, ids, cells, d)
  BY DEF Firms
<1>2. PICK A, B : A = {e \in DOMAIN cells : cells[e] = a} /\ B = {e \in DOMAIN cells : cells[e] = t}
  OBVIOUS
<1>3. PICK pa, pb : pa = PartIn(ids, cells, a) /\ pb = PartIn(ids, cells, t)
  OBVIOUS
<1>4. /\ DOMAIN pa = A /\ \A e \in A : pa[e] = ids[e]
      /\ DOMAIN pb = B /\ \A e \in B : pb[e] = ids[e]
  BY <1>2, <1>3 DEF PartIn
<1>5. A \cap B = {}
  BY <1>2
<1>6. PICK all : all = [e \in A \cup B |-> IF e \in A THEN pa[e] ELSE pb[e]]
  OBVIOUS
<1>7. all = [e \in A \cup B |-> ids[e]] /\ DOMAIN all = A \cup B
  BY <1>4, <1>6
<1>8. \E x : own = Firm(x, pa)
  <2>1. CASE a \in DOMAIN S
    BY <1>1, <1>3, <2>1 DEF FirmIn
  <2>2. CASE a \notin DOMAIN S
    <3>1. pa = << >>
      BY <1>1, <1>3, <2>2, NoPart
    <3>2. own = Firm(v, << >>)
      BY <2>2, FirmEmpty
    <3>3. QED
      BY <3>1, <3>2
  <2>3. QED
    BY <2>1, <2>2
<1>9. PICK x : own = Firm(x, pa)
  BY <1>8
<1>10. PICK y : S[t] = Firm(y, pb)
  BY <1>1, <1>3 DEF FirmIn
<1>11. merged = Firm(v, all)
  <2>1. DOMAIN pa \cap DOMAIN pb = {}
    BY <1>4, <1>5
  <2>2. all = MergedIds(pa, pb)
    BY <1>4, <1>6 DEF MergedIds
  <2>3. Lib!mergeCompanies(Firm(x, pa), Firm(y, pb), v) = Firm(v, all)
    BY <2>1, <2>2, FirmsMerged
  <2>4. QED
    BY <1>9, <1>10, <2>3
<1>12. merged.idTree = all
  BY <1>11, FirmFields
<1>13. Lib!adjustCompanyID(cells, all, t, a) = l
  <2>1. \A e \in DOMAIN cells : cells[e] = t => e \in DOMAIN all
    BY <1>2, <1>7
  <2>2. QED
    BY <2>1, CellsRewritten
<1>14. /\ Hired(l) = (Hired(cells) \ {t}) \cup {a}
       /\ \A d : d # a /\ d # t => PartIn(ids, l, d) = PartIn(ids, cells, d)
       /\ {e \in DOMAIN l : l[e] = a} = A \cup B
  <2>1. /\ Hired(l) = (Hired(cells) \ {t}) \cup {a}
        /\ \A d : d # a /\ d # t => PartIn(ids, l, d) = PartIn(ids, cells, d)
    BY PartsMoved
  <2>2. DOMAIN l = DOMAIN cells /\ \A e \in DOMAIN l : l[e] = IF cells[e] = t THEN a ELSE cells[e]
    BY DEF MovedTo
  <2>3. {e \in DOMAIN l : l[e] = a} = A \cup B
    BY <1>2, <2>2
  <2>4. QED
    BY <2>1, <2>3
<1>15. w[a] = v /\ \A d : d \in DOMAIN value \ {a, t} => w[d] = value[d]
  BY <1>1, TablesAcquired DEF Tables
<1>16. PICK Q, R : Q = Lib!With(S, a, merged) /\ R = Lib!Without(Q, t)
  OBVIOUS
<1>17. /\ DOMAIN R = (DOMAIN S \ {t}) \cup {a} /\ Listed(R)
       /\ R[a] = merged /\ \A d \in DOMAIN S \ {a, t} : R[d] = S[d]
  <2>1. DOMAIN Q = DOMAIN S \cup {a} /\ Q[a] = merged /\ \A d \in DOMAIN S \ {a} : Q[d] = S[d]
    BY <1>16 DEF Lib!With
  <2>2. DOMAIN R = DOMAIN Q \ {t} /\ Listed(R) /\ \A d \in DOMAIN R : R[d] = Q[d]
    BY <1>16 DEF Lib!Without, Listed
  <2>3. QED
    BY <2>1, <2>2
<1>18. R[a] = FirmIn(w, ids, l, a)
  <2>1. PartIn(ids, l, a) = all
    BY <1>7, <1>14 DEF PartIn
  <2>2. QED
    BY <1>11, <1>15, <1>17, <2>1 DEF FirmIn
<1>19. \A d \in DOMAIN S \ {a, t} : R[d] = FirmIn(w, ids, l, d)
  <2>1. DOMAIN S \subseteq DOMAIN value
    BY <1>1 DEF Tables
  <2>2. QED
    BY <1>1, <1>14, <1>15, <1>17, <2>1 DEF FirmIn
<1>20. DOMAIN R = Hired(l) /\ \A d \in DOMAIN R : R[d] = FirmIn(w, ids, l, d)
  BY <1>1, <1>14, <1>17, <1>18, <1>19
<1>21. R = Firms(w, ids, l)
  BY <1>17, <1>20, FirmsAre
<1>22. QED
  BY <1>12, <1>13, <1>16, <1>21

LEMMA ManagerAcquires ==
  ASSUME NEW value, NEW ids, NEW cells, Tables(value, ids, cells),
         NEW s, s = HoldingOf(value, ids, cells),
         NEW a \in DOMAIN value, NEW t \in DOMAIN value, a # t, NEW factor,
         ~ (value[a] < 10 * value[t]),
         NEW v, v = Price(value[a], value[t], factor),
         NEW w, w = Lib!Without(Changed(value, a, v), t), NEW l, l = MovedTo(cells, t, a)
  PROVE  Lib!AcquireCompany(s, a, t, factor) = Lib!Success(HoldingOf(w, ids, l))
<1>1. PICK S, T : S = Firms(value, ids, cells) /\ T = Lib!Roster(ids)
  OBVIOUS
<1>2. s = Holding(value, S, ids, T, cells)
  BY <1>1 DEF HoldingOf
<1>3. s.companies = value /\ s.settled = S /\ s.companyID = cells
  BY <1>2, HoldingFields
<1>4. DOMAIN S = Hired(cells) /\ \A d \in DOMAIN S : S[d] = FirmIn(value, ids, cells, d)
  BY <1>1 DEF Firms
<1>5. PICK z, merged : z = Valued(s, a, t, v) /\ merged = MergedFirm(s, a, t, v)
  OBVIOUS
<1>6. z = Holding(w, S, ids, T, cells)
  BY <1>2, <1>5, ManagerValues
<1>7. Lib!AcquireCompany(s, a, t, factor)
        = Lib!Success(IF t \in DOMAIN S THEN Taken(z, a, t, merged)
                  ELSE IF a \in DOMAIN S THEN RevaluedIn(z, a, v) ELSE z)
  <2>1. {a, t} \subseteq DOMAIN s.companies
    BY <1>3
  <2>2. ~ (s.companies[a] < 10 * s.companies[t])
    BY <1>3
  <2>3. v = Price(s.companies[a], s.companies[t], factor)
    BY <1>3
  <2>4. Lib!AcquireCompany(s, a, t, factor)
           = Lib!Success(IF t \in DOMAIN s.settled
                     THEN Taken(Valued(s, a, t, v), a, t, MergedFirm(s, a, t, v))
                     ELSE IF a \in DOMAIN s.settled THEN RevaluedIn(Valued(s, a, t, v), a, v)
                     ELSE Valued(s, a, t, v))
    BY <2>1, <2>2, <2>3, AcquireSteps
  <2>5. QED
    BY <1>3, <1>5, <2>4
<1>8. CASE t \in DOMAIN S
  <2>1. merged = Lib!mergeCompanies(IF a \in DOMAIN S THEN S[a] ELSE Lib!Company(v), S[t], v)
    BY <1>3, <1>5 DEF MergedFirm, OwnFirm
  <2>2. PICK own : own = IF a \in DOMAIN S THEN S[a] ELSE Lib!Company(v)
    OBVIOUS
  <2>3. merged = Lib!mergeCompanies(own, S[t], v)
    BY <2>1, <2>2
  <2>4. t \in Hired(cells)
    BY <1>4, <1>8
  <2>5. /\ Lib!Without(Lib!With(S, a, merged), t) = Firms(w, ids, l)
        /\ Lib!adjustCompanyID(cells, merged.idTree, t, a) = l
    BY <1>1, <2>2, <2>3, <2>4, ManagerMerges
  <2>6. z.settled = S /\ z.companyID = cells
    BY <1>6, HoldingFields
  <2>7. PICK y : y = [z EXCEPT !.settled = Lib!Without(Lib!With(z.settled, a, merged), t)]
    OBVIOUS
  <2>8. Taken(z, a, t, merged)
          = [y EXCEPT !.companyID = Lib!adjustCompanyID(z.companyID, merged.idTree, t, a)]
    BY <2>7, Zenon DEF Taken
  <2>9. y = [z EXCEPT !.settled = Firms(w, ids, l)]
    BY <2>5, <2>6, <2>7
  <2>10. y = Holding(w, Firms(w, ids, l), ids, T, cells)
    BY <1>6, <2>9, HoldingEdits
  <2>11. Taken(z, a, t, merged) = [y EXCEPT !.companyID = l]
    BY <2>5, <2>6, <2>8
  <2>12. [y EXCEPT !.companyID = l] = Holding(w, Firms(w, ids, l), ids, T, l)
    BY <2>10, HoldingEdits
  <2>13. Taken(z, a, t, merged) = HoldingOf(w, ids, l)
    BY <1>1, <2>11, <2>12 DEF HoldingOf
  <2>14. QED
    BY <1>7, <1>8, <2>13
<1>9. CASE t \notin DOMAIN S
  <2>1. l = cells
    <3>1. Listed(cells) /\ t \notin Hired(cells)
      BY <1>4, <1>9 DEF Tables
    <3>2. QED
      BY <3>1, PartsMoved
  <2>2. PICK x : x = Changed(value, a, v)
    OBVIOUS
  <2>3. /\ a \in DOMAIN S => AtValue(S, a, v) = Firms(x, ids, cells)
        /\ a \notin DOMAIN S => S = Firms(x, ids, cells)
    BY <1>1, <2>2, FirmsRevalued
  <2>4. Firms(w, ids, cells) = Firms(x, ids, cells)
    <3>1. \A d \in Hired(cells) : w[d] = x[d]
      <4>1. DOMAIN x = DOMAIN value
        BY <2>2 DEF Changed
      <4>2. DOMAIN w = DOMAIN x \ {t} /\ \A d \in DOMAIN w : w[d] = x[d]
        BY <2>2 DEF Lib!Without
      <4>3. Hired(cells) \subseteq DOMAIN w
        BY <1>4, <1>9, <4>1, <4>2 DEF Tables
      <4>4. QED
        BY <4>2, <4>3
    <3>2. QED
      BY <3>1, FirmsKept
  <2>5. CASE a \in DOMAIN S
    <3>1. RevaluedIn(z, a, v) = ValueOf(z, a, v)
      BY Zenon DEF RevaluedIn, ValueOf
    <3>2. ValueOf(z, a, v) = Holding(w, AtValue(S, a, v), ids, T, cells)
      BY <1>6, FirmsEdited
    <3>3. RevaluedIn(z, a, v) = HoldingOf(w, ids, l)
      BY <1>1, <2>1, <2>3, <2>4, <2>5, <3>1, <3>2 DEF HoldingOf
    <3>4. QED
      BY <1>7, <1>9, <2>5, <3>3
  <2>6. CASE a \notin DOMAIN S
    <3>1. z = HoldingOf(w, ids, l)
      BY <1>1, <1>6, <2>1, <2>3, <2>4, <2>6 DEF HoldingOf
    <3>2. QED
      BY <1>7, <1>9, <2>6, <3>1
  <2>7. QED
    BY <2>5, <2>6
<1>10. QED
  BY <1>8, <1>9

-----------------------------------------------------------------------------
(* Every call keeps the tables, and changes what the registry promises or  *)
(* nothing at all.                                                         *)
Entries(ids, cells) ==
  [e \in DOMAIN ids |->
     [company |-> cells[e], salary |-> ids[e].salary, grade |-> ids[e].grade]]

Books ==
  [e \in DOMAIN manager.idTree |->
     [company |-> manager.companyID[e],
      salary |-> manager.idTree[e].salary, grade |-> manager.idTree[e].grade]]

WorthsSound(value) == \A c \in DOMAIN value : value[c] \in Nat

SalariesPaid(ids) ==
  \E B \in Nat : \A e \in DOMAIN ids :
    e \in Nat /\ ids[e].salary \in Nat /\ ids[e].salary <= B

Kept(value, ids, cells) ==
  /\ Tables(value, ids, cells) /\ manager = HoldingOf(value, ids, cells)
  /\ WorthsSound(value) /\ SalariesPaid(ids)

ManagerSound == \E value, ids, cells : Kept(value, ids, cells)

LEMMA PaidWith ==
  ASSUME NEW ids, SalariesPaid(ids), NEW e \in Nat, NEW emp, emp.salary \in Nat
  PROVE  SalariesPaid(Lib!With(ids, e, emp))
<1>1. PICK B \in Nat : \A f \in DOMAIN ids :
        f \in Nat /\ ids[f].salary \in Nat /\ ids[f].salary <= B
  BY DEF SalariesPaid
<1>2. PICK i : i = Lib!With(ids, e, emp)
  OBVIOUS
<1>3. /\ DOMAIN i = DOMAIN ids \cup {e} /\ i[e] = emp
      /\ \A f \in DOMAIN ids \ {e} : i[f] = ids[f]
  BY <1>2 DEF Lib!With
<1>4. PICK p : p = emp.salary
  OBVIOUS
<1>5. B + p \in Nat /\ p <= B + p /\ \A q \in Nat : q <= B => q <= B + p
  BY <1>4
<1>6. \A f \in DOMAIN i : f \in Nat /\ i[f].salary \in Nat /\ i[f].salary <= B + p
  <2>1. SUFFICES ASSUME NEW f \in DOMAIN i
                 PROVE  f \in Nat /\ i[f].salary \in Nat /\ i[f].salary <= B + p
    OBVIOUS
  <2>2. CASE f = e
    BY <1>3, <1>4, <1>5, <2>2
  <2>3. CASE f # e
    BY <1>1, <1>3, <1>5, <2>3
  <2>4. QED
    BY <2>2, <2>3
<1>7. QED
  BY <1>2, <1>5, <1>6 DEF SalariesPaid

LEMMA PaidWithout ==
  ASSUME NEW ids, SalariesPaid(ids), NEW e
  PROVE  SalariesPaid(Lib!Without(ids, e))
<1>1. PICK i : i = Lib!Without(ids, e)
  OBVIOUS
<1>2. DOMAIN i \subseteq DOMAIN ids /\ \A f \in DOMAIN i : i[f] = ids[f]
  BY <1>1 DEF Lib!Without
<1>3. SalariesPaid(i)
  BY <1>2 DEF SalariesPaid
<1>4. QED
  BY <1>1, <1>3

LEMMA PaidEdited ==
  ASSUME NEW ids, SalariesPaid(ids), NEW e \in DOMAIN ids, NEW raise \in Nat, NEW bump,
         NEW new, new = Advanced(ids[e], raise, bump)
  PROVE  SalariesPaid(Changed(ids, e, new))
<1>1. PICK B \in Nat : \A f \in DOMAIN ids :
        f \in Nat /\ ids[f].salary \in Nat /\ ids[f].salary <= B
  BY DEF SalariesPaid
<1>2. PICK i : i = Changed(ids, e, new)
  OBVIOUS
<1>3. DOMAIN i = DOMAIN ids /\ i[e] = new /\ \A f \in DOMAIN ids \ {e} : i[f] = ids[f]
  BY <1>2 DEF Changed
<1>4. new.salary = ids[e].salary + raise
  BY DEF Advanced, Lib!Employee
<1>5. PICK p : p = ids[e].salary
  OBVIOUS
<1>6. p \in Nat /\ p <= B
  BY <1>1, <1>5
<1>7. /\ B + raise \in Nat /\ p + raise \in Nat /\ p + raise <= B + raise
      /\ \A q \in Nat : q <= B => q <= B + raise
  BY <1>6
<1>8. \A f \in DOMAIN i : f \in Nat /\ i[f].salary \in Nat /\ i[f].salary <= B + raise
  <2>1. SUFFICES ASSUME NEW f \in DOMAIN i
                 PROVE  f \in Nat /\ i[f].salary \in Nat /\ i[f].salary <= B + raise
    OBVIOUS
  <2>2. CASE f = e
    BY <1>1, <1>3, <1>4, <1>5, <1>7, <2>2
  <2>3. CASE f # e
    BY <1>1, <1>3, <1>7, <2>3
  <2>4. QED
    BY <2>2, <2>3
<1>9. QED
  BY <1>2, <1>7, <1>8 DEF SalariesPaid

LEMMA BooksListed ==
  ASSUME NEW value, NEW ids, NEW cells, manager = HoldingOf(value, ids, cells)
  PROVE  manager.companies = value /\ Books = Entries(ids, cells)
<1>1. manager.companies = value /\ manager.idTree = ids /\ manager.companyID = cells
  BY HoldingFields DEF HoldingOf
<1>2. QED
  BY <1>1 DEF Books, Entries

LEMMA Answered ==
  ASSUME NEW value, NEW ids, NEW cells, NEW outcome, Lib!Return(outcome),
         outcome = Lib!Success(HoldingOf(value, ids, cells)), Tables(value, ids, cells),
         WorthsSound(value), SalariesPaid(ids)
  PROVE  /\ ManagerSound' /\ managerResult' = "SUCCESS"
         /\ manager'.companies = value /\ Books' = Entries(ids, cells)
<1>1. outcome.system = HoldingOf(value, ids, cells) /\ outcome.result = "SUCCESS"
  BY DEF Lib!Success
<1>2. manager' = HoldingOf(value, ids, cells) /\ managerResult' = "SUCCESS"
  BY <1>1 DEF Lib!Return
<1>3. manager'.companies = value /\ manager'.idTree = ids /\ manager'.companyID = cells
  BY <1>2, HoldingFields DEF HoldingOf
<1>4. Books' = Entries(ids, cells)
  BY <1>3 DEF Books, Entries
<1>5. ManagerSound'
  BY <1>2 DEF ManagerSound, Kept
<1>6. QED
  BY <1>2, <1>3, <1>4, <1>5

LEMMA NotAnswered ==
  ASSUME ManagerSound, Lib!Return(Lib!Failure(manager))
  PROVE  ManagerSound' /\ Lib!Registry!Refused
<1>1. manager' = manager /\ managerResult' = "FAILURE"
  BY DEF Lib!Return, Lib!Failure
<1>2. ManagerSound'
  BY <1>1 DEF ManagerSound, Kept
<1>3. QED
  BY <1>1, <1>2 DEF Lib!Registry!Refused

LEMMA AddCompanyKeeps ==
  ASSUME NEW value, NEW ids, NEW cells, Kept(value, ids, cells), NEW c, NEW v \in Nat,
         Lib!Return(Lib!AddCompany(manager, c, v))
  PROVE  ManagerSound' /\ (Lib!Registry!AddCompany(c, v) \/ Lib!Registry!Refused)
<1>1. manager.companies = value /\ Books = Entries(ids, cells)
  BY BooksListed DEF Kept
<1>2. CASE c \in DOMAIN value
  <2>1. Lib!AddCompany(manager, c, v) = Lib!Failure(manager)
    BY <1>1, <1>2 DEF Lib!AddCompany
  <2>2. QED
    BY <2>1, NotAnswered DEF ManagerSound
<1>3. CASE c \notin DOMAIN value
  <2>1. PICK w : w = Lib!With(value, c, v)
    OBVIOUS
  <2>2. /\ Lib!AddCompany(manager, c, v) = Lib!Success(HoldingOf(w, ids, cells))
        /\ Tables(w, ids, cells)
    BY <1>3, <2>1, ManagerAddsCompany DEF Kept
  <2>3. WorthsSound(w) /\ SalariesPaid(ids)
    BY <2>1 DEF Kept, WorthsSound, Lib!With
  <2>4. /\ ManagerSound' /\ managerResult' = "SUCCESS"
        /\ manager'.companies = w /\ Books' = Entries(ids, cells)
    BY <2>2, <2>3, Answered
  <2>5. Lib!Registry!AddCompany(c, v)
    BY <1>1, <1>3, <2>1, <2>4
       DEF Lib!Registry!AddCompany, Lib!Registry!Done, Lib!Registry!With, Lib!With, Books
  <2>6. QED
    BY <2>4, <2>5
<1>4. QED
  BY <1>2, <1>3

LEMMA RemoveCompanyKeeps ==
  ASSUME NEW value, NEW ids, NEW cells, Kept(value, ids, cells), NEW c,
         Lib!Return(Lib!RemoveCompany(manager, c))
  PROVE  ManagerSound' /\ (Lib!Registry!RemoveCompany(c) \/ Lib!Registry!Refused)
<1>1. manager.companies = value /\ Books = Entries(ids, cells)
  BY BooksListed DEF Kept
<1>2. DOMAIN manager.settled = Hired(cells)
  BY HoldingFields DEF Kept, HoldingOf, Firms
<1>3. CASE c \notin DOMAIN value \/ c \in Hired(cells)
  <2>1. Lib!RemoveCompany(manager, c) = Lib!Failure(manager)
    BY <1>1, <1>2, <1>3 DEF Lib!RemoveCompany
  <2>2. QED
    BY <2>1, NotAnswered DEF ManagerSound
<1>4. CASE c \in DOMAIN value /\ c \notin Hired(cells)
  <2>1. PICK w : w = Lib!Without(value, c)
    OBVIOUS
  <2>2. /\ Lib!RemoveCompany(manager, c) = Lib!Success(HoldingOf(w, ids, cells))
        /\ Tables(w, ids, cells)
    BY <1>4, <2>1, ManagerRemovesCompany DEF Kept
  <2>3. WorthsSound(w) /\ SalariesPaid(ids)
    BY <2>1 DEF Kept, WorthsSound, Lib!Without
  <2>4. /\ ManagerSound' /\ managerResult' = "SUCCESS"
        /\ manager'.companies = w /\ Books' = Entries(ids, cells)
    BY <2>2, <2>3, Answered
  <2>5. ~ \E e \in DOMAIN Books : Books[e].company = c
    <3>1. DOMAIN Books = DOMAIN cells /\ \A e \in DOMAIN Books : Books[e].company = cells[e]
      BY <1>1 DEF Entries, Kept, Tables
    <3>2. QED
      BY <1>4, <3>1 DEF Hired
  <2>6. Lib!Registry!RemoveCompany(c)
    <3>1. ~ Lib!Registry!Staffed(c)
      BY <2>5 DEF Lib!Registry!Staffed, Books
    <3>2. QED
      BY <1>1, <1>4, <2>1, <2>4, <3>1
         DEF Lib!Registry!RemoveCompany, Lib!Registry!Done, Lib!Registry!Without, Lib!Without, Books
  <2>7. QED
    BY <2>4, <2>6
<1>5. QED
  BY <1>3, <1>4

LEMMA IncreaseKeeps ==
  ASSUME NEW value, NEW ids, NEW cells, Kept(value, ids, cells), NEW c, NEW v \in Nat,
         Lib!Return(Lib!IncreaseCompanyValue(manager, c, v))
  PROVE  ManagerSound' /\ (Lib!Registry!IncreaseCompanyValue(c, v) \/ Lib!Registry!Refused)
<1>1. manager.companies = value /\ Books = Entries(ids, cells)
  BY BooksListed DEF Kept
<1>2. CASE c \notin DOMAIN value
  <2>1. Lib!IncreaseCompanyValue(manager, c, v) = Lib!Failure(manager)
    BY <1>1, <1>2 DEF Lib!IncreaseCompanyValue
  <2>2. QED
    BY <2>1, NotAnswered DEF ManagerSound
<1>3. CASE c \in DOMAIN value
  <2>1. PICK new, w : new = value[c] + v /\ w = Changed(value, c, new)
    OBVIOUS
  <2>2. /\ Lib!IncreaseCompanyValue(manager, c, v) = Lib!Success(HoldingOf(w, ids, cells))
        /\ Tables(w, ids, cells)
    BY <1>3, <2>1, ManagerIncreases DEF Kept
  <2>3. new \in Nat
    BY <1>3, <2>1 DEF Kept, WorthsSound
  <2>4. WorthsSound(w) /\ SalariesPaid(ids)
    BY <2>1, <2>3 DEF Kept, WorthsSound, Changed
  <2>5. /\ ManagerSound' /\ managerResult' = "SUCCESS"
        /\ manager'.companies = w /\ Books' = Entries(ids, cells)
    BY <2>2, <2>4, Answered
  <2>6. w = [manager.companies EXCEPT ![c] = @ + v]
    BY <1>1, <2>1 DEF Changed
  <2>7. Lib!Registry!IncreaseCompanyValue(c, v)
    BY <1>1, <1>3, <2>5, <2>6 DEF Lib!Registry!IncreaseCompanyValue, Lib!Registry!Done, Books
  <2>8. QED
    BY <2>5, <2>7
<1>4. QED
  BY <1>2, <1>3

LEMMA AddEmployeeKeeps ==
  ASSUME NEW value, NEW ids, NEW cells, Kept(value, ids, cells), NEW e \in Nat, NEW c,
         NEW salary \in Nat, NEW grade,
         Lib!Return(Lib!AddEmployee(manager, e, c, Lib!Employee(salary, grade)))
  PROVE  ManagerSound' /\ (Lib!Registry!AddEmployee(e, c, salary, grade) \/ Lib!Registry!Refused)
<1>1. manager.companies = value /\ Books = Entries(ids, cells) /\ manager.idTree = ids
  BY BooksListed, HoldingFields DEF Kept, HoldingOf
<1>2. DOMAIN manager.settled = Hired(cells)
  BY HoldingFields DEF Kept, HoldingOf, Firms
<1>3. DOMAIN Books = DOMAIN ids
  BY <1>1 DEF Entries
<1>4. CASE e \in DOMAIN ids \/ c \notin DOMAIN value
  <2>1. c \notin DOMAIN value => c \notin DOMAIN manager.settled
    BY <1>2 DEF Kept, Tables
  <2>2. Lib!AddEmployee(manager, e, c, Lib!Employee(salary, grade)) = Lib!Failure(manager)
    BY <1>1, <1>4, <2>1 DEF Lib!AddEmployee
  <2>3. QED
    BY <2>2, NotAnswered DEF ManagerSound
<1>5. CASE e \notin DOMAIN ids /\ c \in DOMAIN value
  <2>1. PICK emp, i, l : /\ emp = Lib!Employee(salary, grade)
                         /\ i = Lib!With(ids, e, emp) /\ l = Lib!With(cells, e, c)
    OBVIOUS
  <2>2. Lib!AddEmployee(manager, e, c, emp) = Lib!Success(HoldingOf(value, i, l))
    BY <1>5, <2>1, ManagerAdds DEF Kept
  <2>3. Tables(value, i, l)
    BY <1>5, <2>1, TablesWith DEF Kept
  <2>4. WorthsSound(value) /\ SalariesPaid(i)
    <3>1. emp.salary \in Nat
      BY <2>1 DEF Lib!Employee
    <3>2. QED
      BY <1>5, <2>1, <3>1, PaidWith DEF Kept
  <2>5. /\ ManagerSound' /\ managerResult' = "SUCCESS"
        /\ manager'.companies = value /\ Books' = Entries(i, l)
    BY <2>1, <2>2, <2>3, <2>4, Answered
  <2>6. Entries(i, l) = Lib!With(Entries(ids, cells), e,
                             [company |-> c, salary |-> salary, grade |-> grade])
    <3>1. DOMAIN cells = DOMAIN ids
      BY DEF Kept, Tables
    <3>2. /\ DOMAIN i = DOMAIN ids \cup {e} /\ i[e] = emp /\ \A f \in DOMAIN ids : i[f] = ids[f]
          /\ l[e] = c /\ \A f \in DOMAIN ids : l[f] = cells[f]
      BY <1>5, <2>1, <3>1 DEF Lib!With
    <3>3. emp.salary = salary /\ emp.grade = grade
      BY <2>1 DEF Lib!Employee
    <3>4. QED
      BY <1>5, <3>2, <3>3 DEF Entries, Lib!With
  <2>7. Lib!Registry!AddEmployee(e, c, salary, grade)
    BY <1>1, <1>3, <1>5, <2>5, <2>6
       DEF Lib!Registry!AddEmployee, Lib!Registry!Done, Lib!Registry!With, Lib!With, Books
  <2>8. QED
    BY <2>5, <2>7
<1>6. QED
  BY <1>4, <1>5

LEMMA RemoveEmployeeKeeps ==
  ASSUME NEW value, NEW ids, NEW cells, Kept(value, ids, cells), NEW e,
         Lib!Return(Lib!RemoveEmployee(manager, e))
  PROVE  ManagerSound' /\ (Lib!Registry!RemoveEmployee(e) \/ Lib!Registry!Refused)
<1>1. manager.companies = value /\ Books = Entries(ids, cells) /\ manager.idTree = ids
  BY BooksListed, HoldingFields DEF Kept, HoldingOf
<1>2. DOMAIN Books = DOMAIN ids
  BY <1>1 DEF Entries
<1>3. CASE e \notin DOMAIN ids
  <2>1. Lib!RemoveEmployee(manager, e) = Lib!Failure(manager)
    BY <1>1, <1>3, Zenon DEF Lib!RemoveEmployee
  <2>2. QED
    BY <2>1, NotAnswered DEF ManagerSound
<1>4. CASE e \in DOMAIN ids
  <2>1. PICK i, l : i = Lib!Without(ids, e) /\ l = Lib!Without(cells, e)
    OBVIOUS
  <2>2. Lib!RemoveEmployee(manager, e) = Lib!Success(HoldingOf(value, i, l))
    BY <1>4, <2>1, ManagerRemoves DEF Kept
  <2>3. Tables(value, i, l) /\ WorthsSound(value) /\ SalariesPaid(i)
    BY <1>4, <2>1, TablesWithout, PaidWithout DEF Kept
  <2>4. /\ ManagerSound' /\ managerResult' = "SUCCESS"
        /\ manager'.companies = value /\ Books' = Entries(i, l)
    BY <2>2, <2>3, Answered
  <2>5. Entries(i, l) = Lib!Without(Entries(ids, cells), e)
    <3>1. DOMAIN cells = DOMAIN ids
      BY DEF Kept, Tables
    <3>2. /\ DOMAIN i = DOMAIN ids \ {e} /\ \A f \in DOMAIN ids \ {e} : i[f] = ids[f]
          /\ \A f \in DOMAIN ids \ {e} : l[f] = cells[f]
      BY <2>1, <3>1 DEF Lib!Without
    <3>3. QED
      BY <3>2 DEF Entries, Lib!Without
  <2>6. Lib!Registry!RemoveEmployee(e)
    BY <1>1, <1>2, <1>4, <2>4, <2>5
       DEF Lib!Registry!RemoveEmployee, Lib!Registry!Done, Lib!Registry!Without, Lib!Without, Books
  <2>7. QED
    BY <2>4, <2>6
<1>5. QED
  BY <1>3, <1>4

LEMMA PromotionKeeps ==
  ASSUME NEW value, NEW ids, NEW cells, Kept(value, ids, cells), NEW e, NEW raise \in Nat, NEW bump,
         Lib!Return(Lib!PromoteEmployee(manager, e, raise, bump))
  PROVE  ManagerSound' /\ (Lib!Registry!PromoteEmployee(e, raise, bump) \/ Lib!Registry!Refused)
<1>1. manager.companies = value /\ Books = Entries(ids, cells) /\ manager.idTree = ids
  BY BooksListed, HoldingFields DEF Kept, HoldingOf
<1>2. DOMAIN Books = DOMAIN ids
  BY <1>1 DEF Entries
<1>3. CASE e \notin DOMAIN ids
  <2>1. Lib!PromoteEmployee(manager, e, raise, bump) = Lib!Failure(manager)
    BY <1>1, <1>3, Zenon DEF Lib!PromoteEmployee
  <2>2. QED
    BY <2>1, NotAnswered DEF ManagerSound
<1>4. CASE e \in DOMAIN ids
  <2>1. PICK new, i : new = Advanced(ids[e], raise, bump) /\ i = Changed(ids, e, new)
    OBVIOUS
  <2>2. Lib!PromoteEmployee(manager, e, raise, bump) = Lib!Success(HoldingOf(value, i, cells))
    BY <1>4, <2>1, ManagerPromotes DEF Kept
  <2>3. Tables(value, i, cells) /\ WorthsSound(value) /\ SalariesPaid(i)
    BY <1>4, <2>1, TablesEdited, PaidEdited DEF Kept
  <2>4. /\ ManagerSound' /\ managerResult' = "SUCCESS"
        /\ manager'.companies = value /\ Books' = Entries(i, cells)
    BY <2>2, <2>3, Answered
  <2>5. Entries(i, cells)
          = [Entries(ids, cells) EXCEPT ![e].salary = @ + raise, ![e].grade = @ + bump]
    <3>1. DOMAIN i = DOMAIN ids /\ i[e] = new /\ \A f \in DOMAIN ids \ {e} : i[f] = ids[f]
      BY <1>4, <2>1 DEF Changed
    <3>2. new.salary = ids[e].salary + raise /\ new.grade = ids[e].grade + bump
      BY <2>1 DEF Advanced, Lib!Employee
    <3>3. QED
      BY <1>4, <3>1, <3>2 DEF Entries
  <2>6. Lib!Registry!PromoteEmployee(e, raise, bump)
    BY <1>1, <1>2, <1>4, <2>4, <2>5, Zenon
    DEF Lib!Registry!PromoteEmployee, Lib!Registry!Done, Books
  <2>7. QED
    BY <2>4, <2>6
<1>5. QED
  BY <1>3, <1>4

LEMMA HireKeeps ==
  ASSUME NEW value, NEW ids, NEW cells, Kept(value, ids, cells), NEW e, NEW c,
         Lib!Return(Lib!HireEmployee(manager, e, c))
  PROVE  ManagerSound' /\ (Lib!Registry!HireEmployee(e, c) \/ Lib!Registry!Refused)
<1>1. /\ manager.companies = value /\ Books = Entries(ids, cells) /\ manager.idTree = ids
      /\ manager.companyID = cells
  BY BooksListed, HoldingFields DEF Kept, HoldingOf
<1>2. DOMAIN Books = DOMAIN ids
  BY <1>1 DEF Entries
<1>3. CASE e \notin DOMAIN ids \/ c \notin DOMAIN value \/ cells[e] = c
  <2>1. Lib!HireEmployee(manager, e, c) = Lib!Failure(manager)
    BY <1>1, <1>3, Zenon DEF Lib!HireEmployee
  <2>2. QED
    BY <2>1, NotAnswered DEF ManagerSound
<1>4. CASE e \in DOMAIN ids /\ c \in DOMAIN value /\ cells[e] # c
  <2>1. PICK l : l = Changed(cells, e, c)
    OBVIOUS
  <2>2. /\ Lib!HireEmployee(manager, e, c) = Lib!Success(HoldingOf(value, ids, l))
        /\ Tables(value, ids, l)
    BY <1>4, <2>1, ManagerHires DEF Kept
  <2>3. WorthsSound(value) /\ SalariesPaid(ids)
    BY DEF Kept
  <2>4. /\ ManagerSound' /\ managerResult' = "SUCCESS"
        /\ manager'.companies = value /\ Books' = Entries(ids, l)
    BY <2>2, <2>3, Answered
  <2>5. Entries(ids, l) = [Entries(ids, cells) EXCEPT ![e].company = c]
    <3>1. DOMAIN cells = DOMAIN ids
      BY DEF Kept, Tables
    <3>2. l[e] = c /\ \A f \in DOMAIN ids \ {e} : l[f] = cells[f]
      BY <1>4, <2>1, <3>1 DEF Changed
    <3>3. PICK x, y : x = Entries(ids, cells) /\ y = Entries(ids, l)
      OBVIOUS
    <3>4. /\ DOMAIN x = DOMAIN ids /\ DOMAIN y = DOMAIN ids
          /\ y = [f \in DOMAIN ids |-> y[f]]
          /\ \A f \in DOMAIN ids \ {e} : y[f] = x[f]
      BY <3>2, <3>3 DEF Entries
    <3>5. y[e] = [x[e] EXCEPT !.company = c]
      BY <1>4, <3>2, <3>3 DEF Entries
    <3>6. y = [x EXCEPT ![e] = [x[e] EXCEPT !.company = c]]
      BY <1>4, <3>4, <3>5
    <3>7. [x EXCEPT ![e].company = c] = [x EXCEPT ![e] = [x[e] EXCEPT !.company = c]]
      BY Zenon
    <3>8. QED
      BY <3>3, <3>6, <3>7
  <2>6. Books[e].company = cells[e]
    BY <1>1, <1>4 DEF Entries
  <2>7. Lib!Registry!HireEmployee(e, c)
    BY <1>1, <1>2, <1>4, <2>4, <2>5, <2>6 DEF Lib!Registry!HireEmployee, Lib!Registry!Done, Books
  <2>8. QED
    BY <2>4, <2>7
<1>5. QED
  BY <1>3, <1>4

LEMMA AcquisitionKeeps ==
  ASSUME NEW value, NEW ids, NEW cells, Kept(value, ids, cells), NEW a, NEW t, a # t,
         NEW factor \in Nat, Lib!Return(Lib!AcquireCompany(manager, a, t, factor))
  PROVE  ManagerSound' /\ (Lib!Registry!AcquireCompany(a, t, factor) \/ Lib!Registry!Refused)
<1>1. manager.companies = value /\ Books = Entries(ids, cells)
  BY BooksListed DEF Kept
<1>2. CASE ~ {a, t} \subseteq DOMAIN value \/ value[a] < 10 * value[t]
  <2>1. Lib!AcquireCompany(manager, a, t, factor) = Lib!Failure(manager)
    BY <1>1, <1>2, Zenon DEF Lib!AcquireCompany
  <2>2. QED
    BY <2>1, NotAnswered DEF ManagerSound
<1>3. CASE {a, t} \subseteq DOMAIN value /\ ~ (value[a] < 10 * value[t])
  <2>1. PICK v, w, l : /\ v = Price(value[a], value[t], factor)
                       /\ w = Lib!Without(Changed(value, a, v), t) /\ l = MovedTo(cells, t, a)
    OBVIOUS
  <2>2. a \in DOMAIN value /\ t \in DOMAIN value
    BY <1>3
  <2>3. Lib!AcquireCompany(manager, a, t, factor) = Lib!Success(HoldingOf(w, ids, l))
    BY <1>3, <2>1, <2>2, ManagerAcquires DEF Kept
  <2>4. Tables(w, ids, l)
    BY <2>1, <2>2, TablesAcquired DEF Kept
  <2>5. value[a] \in Nat /\ value[t] \in Nat
    BY <2>2 DEF Kept, WorthsSound
  <2>6. v \in Nat
    <3>1. PICK sum : sum = value[a] + value[t]
      OBVIOUS
    <3>2. sum \in Nat
      BY <2>5, <3>1
    <3>3. sum * factor \in Nat
      BY <3>2
    <3>4. PICK product : product = sum * factor
      OBVIOUS
    <3>5. product \in Nat => product \div 2 \in Nat
      OBVIOUS
    <3>6. v = product \div 2
      BY <2>1, <3>1, <3>4 DEF Price
    <3>7. QED
      BY <3>3, <3>4, <3>5, <3>6
  <2>7. WorthsSound(w) /\ SalariesPaid(ids)
    BY <2>1, <2>6 DEF Kept, WorthsSound, Lib!Without, Changed
  <2>8. /\ ManagerSound' /\ managerResult' = "SUCCESS"
        /\ manager'.companies = w /\ Books' = Entries(ids, l)
    BY <2>3, <2>4, <2>7, Answered
  <2>9. value[a] >= 10 * value[t]
    BY <1>3, <2>5
  <2>10. w = Lib!Without([value EXCEPT ![a] = ((@ + value[t]) * factor) \div 2], t)
    BY <2>1, Zenon DEF Changed, Price
  <2>11. Books' = [e \in DOMAIN Books |->
                     IF Books[e].company = t THEN [Books[e] EXCEPT !.company = a]
                     ELSE Books[e]]
    <3>1. DOMAIN cells = DOMAIN ids
      BY DEF Kept, Tables
    <3>2. \A e \in DOMAIN ids : l[e] = IF cells[e] = t THEN a ELSE cells[e]
      BY <2>1, <3>1 DEF MovedTo
    <3>3. QED
      BY <1>1, <2>8, <3>2 DEF Entries
  <2>12. Lib!Registry!AcquireCompany(a, t, factor)
    BY <1>1, <1>3, <2>8, <2>9, <2>10, <2>11
       DEF Lib!Registry!AcquireCompany, Lib!Registry!Done, Lib!Registry!Without, Lib!Without, Books
  <2>13. QED
    BY <2>8, <2>12
<1>4. QED
  BY <1>2, <1>3

LEMMA ManagerStarts == Lib!Init => ManagerSound /\ Lib!Registry!Init
<1> SUFFICES ASSUME Lib!Init
             PROVE  ManagerSound /\ Lib!Registry!Init
  OBVIOUS
<1>1. PICK none : none = << >>
  OBVIOUS
<1>2. DOMAIN none = {} /\ Listed(none) /\ Hired(none) = {} /\ Lib!Roster(none) = {}
  BY <1>1 DEF Listed, Hired, Lib!Roster
<1>3. Firms(none, none, none) = none
  BY <1>1, <1>2 DEF Firms
<1>4. manager = HoldingOf(none, none, none)
  BY <1>1, <1>2, <1>3 DEF Lib!Init, HoldingOf, Holding
<1>5. Kept(none, none, none)
  BY <1>2, <1>4 DEF Kept, Tables, WorthsSound, SalariesPaid
<1>6. Books = none
  <2>1. manager.idTree = none
    BY <1>4, HoldingFields DEF HoldingOf
  <2>2. QED
    BY <1>1, <1>2, <2>1 DEF Books
<1>7. manager.companies = none /\ managerResult = "SUCCESS"
  BY <1>1 DEF Lib!Init
<1>8. Lib!Registry!Init
  BY <1>1, <1>6, <1>7 DEF Lib!Registry!Init, Books
<1>9. QED
  BY <1>5, <1>8 DEF ManagerSound

LEMMA ManagerStep ==
  Lib!ManagerAssumption /\ ManagerSound /\ [Lib!Next]_(Lib!vars)
    => ManagerSound' /\ [Lib!Registry!Next]_(Lib!Registry!vars)
<1> SUFFICES ASSUME Lib!ManagerAssumption, ManagerSound, [Lib!Next]_(Lib!vars)
             PROVE  ManagerSound' /\ [Lib!Registry!Next]_(Lib!Registry!vars)
  OBVIOUS
<1>1. PICK value, ids, cells : Kept(value, ids, cells)
  BY DEF ManagerSound
<1>2. CASE UNCHANGED Lib!vars
  BY <1>2 DEF Lib!vars, ManagerSound, Kept, Lib!Registry!vars
<1>3. ASSUME NEW c \in Companies, NEW v \in Values, Lib!Return(Lib!AddCompany(manager, c, v))
      PROVE  ManagerSound' /\ Lib!Registry!Next
  <2>1. v \in Nat
    BY DEF Lib!ManagerAssumption
  <2>2. ManagerSound' /\ (Lib!Registry!AddCompany(c, v) \/ Lib!Registry!Refused)
    BY <1>1, <1>3, <2>1, AddCompanyKeeps
  <2>3. QED
    BY <2>2 DEF Lib!Registry!Next
<1>4. ASSUME NEW c \in Companies, Lib!Return(Lib!RemoveCompany(manager, c))
      PROVE  ManagerSound' /\ Lib!Registry!Next
  <2>1. ManagerSound' /\ (Lib!Registry!RemoveCompany(c) \/ Lib!Registry!Refused)
    BY <1>1, <1>4, RemoveCompanyKeeps
  <2>2. QED
    BY <2>1 DEF Lib!Registry!Next
<1>5. ASSUME NEW c \in Companies, NEW v \in Increases,
             Lib!Return(Lib!IncreaseCompanyValue(manager, c, v))
      PROVE  ManagerSound' /\ Lib!Registry!Next
  <2>1. v \in Nat
    BY DEF Lib!ManagerAssumption
  <2>2. ManagerSound' /\ (Lib!Registry!IncreaseCompanyValue(c, v) \/ Lib!Registry!Refused)
    BY <1>1, <1>5, <2>1, IncreaseKeeps
  <2>3. QED
    BY <2>2 DEF Lib!Registry!Next
<1>6. ASSUME NEW e \in Employees, NEW c \in Companies, NEW salary \in Salaries,
             NEW grade \in 0 .. MaxGrade,
             Lib!Return(Lib!AddEmployee(manager, e, c, Lib!Employee(salary, grade)))
      PROVE  ManagerSound' /\ Lib!Registry!Next
  <2>1. e \in Nat /\ salary \in Nat
    BY DEF Lib!ManagerAssumption
  <2>2. ManagerSound' /\ (Lib!Registry!AddEmployee(e, c, salary, grade) \/ Lib!Registry!Refused)
    BY <1>1, <1>6, <2>1, AddEmployeeKeeps
  <2>3. QED
    BY <2>2 DEF Lib!Registry!Next
<1>7. ASSUME NEW e \in Employees, Lib!Return(Lib!RemoveEmployee(manager, e))
      PROVE  ManagerSound' /\ Lib!Registry!Next
  <2>1. ManagerSound' /\ (Lib!Registry!RemoveEmployee(e) \/ Lib!Registry!Refused)
    BY <1>1, <1>7, RemoveEmployeeKeeps
  <2>2. QED
    BY <2>1 DEF Lib!Registry!Next
<1>8. ASSUME NEW e \in Employees, NEW raise \in Salaries, NEW bump \in 0 .. 1,
             Lib!Return(Lib!PromoteEmployee(manager, e, raise, bump))
      PROVE  ManagerSound' /\ Lib!Registry!Next
  <2>1. raise \in Nat
    BY DEF Lib!ManagerAssumption
  <2>2. ManagerSound' /\ (Lib!Registry!PromoteEmployee(e, raise, bump) \/ Lib!Registry!Refused)
    BY <1>1, <1>8, <2>1, PromotionKeeps
  <2>3. QED
    BY <2>2 DEF Lib!Registry!Next
<1>9. ASSUME NEW e \in Employees, NEW c \in Companies, Lib!Return(Lib!HireEmployee(manager, e, c))
      PROVE  ManagerSound' /\ Lib!Registry!Next
  <2>1. ManagerSound' /\ (Lib!Registry!HireEmployee(e, c) \/ Lib!Registry!Refused)
    BY <1>1, <1>9, HireKeeps
  <2>2. QED
    BY <2>1 DEF Lib!Registry!Next
<1>10. ASSUME NEW a \in Companies, NEW t \in Companies, NEW f \in Halves, a # t,
              Lib!Return(Lib!AcquireCompany(manager, a, t, f))
       PROVE  ManagerSound' /\ Lib!Registry!Next
  <2>1. f \in Nat
    BY DEF Lib!ManagerAssumption
  <2>2. ManagerSound' /\ (Lib!Registry!AcquireCompany(a, t, f) \/ Lib!Registry!Refused)
    BY <1>1, <1>10, <2>1, AcquisitionKeeps
  <2>3. QED
    BY <2>2 DEF Lib!Registry!Next
<1>11. Lib!CompanyCalls => ManagerSound' /\ Lib!Registry!Next
  BY <1>3, <1>4, <1>5 DEF Lib!CompanyCalls
<1>12. Lib!EmployeeCalls => ManagerSound' /\ Lib!Registry!Next
  BY <1>6, <1>7, <1>8, <1>9 DEF Lib!EmployeeCalls
<1>13. Lib!Acquisitions => ManagerSound' /\ Lib!Registry!Next
  BY <1>10 DEF Lib!Acquisitions
<1>14. QED
  BY <1>2, <1>11, <1>12, <1>13 DEF Lib!Next

ManagerLasts == Lib!ManagerAssumption /\ ManagerSound

LEMMA ManagerStaysSound == Lib!ManagerAssumption /\ Lib!Spec => []ManagerLasts
<1>1. Lib!ManagerAssumption /\ Lib!Init => ManagerLasts
  BY ManagerStarts DEF ManagerLasts
<1>2. ManagerLasts /\ [Lib!Next]_(Lib!vars) => ManagerLasts'
  BY ManagerStep DEF ManagerLasts, Lib!ManagerAssumption
<1>3. QED
  BY <1>1, <1>2, PTL DEF Lib!Spec

(* In any state that calls of library1.cpp can reach, for any companies,   *)
(* employees, values and salaries, the four copies of every employee and   *)
(* the two of every company's value agree (StructuresAgree).               *)
THEOREM ManagerCopiesAgree == Lib!ManagerAssumption /\ Lib!Spec => []Lib!StructuresAgree
<1>1. ManagerLasts => Lib!StructuresAgree
  BY HoldingAgrees DEF ManagerLasts, ManagerSound, ManagerInv, Kept
<1>2. QED
  BY <1>1, ManagerStaysSound, PTL

(* Each call of library1.cpp changes what CompanyRegistry promises, or is  *)
(* refused and changes nothing.                                            *)
THEOREM ManagerIsRegistry == Lib!ManagerAssumption /\ Lib!Spec => Lib!ImplementsRegistry
<1>1. Lib!Init => Lib!Registry!Init
  BY ManagerStarts
<1>2. ManagerLasts /\ [Lib!Next]_(Lib!vars) => [Lib!Registry!Next]_(Lib!Registry!vars)
  BY ManagerStep DEF ManagerLasts
<1>3. QED
  BY <1>1, <1>2, ManagerStaysSound, PTL DEF Lib!Spec, Lib!ImplementsRegistry, Lib!Registry!Spec

-----------------------------------------------------------------------------
(* The greatest key of a salary tree.                                      *)
EarnsMore(ids, e, d) ==
  ids[d].salary < ids[e].salary \/ (ids[d].salary = ids[e].salary /\ e < d)

LEMMA BestExists ==
  ASSUME NEW ids, SalariesPaid(ids), NEW A, A \subseteq DOMAIN ids, A # {}
  PROVE  \E e \in A : \A d \in A \ {e} : EarnsMore(ids, e, d)
<1>1. PICK B \in Nat : \A f \in DOMAIN ids :
        f \in Nat /\ ids[f].salary \in Nat /\ ids[f].salary <= B
  BY DEF SalariesPaid
<1>2. PICK pay : pay = [f \in A |-> ids[f].salary]
  OBVIOUS
<1>3. \A f \in A : f \in Nat /\ pay[f] = ids[f].salary /\ pay[f] \in Nat /\ pay[f] <= B
  BY <1>1, <1>2
<1>4. PICK P : P = {pay[f] : f \in A}
  OBVIOUS
<1>5. P \subseteq Int /\ P # {} /\ B \in Int /\ \A p \in P : p <= B
  BY <1>3, <1>4
<1>6. Max(P) \in P /\ \A p \in P : Max(P) >= p
  BY <1>5, MaxProperties
<1>7. PICK top : top = Max(P)
  OBVIOUS
<1>8. PICK F : F = {f \in A : pay[f] = top}
  OBVIOUS
<1>9. F \subseteq Nat /\ F # {}
  BY <1>3, <1>4, <1>6, <1>7, <1>8
<1>10. Min(F) \in F /\ \A f \in F : Min(F) <= f
  BY <1>9, MinProperties
<1>11. PICK e : e = Min(F)
  OBVIOUS
<1>12. e \in A /\ pay[e] = top /\ e \in Nat
  BY <1>8, <1>9, <1>10, <1>11
<1>13. ASSUME NEW d \in A \ {e}
       PROVE  EarnsMore(ids, e, d)
  <2>1. pay[d] \in Nat /\ top \in Nat /\ d \in Nat /\ top >= pay[d]
    BY <1>3, <1>4, <1>6, <1>7, <1>12
  <2>2. CASE pay[d] = top
    <3>1. e <= d
      BY <1>8, <1>10, <1>11, <2>2
    <3>2. e < d
      BY <1>12, <1>13, <2>1, <3>1
    <3>3. QED
      BY <1>3, <1>12, <2>2, <3>2 DEF EarnsMore
  <2>3. CASE pay[d] # top
    <3>1. pay[d] < top
      BY <2>1, <2>3
    <3>2. QED
      BY <1>3, <1>12, <3>1 DEF EarnsMore
  <2>4. QED
    BY <2>2, <2>3
<1>14. QED
  BY <1>12, <1>13

LEMMA MaxNodeIs ==
  ASSUME NEW ids, SalariesPaid(ids), NEW a, DOMAIN a # {}, DOMAIN a \subseteq DOMAIN ids,
         \A f \in DOMAIN a : a[f] = ids[f],
         NEW best, best = Lib!getMaxNode(Lib!Roster(a)).id
  PROVE  best \in DOMAIN a /\ \A d \in DOMAIN a \ {best} : EarnsMore(ids, best, d)
<1>1. PICK A : A = DOMAIN a
  OBVIOUS
<1>2. PICK e \in A : \A d \in A \ {e} : EarnsMore(ids, e, d)
  BY <1>1, BestExists
<1>3. PICK T : T = Lib!Roster(a)
  OBVIOUS
<1>4. T = {Lib!Key(f, a[f]) : f \in A}
  BY <1>1, <1>3 DEF Lib!Roster
<1>5. \A f \in A : Lib!Key(f, a[f]).id = f /\ Lib!Key(f, a[f]).salary = ids[f].salary
  BY <1>1 DEF Lib!Key
<1>6. \A f, g \in A : Lib!LessEarner(Lib!Key(f, a[f]), Lib!Key(g, a[g])) <=> EarnsMore(ids, g, f)
  <2>1. SUFFICES ASSUME NEW f \in A, NEW g \in A
                 PROVE  Lib!LessEarner(Lib!Key(f, a[f]), Lib!Key(g, a[g])) <=> EarnsMore(ids, g, f)
    OBVIOUS
  <2>2. f \in Nat /\ g \in Nat
    BY <1>1 DEF SalariesPaid
  <2>3. g < f <=> f > g
    BY <2>2
  <2>4. QED
    BY <1>5, <2>3 DEF Lib!LessEarner, EarnsMore
<1>7. \E k \in T : \A d \in T : d = k \/ Lib!LessEarner(d, k)
  <2>1. PICK k : k = Lib!Key(e, a[e])
    OBVIOUS
  <2>2. k \in T
    BY <1>4, <2>1
  <2>3. ASSUME NEW d \in T
        PROVE  d = k \/ Lib!LessEarner(d, k)
    <3>1. PICK f \in A : d = Lib!Key(f, a[f])
      BY <1>4
    <3>2. CASE f = e
      BY <2>1, <3>1, <3>2
    <3>3. CASE f # e
      BY <1>2, <1>6, <2>1, <3>1, <3>3
    <3>4. QED
      BY <3>2, <3>3
  <2>4. QED
    BY <2>2, <2>3
<1>8. PICK k : k = Lib!getMaxNode(T)
  OBVIOUS
<1>9. k \in T /\ \A d \in T : d = k \/ Lib!LessEarner(d, k)
  BY <1>7, <1>8, Zenon DEF Lib!getMaxNode
<1>10. PICK f \in A : k = Lib!Key(f, a[f])
  BY <1>4, <1>9
<1>11. best = f
  BY <1>3, <1>5, <1>8, <1>10
<1>12. ASSUME NEW d \in A \ {f}
       PROVE  EarnsMore(ids, f, d)
  <2>1. Lib!Key(d, a[d]) \in T /\ Lib!Key(d, a[d]) # k
    BY <1>4, <1>5, <1>10
  <2>2. Lib!LessEarner(Lib!Key(d, a[d]), k)
    BY <1>9, <2>1
  <2>3. QED
    BY <1>6, <1>10, <2>2
<1>13. QED
  BY <1>1, <1>11, <1>12

LEMMA EarnersFound == ManagerSound => Lib!EarnersAgree
<1> SUFFICES ASSUME NEW value, NEW ids, NEW cells, Kept(value, ids, cells)
             PROVE  Lib!EarnersAgree
  BY DEF ManagerSound
<1>1. Lib!StructuresAgree
  BY HoldingAgrees DEF ManagerInv, Kept
<1>2. manager.idTree = ids /\ manager.companyID = cells /\ DOMAIN cells = DOMAIN ids
  BY HoldingFields DEF Kept, HoldingOf, Tables
<1>3. ASSUME NEW c \in DOMAIN manager.settled
      PROVE  Lib!HighestAgrees(c) /\ Lib!NumbersAgree(c)
  <2>1. PICK a, A : a = manager.settled[c].idTree /\ A = Lib!Staff(c)
    OBVIOUS
  <2>2. /\ a = [e \in A |-> ids[e]] /\ manager.settled[c].salaryTree = Lib!Roster(a)
    BY <1>1, <1>2, <2>1 DEF Lib!StructuresAgree
  <2>3. A \subseteq DOMAIN ids /\ A # {}
    <3>1. PICK e \in DOMAIN ids : cells[e] = c
      BY <1>1, <1>2 DEF Lib!StructuresAgree
    <3>2. QED
      BY <1>2, <2>1, <3>1 DEF Lib!Staff
  <2>4. DOMAIN a = A /\ \A f \in A : a[f] = ids[f]
    BY <2>2
  <2>5. PICK best : best = Lib!GetHighestEarner(manager, c)
    OBVIOUS
  <2>6. best = Lib!getMaxNode(Lib!Roster(a)).id
    BY <2>2, <2>5 DEF Lib!GetHighestEarner
  <2>7. best \in A /\ \A d \in A \ {best} : EarnsMore(ids, best, d)
    <3>1. SalariesPaid(ids)
      BY DEF Kept
    <3>2. DOMAIN a # {} /\ DOMAIN a \subseteq DOMAIN ids /\ \A f \in DOMAIN a : a[f] = ids[f]
      BY <2>3, <2>4
    <3>3. best \in DOMAIN a /\ \A d \in DOMAIN a \ {best} : EarnsMore(ids, best, d)
      BY <2>6, <3>1, <3>2, MaxNodeIs
    <3>4. QED
      BY <2>4, <3>3
  <2>8. \A d : Lib!Pay(d) = ids[d].salary
    BY <1>2 DEF Lib!Pay
  <2>9. \A d \in A \ {best} : Lib!Pay(d) < Lib!Pay(best) \/ (Lib!Pay(d) = Lib!Pay(best) /\ best < d)
    BY <2>7, <2>8 DEF EarnsMore
  <2>10. ASSUME NEW lo \in Employees, NEW hi \in Employees, NEW m \in Salaries,
                NEW g \in 0 .. MaxGrade
         PROVE  LET in == {e \in Lib!Staff(c) : lo <= e /\ e <= hi}
                IN  Lib!GetNumEmployeesMatching(manager.settled[c].idTree, lo, hi, m, g)
                      = <<Lib!Cardinality(in),
                          Lib!Cardinality({e \in in :
                                         Lib!Pay(e) >= m /\ manager.idTree[e].grade >= g})>>
    <3>1. PICK in : in = {e \in Lib!Staff(c) : lo <= e /\ e <= hi}
      OBVIOUS
    <3>2. in = {e \in DOMAIN a : lo <= e /\ e <= hi}
      BY <2>1, <2>4, <3>1
    <3>3. {e \in in : a[e].salary >= m /\ a[e].grade >= g}
            = {e \in in : Lib!Pay(e) >= m /\ manager.idTree[e].grade >= g}
      BY <1>2, <2>1, <2>4, <2>8, <3>1
    <3>4. Lib!GetNumEmployeesMatching(a, lo, hi, m, g)
            = <<Lib!Cardinality(in),
                Lib!Cardinality({e \in in : a[e].salary >= m /\ a[e].grade >= g})>>
      BY <3>2, Zenon DEF Lib!GetNumEmployeesMatching
    <3>5. QED
      BY <2>1, <3>1, <3>3, <3>4
  <2>11. Lib!HighestAgrees(c)
    BY <2>1, <2>5, <2>7, <2>9 DEF Lib!HighestAgrees
  <2>12. Lib!NumbersAgree(c)
    BY <2>10, Zenon DEF Lib!NumbersAgree
  <2>13. QED
    BY <2>11, <2>12
<1>4. QED
  BY <1>3 DEF Lib!EarnersAgree

(* For any companies and employees: the employee that the highest-earner   *)
(* query of library1.cpp names is of the company asked for, nobody of it   *)
(* earns more or as much with a smaller id, and the counting query counts  *)
(* its staff.                                                              *)
THEOREM EarnersAreRight == Lib!ManagerAssumption /\ Lib!Spec => []Lib!EarnersAgree
<1>1. ManagerLasts => Lib!EarnersAgree
  BY EarnersFound DEF ManagerLasts
<1>2. QED
  BY <1>1, ManagerStaysSound, PTL

=============================================================================
