----------------------------- MODULE RankedTree ------------------------------
(***************************************************************************)
(* ranked.h of the companies complex: an AVL tree whose nodes also keep    *)
(* the number of nodes below them and the sum of the grades below them,    *)
(* so that library2.cpp sums the grades of the best paid, or of a range of *)
(* salaries, along one path.  Keys are integers in the order of class      *)
(* Employee (salary, then id); two keys share a salary.  Data and failed   *)
(* allocations are left out.                                               *)
(***************************************************************************)
EXTENDS Integers, Sequences, FiniteSets, FiniteSetsExt

CONSTANTS Keys,
          Trees,     \* the trees of the program
          MaxGrade,  \* bound of the grades explored
          NULL

RankedAssumption == Keys \subseteq Nat /\ MaxGrade \in Nat

VARIABLES tree,   \* [Trees -> tree]
          result  \* what the last call returned

vars == <<tree, result>>

salary(k) == (k + 1) \div 2

-----------------------------------------------------------------------------
EmptyTree == [root |-> NULL, counter |-> 0, node |-> << >>]

Larger(a, b) == IF a > b THEN a ELSE b

Other(side) == IF side = "left" THEN "right" ELSE "left"

adjustHeight(t, n) ==
  LET Side(s) == IF s = NULL THEN 0 ELSE 1 + t.node[s].height
  IN  IF n = NULL THEN 0
      ELSE Larger(Side(t.node[n].left), Side(t.node[n].right))

(* The sons' heights are computed again from the grandsons' stored ones.   *)
getBFactor(t, n) ==
  LET Side(s) == IF s = NULL THEN 0 ELSE 1 + adjustHeight(t, s)
  IN  IF n = NULL THEN 0 ELSE Side(t.node[n].left) - Side(t.node[n].right)

TreeNodes(t, n) == IF n = NULL THEN 0 ELSE t.node[n].nodes
SumGrades(t, n) == IF n = NULL THEN 0 ELSE t.node[n].sum

Set(t, n, field, x) ==
  IF n = NULL THEN t ELSE [t EXCEPT !.node[n][field] = x]

AddSum(t, n, g) == Set(t, n, "sum", SumGrades(t, n) + g)

(* setHeight(adjustHeight) and setTreeNodes(getDegree).                    *)
Resize(t, n) ==
  IF n = NULL THEN t
  ELSE [t EXCEPT !.node[n].height = adjustHeight(t, n),
                 !.node[n].nodes = 1 + TreeNodes(t, t.node[n].left)
                                     + TreeNodes(t, t.node[n].right)]

(* calcGrade.                                                              *)
Resum(t, n) ==
  IF n = NULL THEN t
  ELSE Set(t, n, "sum", t.node[n].grade + SumGrades(t, t.node[n].left)
                                        + SumGrades(t, t.node[n].right))

Recount(t, n) == Resum(Resize(t, n), n)

(* The node's parent gets another son in its place; a root gets replaced.  *)
Replace(t, n, parent, side, son) ==
  IF parent = NULL THEN Set([t EXCEPT !.root = son], son, "parent", NULL)
  ELSE Set(Set(t, parent, side, son), son, "parent", parent)

Drop(t, n) == [t EXCEPT !.node = [m \in DOMAIN t.node \ {n} |-> t.node[m]]]

Linked(t, n, side) ==
  LET son == t.node[n][side]
  IN  Set(Set(Set(t, n, side, t.node[son][Other(side)]), son, Other(side), n),
          t.node[son][Other(side)], "parent", n)

Place(t, n) ==
  IF t.node[n].parent # NULL /\ t.node[t.node[n].parent].left # n THEN "right" ELSE "left"

(* rightRotate for side = "left", leftRotate for side = "right": the son   *)
(* on that side takes the node's place.                                    *)
Rotate(t, n, side) ==
  LET son    == t.node[n][side]
      parent == t.node[n].parent
      sized  == Recount(Recount(Linked(t, n, side), n), son)
  IN  Set(Recount(Replace(sized, n, parent, Place(t, n), son), parent), n, "parent", son)

balance(t, n) ==
  LET factor == getBFactor(t, n)
      Lift(side, inward) ==
        Rotate(IF inward THEN Rotate(t, t.node[n][side], Other(side)) ELSE t, n, side)
  IN  IF factor > 1
      THEN Lift("left", getBFactor(t, t.node[n].left) < 0)
      ELSE IF factor < -1
      THEN Lift("right", getBFactor(t, t.node[n].right) > 0)
      ELSE t

RECURSIVE search(_, _, _)
search(t, n, k) ==
  IF n = NULL \/ n = k THEN n
  ELSE search(t, IF n < k THEN t.node[n].right ELSE t.node[n].left, k)

-----------------------------------------------------------------------------
NewNode(parent, g) ==
  [left |-> NULL, right |-> NULL, parent |-> parent,
   height |-> 0, nodes |-> 1, sum |-> g, grade |-> g]

Hang(t, n, side, k, g) ==
  [t EXCEPT !.node = [m \in DOMAIN t.node \cup {k} |->
                        IF m = k THEN NewNode(n, g)
                        ELSE IF m = n THEN [t.node[n] EXCEPT ![side] = k]
                        ELSE t.node[m]]]

(* Sums are raised on the way down, sizes set on the way up.               *)
RECURSIVE insertN(_, _, _, _)
insertN(t, n, k, g) ==
  LET side   == IF n < k THEN "right" ELSE "left"
      raised == AddSum(t, n, g)
      below  == IF t.node[n][side] = NULL THEN Hang(raised, n, side, k, g)
                ELSE insertN(raised, t.node[n][side], k, g)
  IN  balance(Resize(below, n), n)

InsertInto(t, k, g) ==
  IF t.root = NULL
  THEN [root |-> k, counter |-> t.counter + 1, node |-> [m \in {k} |-> NewNode(NULL, g)]]
  ELSE insertN([t EXCEPT !.counter = @ + 1], t.root, k, g)

(* A leaf is dropped, a node with one son gives it its place.              *)
Unhang(t, n, parent, side) ==
  LET son    == IF t.node[n].left = NULL THEN t.node[n].right ELSE t.node[n].left
      placed == Drop(Replace(t, n, parent, side, son), n)
  IN  IF parent = NULL THEN placed ELSE balance(Recount(placed, parent), parent)

RECURSIVE leftmost(_, _)
leftmost(t, n) == IF t.node[n].left = NULL THEN n ELSE leftmost(t, t.node[n].left)

(* The nodes from n down to its leftmost, that one left out, carry another *)
(* grade below them.                                                       *)
RECURSIVE spine(_, _, _)
spine(t, n, g) ==
  IF t.node[n].left = NULL THEN t ELSE spine(AddSum(t, n, g), t.node[n].left, g)

(* The node and its successor change places; the sums of the nodes between *)
(* them follow, the node's own is what it will have there.                 *)
Swap(t, n, parent, side) ==
  LET next  == leftmost(t, t.node[n].right)
      below == t.node[next].right
      above == t.node[next].parent
      along == spine(t, t.node[n].right, t.node[n].grade - t.node[next].grade)
      down  == Set(Set(along, above, IF above = n THEN "right" ELSE "left", n),
                   n, "parent", above)
      up    == Replace(down, n, parent, side, next)
      left  == Set(Set(up, next, "left", up.node[n].left),
                   up.node[n].left, "parent", next)
      right == Set(Set(left, next, "right", left.node[n].right),
                   left.node[n].right, "parent", next)
      own   == [[right EXCEPT !.node[next].height = right.node[n].height,
                              !.node[next].nodes  = right.node[n].nodes]
                  EXCEPT !.node[n].right  = below,
                         !.node[n].left   = NULL,
                         !.node[n].height = t.node[next].height,
                         !.node[n].nodes  = IF below = NULL THEN 1 ELSE 2,
                         !.node[n].sum    = t.node[n].grade
                                  + IF below = NULL THEN 0 ELSE t.node[below].grade]
  IN  Resum(Set(own, below, "parent", n), next)

RECURSIVE deleteN(_, _, _, _, _, _)
deleteN(t, n, parent, k, side, g) ==
  LET Down(way) ==
        balance(Resize(deleteN(AddSum(t, n, -g), t.node[n][way], n, k, way, g), n), n)
  IN  IF n = NULL THEN t
      ELSE IF n < k THEN Down("right")
      ELSE IF n > k THEN Down("left")
      ELSE IF NULL \in {t.node[n].left, t.node[n].right} THEN Unhang(t, n, parent, side)
      ELSE LET next    == leftmost(t, t.node[n].right)
               swapped == Swap(t, n, parent, side)
               deleted == deleteN(swapped, swapped.node[next].right, next, k, "right", g)
           IN  balance(Recount(deleted, next), next)

(* Mutation: the caller's grade is that of before the last promotion.      *)
RemoveStaleGrade(t, k, g) ==
  [deleteN(t, t.root, NULL, k, "root", IF g > 1 THEN g - 1 ELSE g) EXCEPT !.counter = @ - 1]

(* remove is told the grade of the node by its caller.                     *)
RemoveFrom(t, k, g) ==
  [deleteN(t, t.root, NULL, k, "root", g) EXCEPT !.counter = @ - 1]

(* PromoteEmployee on a node: its grade, then specialSetGrades on the way  *)
(* to the root.                                                            *)
RECURSIVE specialSetGrades(_, _, _)
specialSetGrades(t, n, g) ==
  IF n = NULL THEN t ELSE specialSetGrades(AddSum(t, n, g), t.node[n].parent, g)

Promote(t, k, g) ==
  specialSetGrades(Set(t, k, "grade", t.node[k].grade + g), k, g)

-----------------------------------------------------------------------------
RECURSIVE inOrder(_, _)
inOrder(t, n) ==
  IF n = NULL THEN << >>
  ELSE inOrder(t, t.node[n].left) \o <<n>> \o inOrder(t, t.node[n].right)

RECURSIVE mergeKeys(_, _)
mergeKeys(a, b) ==
  IF a = << >> THEN b
  ELSE IF b = << >> THEN a
  ELSE IF Head(a) < Head(b) THEN <<Head(a)>> \o mergeKeys(Tail(a), b)
  ELSE <<Head(b)>> \o mergeKeys(a, Tail(b))

(* The middle key is the root; its halves differ by one key at most, so    *)
(* balance finds nothing to do.                                            *)
RECURSIVE arrayToTree(_, _, _, _, _)
arrayToTree(keys, start, end, parent, grade) ==
  IF start > end THEN EmptyTree
  ELSE LET k     == keys[(start + end) \div 2]
           left  == arrayToTree(keys, start, (start + end) \div 2 - 1, k, grade)
           right == arrayToTree(keys, (start + end) \div 2 + 1, end, k, grade)
           top   == [NewNode(parent, grade[k]) EXCEPT !.left = left.root, !.right = right.root]
           node  == [m \in {k} \cup DOMAIN left.node \cup DOMAIN right.node |->
                       IF m = k THEN top
                       ELSE IF m \in DOMAIN left.node THEN left.node[m] ELSE right.node[m]]
       IN  Recount([root |-> k, counter |-> end - start + 1, node |-> node], k)

mergeTree(t1, t2) ==
  LET keys  == mergeKeys(inOrder(t1, t1.root), inOrder(t2, t2.root))
      grade == [k \in DOMAIN t1.node \cup DOMAIN t2.node |->
                  IF k \in DOMAIN t1.node THEN t1.node[k].grade ELSE t2.node[k].grade]
  IN  arrayToTree(keys, 1, t1.counter + t2.counter, NULL, grade)

-----------------------------------------------------------------------------
(* specialInOrder: <<number taken, sum of their grades>>, from the right.  *)
RECURSIVE specialInOrder(_, _, _, _)
specialInOrder(t, n, taken, len) ==
  IF n = NULL \/ taken[1] = len THEN taken
  ELSE IF t.node[n].right # NULL /\ taken[1] + TreeNodes(t, t.node[n].right) >= len
  THEN specialInOrder(t, t.node[n].right, taken, len)
  ELSE LET more == <<taken[1] + TreeNodes(t, t.node[n].right) + 1,
                     taken[2] + SumGrades(t, t.node[n].right) + t.node[n].grade>>
       IN  specialInOrder(t, t.node[n].left, more, len)

(* AverageBumpEmpsLower (sense = -1): count and grades of those paid less  *)
(* than the bound; AverageBumpEmpsHigher (sense = 1): of those paid more.  *)
RECURSIVE AverageBumpEmps(_, _, _, _)
AverageBumpEmps(t, n, bound, sense) ==
  LET near == IF sense = -1 THEN "left" ELSE "right"
      far  == Other(near)
  IN  IF n = NULL THEN <<0, 0>>
      ELSE IF (salary(n) - bound) * sense <= 0
      THEN AverageBumpEmps(t, t.node[n][near], bound, sense)
      ELSE LET f == t.node[n][far]
               r == AverageBumpEmps(t, f, bound, sense)
           IN  <<TreeNodes(t, n) - TreeNodes(t, f) + r[1],
                 SumGrades(t, n) - SumGrades(t, f) + r[2]>>

(* Both are taken from the totals of the root.                             *)
AverageBumpGradeBetweenSalary(t, lo, hi) ==
  LET less == AverageBumpEmps(t, t.root, lo, -1)
      more == AverageBumpEmps(t, t.root, hi, 1)
  IN  <<TreeNodes(t, t.root) - less[1] - more[1], SumGrades(t, t.root) - less[2] - more[2]>>

-----------------------------------------------------------------------------
Init == tree = [x \in Trees |-> EmptyTree] /\ result = "SUCCESS"

Found(x, k) == search(tree[x], tree[x].root, k) # NULL

(* As library2.cpp uses the trees that may be merged: an employee is in one  *)
(* company, so that no key is in two of them.                              *)
Insert(x, k) ==
  /\ \A y \in Trees \ {x} : ~ Found(y, k)
  /\ IF Found(x, k)
     THEN result' = "FAILURE" /\ UNCHANGED tree
     ELSE \E g \in 1 .. MaxGrade :
            tree' = [tree EXCEPT ![x] = InsertInto(@, k, g)] /\ result' = "SUCCESS"

Remove(x, k) ==
  IF ~ Found(x, k)
  THEN result' = "FAILURE" /\ UNCHANGED tree
  ELSE /\ tree' = [tree EXCEPT ![x] = RemoveFrom(@, k, @.node[k].grade)]
       /\ result' = "SUCCESS"

PromoteNode(x, k) ==
  /\ Found(x, k) /\ tree[x].node[k].grade < MaxGrade
  /\ tree' = [tree EXCEPT ![x] = Promote(@, k, 1)]
  /\ UNCHANGED result

(* AcquireCompany: the employees of two companies are disjoint.            *)
Merge(x, y) ==
  /\ x # y
  /\ DOMAIN tree[x].node \cap DOMAIN tree[y].node = {}
  /\ tree' = [tree EXCEPT ![x] = mergeTree(tree[x], tree[y]), ![y] = EmptyTree]
  /\ result' = "SUCCESS"

Next ==
  \/ \E x \in Trees, k \in Keys : Insert(x, k) \/ Remove(x, k) \/ PromoteNode(x, k)
  \/ \E x, y \in Trees : Merge(x, y)

Spec == Init /\ [][Next]_vars

-----------------------------------------------------------------------------
RECURSIVE Below(_, _)
Below(t, n) ==
  IF n = NULL THEN {}
  ELSE {n} \cup Below(t, t.node[n].left) \cup Below(t, t.node[n].right)

GradesOf(t, S) == MapThenSumSet(LAMBDA k : t.node[k].grade, S)

(* Every node knows its sons' sizes and they are the true ones: keys in    *)
(* order around it, links in both directions, height, number of nodes and  *)
(* sum of grades of everything below it, and no two sons two levels apart. *)
Augmented ==
  \A x \in Trees : LET t == tree[x] IN
    /\ DOMAIN t.node = Below(t, t.root)
    /\ t.counter = Cardinality(DOMAIN t.node)
    /\ t.root # NULL => t.node[t.root].parent = NULL
    /\ \A n \in DOMAIN t.node :
         LET left  == t.node[n].left
             right == t.node[n].right
             all   == Below(t, n)
         IN  /\ \A m \in Below(t, left) : m < n
             /\ \A m \in Below(t, right) : m > n
             /\ \A son \in {left, right} \ {NULL} : t.node[son].parent = n
             /\ t.node[n].height = adjustHeight(t, n)
             /\ getBFactor(t, n) \in -1 .. 1
             /\ t.node[n].nodes = Cardinality(all)
             /\ t.node[n].sum = GradesOf(t, all)

(* The sums read along one path are those of the employees asked for: the  *)
(* m best paid, and everyone paid from lo to hi.                           *)
QueriesAgree ==
  \A x \in Trees : LET t == tree[x] IN
    /\ \A m \in 1 .. t.counter :
         LET best == {k \in DOMAIN t.node : Cardinality({j \in DOMAIN t.node : j > k}) < m}
         IN  specialInOrder(t, t.root, <<0, 0>>, m) = <<m, GradesOf(t, best)>>
    /\ \A lo, hi \in {salary(k) : k \in Keys} : (lo <= hi /\ t.root # NULL) =>
         LET paid == {k \in DOMAIN t.node : lo <= salary(k) /\ salary(k) <= hi}
         IN  AverageBumpGradeBetweenSalary(t, lo, hi) = <<Cardinality(paid), GradesOf(t, paid)>>

Abstract == INSTANCE OrderedSets WITH sets <- [x \in Trees |-> Below(tree[x], tree[x].root)]

(* Through rotations, swaps and merges the trees keep exactly the keys     *)
(* inserted and not removed.                                               *)
ImplementsSets == Abstract!Spec
=============================================================================
