------------------------------ MODULE AvlTree --------------------------------
(***************************************************************************)
(* avl.h of the company manager, pointer by pointer: the binary search     *)
(* trees in which library1.cpp keeps companies and employees.  A tree is   *)
(* its root, its counter, its max_node and the nodes it owns, each with    *)
(* its sons, its parent and the height stored in it.  A key is in at most  *)
(* one node of a tree, so a node is named by its key; the data hanging     *)
(* from a node never steers the tree and is left out, as are failed        *)
(* allocations (operator new throws).                                      *)
(* deleteN computes heights it does not store: stored heights go stale     *)
(* after a removal, and balance works with stale ones.                     *)
(***************************************************************************)
EXTENDS Integers, Sequences, FiniteSets

CONSTANTS Keys,   \* keys, integers
          Trees,  \* the trees of the program
          NULL

AvlAssumption == Keys \subseteq Int /\ NULL \notin Keys

VARIABLES tree,   \* [Trees -> tree]
          result  \* what the last call returned

vars == <<tree, result>>

-----------------------------------------------------------------------------
EmptyTree == [root |-> NULL, counter |-> 0, max |-> NULL, node |-> << >>]

Larger(a, b) == IF a > b THEN a ELSE b

Other(side) == IF side = "left" THEN "right" ELSE "left"

(* adjustHeight returns a height; only some callers store it.              *)
adjustHeight(t, n) ==
  LET Side(s) == IF s = NULL THEN 0 ELSE 1 + t.node[s].height
  IN  IF n = NULL THEN 0
      ELSE Larger(Side(t.node[n].left), Side(t.node[n].right))

(* The sons' heights are computed again from the grandsons' stored ones.   *)
getBFactor(t, n) ==
  LET Side(s) == IF s = NULL THEN 0 ELSE 1 + adjustHeight(t, s)
  IN  IF n = NULL THEN 0 ELSE Side(t.node[n].left) - Side(t.node[n].right)

Set(t, n, field, x) ==
  IF n = NULL THEN t ELSE [t EXCEPT !.node[n][field] = x]

StoreHeight(t, n) == Set(t, n, "height", adjustHeight(t, n))

(* The node's parent gets another son in its place; a root gets replaced.  *)
Replace(t, n, parent, side, son) ==
  IF parent = NULL THEN Set([t EXCEPT !.root = son], son, "parent", NULL)
  ELSE Set(Set(t, parent, side, son), son, "parent", parent)

Drop(t, n) == [t EXCEPT !.node = [m \in DOMAIN t.node \ {n} |-> t.node[m]]]

(* rightRotate for side = "left", leftRotate for side = "right": the son   *)
(* on that side takes the node's place.                                    *)
Rotate(t, n, side) ==
  LET parent == t.node[n].parent
      son    == t.node[n][side]
      inner  == t.node[son][Other(side)]
      place  == IF parent # NULL /\ t.node[parent].left # n
                THEN "right" ELSE "left"
      linked == Set(Set(t, n, side, inner), son, Other(side), n)
      sized  == StoreHeight(StoreHeight(linked, n), son)
      placed == Replace(Set(sized, inner, "parent", n), n, parent, place, son)
  IN  Set(StoreHeight(placed, parent), n, "parent", son)

balance(t, n) ==
  LET factor == getBFactor(t, n)
      Lift(side, inward) ==
        Rotate(IF inward THEN Rotate(t, t.node[n][side], Other(side)) ELSE t,
               n, side)
  IN  IF factor > 1
      THEN Lift("left", getBFactor(t, t.node[n].left) < 0)
      ELSE IF factor < -1
      THEN Lift("right", getBFactor(t, t.node[n].right) > 0)
      ELSE t

RECURSIVE search(_, _, _)
search(t, n, k) ==
  IF n = NULL \/ n = k THEN n
  ELSE search(t, IF n < k THEN t.node[n].right ELSE t.node[n].left, k)

RECURSIVE maxFrom(_, _)
maxFrom(t, n) == IF t.node[n].right = NULL THEN n ELSE maxFrom(t, t.node[n].right)

(* findMaxNode leaves max_node alone when there is no node.                *)
findMaxNode(t) == IF t.root = NULL THEN t ELSE [t EXCEPT !.max = maxFrom(t, t.root)]

-----------------------------------------------------------------------------
NewNode(parent) == [left |-> NULL, right |-> NULL, parent |-> parent, height |-> 0]

RECURSIVE insertN(_, _, _)
insertN(t, n, k) ==
  LET side == IF n < k THEN "right" ELSE "left"
      son  == t.node[n][side]
      hung == [Set(t, n, side, k) EXCEPT
                 !.node = [m \in DOMAIN t.node \cup {k} |->
                             IF m = k THEN NewNode(n)
                             ELSE IF m = n THEN [t.node[n] EXCEPT ![side] = k]
                             ELSE t.node[m]]]
  IN  balance(StoreHeight(IF son = NULL THEN hung ELSE insertN(t, son, k), n), n)

InsertInto(t, k) ==
  IF t.root = NULL
  THEN [root |-> k, counter |-> t.counter + 1, max |-> k,
        node |-> [m \in {k} |-> NewNode(NULL)]]
  ELSE findMaxNode(insertN([t EXCEPT !.counter = @ + 1], t.root, k))

(* A leaf is dropped, a node with one son gives it its place.  Only the    *)
(* second of them touches the parent's stored height, by one, always.      *)
Unhang(t, n, parent, side) ==
  LET son    == IF t.node[n].left = NULL THEN t.node[n].right ELSE t.node[n].left
      placed == Drop(Replace(t, n, parent, side, son), n)
      lower  == IF son = NULL THEN placed
                ELSE Set(placed, parent, "height", placed.node[parent].height - 1)
  IN  IF parent = NULL THEN placed ELSE balance(lower, parent)

RECURSIVE leftmost(_, _)
leftmost(t, n) == IF t.node[n].left = NULL THEN n ELSE leftmost(t, t.node[n].left)

(* The node and its successor change places, heights included.             *)
Swap(t, n, parent, side) ==
  LET next  == leftmost(t, t.node[n].right)
      above == t.node[next].parent
      down  == Set(Set(t, above, IF above = n THEN "right" ELSE "left", n),
                   n, "parent", above)
      up    == Replace(down, n, parent, side, next)
      left  == Set(Set(up, next, "left", up.node[n].left),
                   up.node[n].left, "parent", next)
      right == Set(Set(left, next, "right", left.node[n].right),
                   left.node[n].right, "parent", next)
      sized == Set(right, next, "height", right.node[n].height)
      below == t.node[next].right
      own   == Set(Set(sized, n, "right", below), below, "parent", n)
  IN  Set(Set(own, n, "left", NULL), n, "height", t.node[next].height)

RECURSIVE deleteN(_, _, _, _, _)
deleteN(t, n, parent, k, side) ==
  IF n = NULL THEN t
  ELSE IF n < k THEN balance(deleteN(t, t.node[n].right, n, k, "right"), n)
  ELSE IF n > k THEN balance(deleteN(t, t.node[n].left, n, k, "left"), n)
  ELSE IF NULL \in {t.node[n].left, t.node[n].right}
  THEN Unhang(t, n, parent, side)
  ELSE LET next    == leftmost(t, t.node[n].right)
           swapped == Swap(t, n, parent, side)
       IN  balance(deleteN(swapped, swapped.node[next].right, next, k, "right"), next)

(* Mutation: the greatest key is remembered after it left.                 *)
RemoveKeepsMax(t, k) ==
  [deleteN(t, t.root, NULL, k, "root") EXCEPT !.counter = t.counter - 1]

RemoveFrom(t, k) ==
  LET left == [deleteN(t, t.root, NULL, k, "root") EXCEPT !.counter = t.counter - 1]
  IN  IF t.max = k THEN findMaxNode(left) ELSE left

-----------------------------------------------------------------------------
(* inOrderAssist: at most len keys, in the order of the tree.              *)
RECURSIVE inOrder(_, _, _, _)
inOrder(t, n, seen, len) ==
  IF n = NULL \/ Len(seen) >= len THEN seen
  ELSE LET before == inOrder(t, t.node[n].left, seen, len)
       IN  IF Len(before) >= len THEN before
           ELSE inOrder(t, t.node[n].right, Append(before, n), len)

RECURSIVE mergeKeys(_, _)
mergeKeys(a, b) ==
  IF a = << >> THEN b
  ELSE IF b = << >> THEN a
  ELSE IF Head(a) < Head(b) THEN <<Head(a)>> \o mergeKeys(Tail(a), b)
  ELSE <<Head(b)>> \o mergeKeys(a, Tail(b))

(* The middle key is the root; the calls of balance find nothing to do, as *)
(* the halves differ by one key at most and no height is stored yet.       *)
RECURSIVE arrayToTree(_, _, _, _)
arrayToTree(keys, start, end, parent) ==
  IF start > end THEN [root |-> NULL, node |-> << >>]
  ELSE LET mid   == (start + end) \div 2
           left  == arrayToTree(keys, start, mid - 1, keys[mid])
           right == arrayToTree(keys, mid + 1, end, keys[mid])
           lh    == IF left.root = NULL THEN 0 ELSE 1 + left.node[left.root].height
           rh    == IF right.root = NULL THEN 0 ELSE 1 + right.node[right.root].height
           top   == [left |-> left.root, right |-> right.root,
                     parent |-> parent, height |-> Larger(lh, rh)]
       IN  [root |-> keys[mid],
            node |-> [m \in {keys[mid]} \cup DOMAIN left.node \cup DOMAIN right.node |->
                        IF m = keys[mid] THEN top
                        ELSE IF m \in DOMAIN left.node THEN left.node[m]
                        ELSE right.node[m]]]

(* inOrderAssist of both trees, the merge of the two arrays, the tree made *)
(* of the result and its heights (treeHeight).                             *)
mergeTree(t1, t2) ==
  LET keys == mergeKeys(inOrder(t1, t1.root, << >>, t1.counter),
                        inOrder(t2, t2.root, << >>, t2.counter))
      both == arrayToTree(keys, 1, t1.counter + t2.counter, NULL)
  IN  findMaxNode([root |-> both.root, counter |-> t1.counter + t2.counter,
                   max |-> NULL, node |-> both.node])

(* countCondNodes: the keys from lo to hi below a node.                    *)
RECURSIVE countCondNodes(_, _, _, _)
countCondNodes(t, n, lo, hi) ==
  IF n = NULL THEN 0
  ELSE IF n = lo /\ n = hi THEN 1
  ELSE IF n < lo THEN countCondNodes(t, t.node[n].right, lo, hi)
  ELSE IF n > hi THEN countCondNodes(t, t.node[n].left, lo, hi)
  ELSE 1 + countCondNodes(t, t.node[n].left, lo, hi)
         + countCondNodes(t, t.node[n].right, lo, hi)

(* specialCondNodes: those keys, a node before its right and left sons.    *)
RECURSIVE specialCondNodes(_, _, _, _, _, _)
specialCondNodes(t, n, lo, hi, seen, len) ==
  IF n = NULL \/ Len(seen) >= len THEN seen
  ELSE IF n = lo /\ n = hi THEN Append(seen, n)
  ELSE IF n < lo THEN specialCondNodes(t, t.node[n].right, lo, hi, seen, len)
  ELSE IF n > hi THEN specialCondNodes(t, t.node[n].left, lo, hi, seen, len)
  ELSE specialCondNodes(t, t.node[n].left, lo, hi,
         specialCondNodes(t, t.node[n].right, lo, hi, Append(seen, n), len), len)

-----------------------------------------------------------------------------
Init == tree = [x \in Trees |-> EmptyTree] /\ result = "SUCCESS"

Found(x, k) == search(tree[x], tree[x].root, k) # NULL

(* As library1.cpp uses the trees that may be merged: an employee is in one  *)
(* company, so that no key is in two of them.                              *)
Insert(x, k) ==
  /\ \A y \in Trees \ {x} : ~ Found(y, k)
  /\ IF Found(x, k)
     THEN result' = "FAILURE" /\ UNCHANGED tree
     ELSE tree' = [tree EXCEPT ![x] = InsertInto(@, k)] /\ result' = "SUCCESS"

Remove(x, k) ==
  IF ~ Found(x, k)
  THEN result' = "FAILURE" /\ UNCHANGED tree
  ELSE tree' = [tree EXCEPT ![x] = RemoveFrom(@, k)] /\ result' = "SUCCESS"

(* As mergeCompanies uses it: the keys are disjoint (an employee is in one *)
(* company), the merged tree replaces the first, the second is deleted.    *)
Merge(x, y) ==
  /\ x # y
  /\ DOMAIN tree[x].node \cap DOMAIN tree[y].node = {}
  /\ tree' = [tree EXCEPT ![x] = mergeTree(tree[x], tree[y]), ![y] = EmptyTree]
  /\ result' = "SUCCESS"

Next ==
  \/ \E x \in Trees, k \in Keys : Insert(x, k) \/ Remove(x, k)
  \/ \E x, y \in Trees : Merge(x, y)

Spec == Init /\ [][Next]_vars

-----------------------------------------------------------------------------
RECURSIVE Below(_, _)
Below(t, n) ==
  IF n = NULL THEN {}
  ELSE {n} \cup Below(t, t.node[n].left) \cup Below(t, t.node[n].right)

RECURSIVE TrueHeight(_, _)
TrueHeight(t, n) ==
  IF n = NULL THEN -1
  ELSE 1 + Larger(TrueHeight(t, t.node[n].left), TrueHeight(t, t.node[n].right))

(* The sons of every node point back to it, every node hangs from the      *)
(* root, and max_node is the greatest key of a tree that has one.          *)
WellLinked ==
  \A x \in Trees : LET t == tree[x] IN
    /\ DOMAIN t.node = Below(t, t.root)
    /\ t.counter = Cardinality(DOMAIN t.node)
    /\ t.root # NULL => t.node[t.root].parent = NULL
    /\ \A n \in DOMAIN t.node : \A son \in {t.node[n].left, t.node[n].right} \ {NULL} :
         t.node[son].parent = n
    /\ t.root # NULL => /\ t.max \in DOMAIN t.node
                        /\ \A n \in DOMAIN t.node : n <= t.max

(* Every query answers from the whole tree: the sorted prefix, the number  *)
(* of keys in a range and the keys themselves, within the limit given.     *)
QueriesAgree ==
  \A x \in Trees : LET t == tree[x] IN
    /\ \A len \in 0 .. t.counter :
         LET seen == inOrder(t, t.root, << >>, len)
         IN  /\ Len(seen) = len
             /\ \A i \in 1 .. len : Cardinality({n \in DOMAIN t.node : n < seen[i]}) = i - 1
    /\ \A lo, hi \in Keys : lo <= hi =>
         LET in == {n \in DOMAIN t.node : lo <= n /\ n <= hi}
             c  == countCondNodes(t, t.root, lo, hi)
             s  == specialCondNodes(t, t.root, lo, hi, << >>, c)
         IN  c = Cardinality(in) /\ Len(s) = c /\ {s[i] : i \in 1 .. c} = in

(* The trees behave like sets of keys: what each call leaves and returns.  *)
Abstract == INSTANCE OrderedSets WITH sets <- [x \in Trees |-> Below(tree[x], tree[x].root)]

ImplementsSets == Abstract!Spec

(* The height of an AVL tree: sons' heights differ by one at most.         *)
Balanced ==
  \A x \in Trees : LET t == tree[x] IN \A n \in DOMAIN t.node :
    TrueHeight(t, t.node[n].left) - TrueHeight(t, t.node[n].right) \in -1 .. 1
=============================================================================
