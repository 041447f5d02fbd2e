------------------------------ MODULE UnionFind ------------------------------
(***************************************************************************)
(* uf.h and unode.h of the companies complex: acquisitions as a union-find *)
(* forest in which a company's value is the sum of the values on its way   *)
(* to the root, so that one union changes the value of a whole group.      *)
(* Unions are by size, find_assist shortens the path it walked.  Values    *)
(* are doubles in the code and integers here; a parent of 0 is none.       *)
(***************************************************************************)
EXTENDS Integers, Sequences, SequencesExt, FiniteSets

CONSTANTS K,       \* number of companies, the ids being 1 .. K
          Factors  \* factors of acquisitions

ASSUME UnionFindAssumption == K \in Nat /\ Factors \subseteq Nat \ {0}

VARIABLE arr

Ids == 1 .. K

Unodes == [i \in Ids |-> [parent |-> 0, value |-> i, union_value |-> i, sub_nodes |-> 1]]

is_root(u, i) == u[i].parent = 0

-----------------------------------------------------------------------------
(* The nodes from i to its root.                                           *)
Path(u, i) ==
  LET path[n \in Ids] == IF is_root(u, n) THEN <<n>> ELSE <<n>> \o path[u[n].parent]
  IN  path[i]

Root(u, i) ==
  LET root[n \in Ids] == IF is_root(u, n) THEN n ELSE root[u[n].parent]
  IN  root[i]

(* The values on the way from i to its root, the root's left out.          *)
Offset(u, i) ==
  LET sum[n \in Ids] == IF is_root(u, n) THEN 0 ELSE u[n].value + sum[u[n].parent]
  IN  sum[i]

CompanyValue(u, i) == Offset(u, i) + u[Root(u, i)].value

(* Mutation: a node that moves to the root keeps the value it had.         *)
shrinkKeepsValue(u, i) ==
  [n \in Ids |-> IF n \in ToSet(Front(Path(u, i))) THEN [u[n] EXCEPT !.parent = Root(u, i)]
                 ELSE u[n]]

(* Mutation: a node goes on counting those that no longer hang from it.    *)
shrinkKeepsSizes(u, i) ==
  [n \in Ids |-> IF n \in ToSet(Front(Path(u, i)))
                 THEN [u[n] EXCEPT !.parent = Root(u, i), !.value = Offset(u, n)]
                 ELSE u[n]]

(* Every node of the path but the root becomes a son of the root, takes    *)
(* the sum of the values it passes and loses the nodes below the one that  *)
(* came before it.                                                         *)
shrink(u, i) ==
  LET path    == Path(u, i)
      Before(n) == LET j == CHOOSE j \in DOMAIN path : path[j] = n
                   IN  IF j = 1 THEN 0 ELSE u[path[j - 1]].sub_nodes
  IN  [n \in Ids |->
         IF n \in ToSet(Front(path))
         THEN [u[n] EXCEPT !.parent = Last(path), !.value = Offset(u, n),
                           !.sub_nodes = @ - Before(n)]
         ELSE u[n]]

find_assist(u, i) == shrink(u, i)

mergeTrees(u, root, son) ==
  [u EXCEPT ![root].sub_nodes = @ + u[son].sub_nodes, ![son].parent = root]

(* first acquires second, both of them roots.  The second branch hangs the *)
(* acquirer below what it acquires.                                        *)
UnionRoots(u, first, second, factor) ==
  LET gain == factor * u[second].union_value
      all  == u[first].union_value + gain
  IN  IF u[first].sub_nodes >= u[second].sub_nodes
      THEN [mergeTrees(u, first, second) EXCEPT
              ![first].value = @ + gain,
              ![second].value = @ - (u[first].value + gain),
              ![first].union_value = all]
      ELSE [mergeTrees(u, second, first) EXCEPT
              ![first].value = @ + gain - u[second].value,
              ![second].union_value = all]

(* Union finds both companies first and refuses one group (its return 3).  *)
Union(u, a, t, factor) ==
  LET found == find_assist(find_assist(u, a), t)
  IN  IF Root(u, a) = Root(u, t) THEN found
      ELSE UnionRoots(found, Root(u, a), Root(u, t), factor)

-----------------------------------------------------------------------------
Init == arr = Unodes

(* What AddEmployee and the queries do to the forest.                      *)
Find(i) == arr' = find_assist(arr, i)

Acquire(a, t, factor) == a # t /\ arr' = Union(arr, a, t, factor)

Next ==
  \/ \E i \in Ids : Find(i)
  \/ \E a, t \in Ids, factor \in Factors : Acquire(a, t, factor)

Spec == Init /\ [][Next]_arr

-----------------------------------------------------------------------------
Group(u, r) == {i \in Ids : Root(u, i) = r}

(* Unions by size keep working after paths are shortened: a root counts    *)
(* its group, every other node what still hangs from it, and no path is    *)
(* longer than the logarithm of the group.                                 *)
SizesAreRight ==
  \A i \in Ids :
    /\ arr[i].sub_nodes = Cardinality({n \in Ids : i \in ToSet(Path(arr, n))})
    /\ 2 ^ (Len(Path(arr, i)) - 1) <= arr[Root(arr, i)].sub_nodes

Ledger == INSTANCE AcquisitionLedger WITH
  value <- [i \in Ids |-> CompanyValue(arr, i)],
  worth <- [i \in Ids |-> arr[Root(arr, i)].union_value],
  group <- [i \in Ids |-> Group(arr, Root(arr, i))]

(* Whichever of the two roots wins, and whatever paths were shortened in   *)
(* between, the sums along the paths are the values acquisitions promise.  *)
ImplementsLedger == Ledger!Spec
=============================================================================
