----------------------------- MODULE HashTable -------------------------------
(***************************************************************************)
(* hashTable.h of the companies complex: chained tables of employees, one  *)
(* for all of them and one per company, that double before they are full   *)
(* and are copied into half their size when half empty.  Keys are the      *)
(* employees' ids; what they lead to never steers a table and is left out, *)
(* as are failed allocations.                                              *)
(***************************************************************************)
EXTENDS Integers, Sequences, SequencesExt, FiniteSets

CONSTANTS Keys,
          Tables,
          FIRST_SIZE

MULTIPLY == 2

TableAssumption ==
  Keys \subseteq Nat /\ FIRST_SIZE \in Nat /\ FIRST_SIZE > MULTIPLY /\ FIRST_SIZE % MULTIPLY = 0

VARIABLES table,  \* [Tables -> [size, counter, arr]]
          result  \* what the last call returned

vars == <<table, result>>

-----------------------------------------------------------------------------
createArray(size) == [i \in 0 .. size - 1 |-> << >>]

Empty(size) == [size |-> size, counter |-> 0, arr |-> createArray(size)]

hashFunction(t, k) == k % t.size

Bucket(t, k) == t.arr[hashFunction(t, k)]

find(t, k) == Contains(Bucket(t, k), k)

(* The items in the order in which copyArray and mergeHTs meet them.       *)
Items(t) ==
  LET from[i \in 0 .. t.size] == IF i = t.size THEN << >> ELSE t.arr[i] \o from[i + 1]
  IN  from[0]

(* AddNode looks for the key along the bucket and hangs a new one behind.  *)
AddNode(t, k) ==
  IF find(t, k) THEN t
  ELSE [t EXCEPT !.arr[hashFunction(t, k)] = Append(@, k), !.counter = @ + 1]

RECURSIVE insert(_, _)

copyArray(t, keys) ==
  LET copied[n \in 0 .. Len(keys)] == IF n = 0 THEN t ELSE insert(copied[n - 1], keys[n])
  IN  copied[Len(keys)]

(* Mutation: the items keep the place they had in the smaller table.       *)
reHashKeepingPlaces(t) ==
  IF t.counter + 1 = t.size
  THEN [t EXCEPT !.size = @ * MULTIPLY,
                 !.arr = [i \in 0 .. t.size * MULTIPLY - 1 |->
                            IF i \in DOMAIN t.arr THEN t.arr[i] ELSE << >>]]
  ELSE t

(* Expand, else shrink; copying counts the items again, and may itself     *)
(* expand the new array.                                                   *)
reHash(t) ==
  IF t.counter + 1 = t.size
  THEN copyArray(Empty(t.size * MULTIPLY), Items(t))
  ELSE IF t.counter = t.size \div MULTIPLY
  THEN copyArray(Empty(t.size \div MULTIPLY), Items(t))
  ELSE t

(* A table about to be full is copied first, even for a key it has.        *)
insert(t, k) == AddNode(IF t.counter + 1 = t.size THEN reHash(t) ELSE t, k)

remove(t, k) ==
  reHash([t EXCEPT !.arr[hashFunction(t, k)] = SelectSeq(@, LAMBDA x : x # k),
                   !.counter = @ - 1])

mergeHTs(t, target) == copyArray(t, Items(target))

-----------------------------------------------------------------------------
Init == table = [x \in Tables |-> Empty(FIRST_SIZE)] /\ result = "SUCCESS"

(* An employee is in one company, so that no key is in two of the tables   *)
(* that may be merged.                                                     *)
InsertCall(x, k) ==
  /\ \A y \in Tables \ {x} : ~ find(table[y], k)
  /\ table' = [table EXCEPT ![x] = insert(@, k)]
  /\ result' = IF find(table[x], k) THEN "FAILURE" ELSE "SUCCESS"

RemoveCall(x, k) ==
  IF find(table[x], k)
  THEN table' = [table EXCEPT ![x] = remove(@, k)] /\ result' = "SUCCESS"
  ELSE result' = "FAILURE" /\ UNCHANGED table

(* As AcquireCompany does: the employees of two companies are disjoint, an *)
(* empty target is left alone, a merged one deleted (and, as it is never   *)
(* used again, here a new table).                                          *)
MergeCall(x, y) ==
  /\ x # y /\ table[y].counter > 0
  /\ ToSet(Items(table[x])) \cap ToSet(Items(table[y])) = {}
  /\ table' = [table EXCEPT ![x] = mergeHTs(@, table[y]), ![y] = Empty(FIRST_SIZE)]
  /\ result' = "SUCCESS"

Next ==
  \/ \E x \in Tables, k \in Keys : InsertCall(x, k) \/ RemoveCall(x, k)
  \/ \E x, y \in Tables : MergeCall(x, y)

Spec == Init /\ [][Next]_vars

-----------------------------------------------------------------------------
(* After every growth, copy and merge a key is in the one bucket find      *)
(* looks into, once; the counter counts the keys and leaves one place      *)
(* free.                                                                   *)
EveryKeyIsFound ==
  \A x \in Tables : LET t == table[x] IN
    /\ DOMAIN t.arr = 0 .. t.size - 1
    /\ \A i \in DOMAIN t.arr : \A j \in DOMAIN t.arr[i] : hashFunction(t, t.arr[i][j]) = i
    /\ IsInjective(Items(t))
    /\ t.counter = Len(Items(t)) /\ t.counter < t.size

Abstract == INSTANCE OrderedSets WITH
  Trees <- Tables, sets <- [x \in Tables |-> ToSet(Items(table[x]))]

(* The tables hold exactly the keys inserted and not removed.              *)
ImplementsSets == Abstract!Spec
=============================================================================
