---------------------------- MODULE OrderedSets ------------------------------
(***************************************************************************)
(* What library1.cpp takes its trees for: sets of keys that are inserted   *)
(* once, removed when present and merged two by two.  result is what the   *)
(* last call returned.                                                     *)
(***************************************************************************)
EXTENDS Integers

CONSTANTS Keys, Trees

VARIABLES sets, result

vars == <<sets, result>>

Init == sets = [x \in Trees |-> {}] /\ result = "SUCCESS"

Refused == result' = "FAILURE" /\ UNCHANGED sets

Insert(x, k) ==
  IF k \in sets[x] THEN Refused
  ELSE sets' = [sets EXCEPT ![x] = @ \cup {k}] /\ result' = "SUCCESS"

Remove(x, k) ==
  IF k \notin sets[x] THEN Refused
  ELSE sets' = [sets EXCEPT ![x] = @ \ {k}] /\ result' = "SUCCESS"

Merge(x, y) ==
  /\ sets[x] \cap sets[y] = {}
  /\ sets' = [sets EXCEPT ![x] = sets[x] \cup sets[y], ![y] = {}]
  /\ result' = "SUCCESS"

Next ==
  \/ \E x \in Trees, k \in Keys : Insert(x, k) \/ Remove(x, k)
  \/ \E x, y \in Trees : x # y /\ Merge(x, y)

Spec == Init /\ [][Next]_vars
=============================================================================
