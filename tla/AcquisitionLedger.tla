-------------------------- MODULE AcquisitionLedger ---------------------------
(***************************************************************************)
(* What the union-find of the companies complex promises (CompanyValue,    *)
(* AcquireCompany): every company has a value, companies form groups, and  *)
(* who acquires a group adds factor times the group's worth to the value   *)
(* of each company of its own group.                                       *)
(***************************************************************************)
EXTENDS Integers

CONSTANTS K,       \* companies are 1 .. K
          Factors

Ids == 1 .. K

VARIABLES value,  \* [Ids -> Int]
          worth,  \* [Ids -> Int], of the group a company is in
          group   \* [Ids -> SUBSET Ids]

vars == <<value, worth, group>>

Init ==
  /\ value = [c \in Ids |-> c]
  /\ worth = [c \in Ids |-> c]
  /\ group = [c \in Ids |-> {c}]

Acquire(a, t, factor) ==
  /\ group[a] # group[t]
  /\ value' = [c \in Ids |-> IF c \in group[a] THEN value[c] + factor * worth[t] ELSE value[c]]
  /\ LET all == group[a] \cup group[t]
     IN  /\ group' = [c \in Ids |-> IF c \in all THEN all ELSE group[c]]
         /\ worth' = [c \in Ids |-> IF c \in all THEN worth[a] + factor * worth[t] ELSE worth[c]]

Next == \E a, t \in Ids, factor \in Factors : Acquire(a, t, factor)

Spec == Init /\ [][Next]_vars
=============================================================================
