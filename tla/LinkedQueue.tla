----------------------------- MODULE LinkedQueue -----------------------------
(***************************************************************************)
(* queue.c as it is written: a singly linked list of malloc'ed nodes with  *)
(* head, tail and size, for one queue whose callers hold the server's      *)
(* mutex, so operations do not overlap.  Addresses are reused after free;  *)
(* reading NULL or a freed node ends the process (fault).                  *)
(* Module QueueContract is the sequence that module RequestQueue, and the  *)
(* server above it, take a queue for.                                      *)
(***************************************************************************)
EXTENDS Integers, Sequences, FiniteSets

CONSTANTS Nodes,     \* addresses malloc can return
          NULL,
          Values,    \* descriptors
          MaxSizes   \* max_size arguments of queueCreate

LinkedQueueAssumption ==
  /\ NULL \notin Nodes /\ "fault" \notin Nodes \cup {NULL}
  /\ -1 \notin Values
  /\ MaxSizes \subseteq Nat

VARIABLES max_size, size, head, tail,
          value, next,   \* the fields of the allocated nodes, by address
          call, result,  \* the last operation, and what it returned
          fault

fields == <<value, next>>
vars   == <<max_size, size, head, tail, fields, call, result, fault>>

Allocated == DOMAIN next

queueEmpty == size = 0
queueFull  == size = max_size

(* queueCreate.                                                            *)
Init ==
  /\ max_size \in MaxSizes
  /\ size = 0
  /\ head = NULL
  /\ tail = NULL
  /\ value = << >>
  /\ next = << >>
  /\ call = <<"queueCreate", 0>>
  /\ result = 0
  /\ fault = FALSE

Without(f, n) == [m \in DOMAIN f \ {n} |-> f[m]]

With(f, n, x) == [m \in DOMAIN f \cup {n} |-> IF m = n THEN x ELSE f[m]]

(* The node reached after so many next pointers from head, NULL included;  *)
(* following NULL or a freed node is a fault, written here as "fault".     *)
Reached ==
  LET walk[i \in 0 .. max_size + 1] ==
        IF i = 0 THEN head
        ELSE IF walk[i - 1] \in Allocated THEN next[walk[i - 1]] ELSE "fault"
  IN  walk

-----------------------------------------------------------------------------
(* enqueue returns early, without a word, when the queue is full.  The     *)
(* malloc is inside nodeCreate.                                            *)
Enqueue(v) ==
  /\ ~ fault
  /\ IF queueFull
     THEN UNCHANGED <<size, head, tail, fields>>
     ELSE \E n \in Nodes \ Allocated :
            /\ value' = With(value, n, v)
            /\ next' = IF queueEmpty THEN With(next, n, NULL)
                       ELSE [With(next, n, NULL) EXCEPT ![tail] = n]
            /\ head' = IF queueEmpty THEN n ELSE head
            /\ tail' = n
            /\ size' = size + 1
  /\ call' = <<"enqueue", v>>
  /\ result' = 0
  /\ UNCHANGED <<max_size, fault>>

RemoveHead ==
  /\ head' = next[head]
  /\ tail' = IF next[head] = NULL THEN NULL ELSE tail
  /\ size' = size - 1
  /\ value' = Without(value, head)
  /\ next' = Without(next, head)
  /\ result' = value[head]

Return(x) == result' = x /\ UNCHANGED <<size, head, tail, fields>>

Dequeue ==
  /\ ~ fault
  /\ IF queueEmpty THEN Return(-1) ELSE RemoveHead
  /\ call' = <<"dequeue", 0>>
  /\ UNCHANGED <<max_size, fault>>

(* dequeueByIndex past its early returns and past index = 0: the node to   *)
(* free, the one before it, the tail moved back when the size says so.     *)
Unlink(index) ==
  LET node == Reached[index]
      prev == Reached[index - 1]
  IN  /\ value' = Without(value, node)
      /\ next' = Without([next EXCEPT ![prev] = next[node]], node)
      /\ tail' = IF index = size - 1 THEN prev ELSE tail
      /\ size' = size - 1
      /\ result' = value[node]
      /\ UNCHANGED head

DequeueByIndex(index) ==
  /\ ~ fault
  /\ IF queueEmpty \/ index < 0 \/ index >= max_size
     THEN Return(-1) /\ UNCHANGED fault
     ELSE IF index = 0
     THEN RemoveHead /\ UNCHANGED fault
     ELSE IF Reached[index] \in Allocated
     THEN Unlink(index) /\ UNCHANGED fault
     ELSE fault' = TRUE /\ UNCHANGED <<size, head, tail, fields, result>>
  /\ call' = <<"dequeueByIndex", index>>
  /\ UNCHANGED max_size

(* The first index whose node has the value, or the index at which the     *)
(* walk meets NULL; the bound check inside the loop would return -1.       *)
QueueFindIndex(v) ==
  LET stops == {i \in 0 .. max_size :
                  Reached[i] = NULL \/ i >= size \/ value[Reached[i]] = v}
      first == CHOOSE i \in stops : \A j \in stops : i <= j
  IN  /\ ~ fault
      /\ result' = IF Reached[first] # NULL /\ value[Reached[first]] # v
                   THEN -1 ELSE first
      /\ call' = <<"queueFindIndex", v>>
      /\ UNCHANGED <<max_size, size, head, tail, fields, fault>>

Next ==
  \/ \E v \in Values : Enqueue(v) \/ QueueFindIndex(v)
  \/ Dequeue
  \/ \E index \in -1 .. max_size : DequeueByIndex(index)

Spec == Init /\ [][Next]_vars

-----------------------------------------------------------------------------
(* The values the list holds, from head on.                                *)
Contents == [i \in 1 .. size |-> value[Reached[i - 1]]]

(* The list is well formed: size nodes hang from head, all distinct, the   *)
(* last of them is tail and has no next.                                   *)
ListShape ==
  /\ \A i \in 0 .. size - 1 : Reached[i] \in Allocated
  /\ Reached[size] = NULL
  /\ Cardinality({Reached[i] : i \in 0 .. size - 1}) = size
  /\ tail = IF size = 0 THEN NULL ELSE Reached[size - 1]

(* Every malloc'ed node is on the list: removal frees what it unlinks.     *)
NoNodeLeaks == Allocated = {Reached[i] : i \in 0 .. size - 1}

Abstract == INSTANCE QueueContract WITH items <- Contents

(* The linked list behaves like the sequence of RequestQueue: what each    *)
(* operation leaves, what it returns and when it faults.                   *)
ImplementsSequence == Abstract!Spec
=============================================================================
