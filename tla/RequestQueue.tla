---------------------------- MODULE RequestQueue ----------------------------
(***************************************************************************)
(* The request queue of the multi-threaded web server (queue.c), as the    *)
(* operators its two callers, main and thread_function, apply to a queue.  *)
(*                                                                         *)
(* A queue is the sequence of its nodes from head to tail; a node is the   *)
(* record [value |-> descriptor, arrival_time |-> time]; the size field is *)
(* Len.  That the linked list of queue.c behaves like this sequence is     *)
(* what module LinkedQueue checks.                                         *)
(***************************************************************************)
EXTENDS Integers, Sequences, SequencesExt

queueCurrSize(q) == Len(q)

queueEmpty(q) == queueCurrSize(q) = 0

queueFull(q, max_size) == queueCurrSize(q) = max_size

(* A full queue drops the new node without telling its caller.             *)
enqueue(q, max_size, node) ==
  IF queueFull(q, max_size) THEN q ELSE Append(q, node)

(* What dequeue leaves in the queue, and the node it takes off (its caller *)
(* reads the value; an empty queue gives -1 and stays as it is).           *)
dequeue(q) == IF queueEmpty(q) THEN q ELSE Tail(q)

dequeueValue(q) == IF queueEmpty(q) THEN -1 ELSE Head(q).value

(* Mutation: the index counts from 1.                                      *)
queueFindIndexFromOne(q, value) ==
  LET found == SelectInSeq(q, LAMBDA node : node.value = value)
  IN  IF found = 0 THEN Len(q) ELSE found

(* Indices count from 0.  A value that is not in the queue gives the index *)
(* one past the end: the loop leaves at itr == NULL before its own bound   *)
(* check can return -1.                                                    *)
queueFindIndex(q, value) ==
  LET found == SelectInSeq(q, LAMBDA node : node.value = value)
  IN  IF found = 0 THEN Len(q) ELSE found - 1

(* The early returns of dequeueByIndex: nothing is removed.                *)
indexRejected(q, max_size, index) ==
  queueEmpty(q) \/ index < 0 \/ index >= max_size

(* The index is tested against max_size, not against the size: an index    *)
(* from the size up to max_size - 1 walks off the list and dereferences    *)
(* NULL.                                                                   *)
indexFaults(q, max_size, index) ==
  ~ indexRejected(q, max_size, index) /\ index >= Len(q)

dequeueByIndex(q, max_size, index) ==
  IF indexRejected(q, max_size, index) THEN q ELSE RemoveAt(q, index + 1)
=============================================================================
