---------------------------- MODULE QueueContract ----------------------------
(***************************************************************************)
(* A request queue as a state machine over the operators of RequestQueue:  *)
(* items is the sequence of values, call the last operation with its       *)
(* argument (0 when it has none), result what it returned.                 *)
(***************************************************************************)
EXTENDS RequestQueue

CONSTANTS Values, MaxSizes

VARIABLES items, max_size, call, result, fault

vars == <<items, max_size, call, result, fault>>

(* The nodes that RequestQueue works on, without their arrival times.      *)
nodes == [i \in 1 .. Len(items) |-> [value |-> items[i]]]

ValuesOf(q) == [i \in 1 .. Len(q) |-> q[i].value]

Init ==
  /\ items = << >>
  /\ max_size \in MaxSizes
  /\ call = <<"queueCreate", 0>>
  /\ result = 0
  /\ fault = FALSE

Call(operation, argument, q, r) ==
  /\ ~ fault
  /\ call' = <<operation, argument>>
  /\ items' = ValuesOf(q)
  /\ result' = r
  /\ UNCHANGED <<max_size, fault>>

Enqueue(v) == Call("enqueue", v, enqueue(nodes, max_size, [value |-> v]), 0)

Dequeue == Call("dequeue", 0, dequeue(nodes), dequeueValue(nodes))

DequeueByIndex(index) ==
  /\ ~ indexFaults(nodes, max_size, index)
  /\ Call("dequeueByIndex", index, dequeueByIndex(nodes, max_size, index),
          IF indexRejected(nodes, max_size, index) THEN -1 ELSE items[index + 1])

DequeueFaults(index) ==
  /\ ~ fault
  /\ indexFaults(nodes, max_size, index)
  /\ fault' = TRUE
  /\ call' = <<"dequeueByIndex", index>>
  /\ UNCHANGED <<items, max_size, result>>

QueueFindIndex(v) == Call("queueFindIndex", v, nodes, queueFindIndex(nodes, v))

Next ==
  \/ \E v \in Values : Enqueue(v) \/ QueueFindIndex(v)
  \/ Dequeue
  \/ \E index \in -1 .. max_size : DequeueByIndex(index) \/ DequeueFaults(index)

Spec == Init /\ [][Next]_vars
=============================================================================
