--------------------------- MODULE WebServerProofs ---------------------------
(***************************************************************************)
(* Invariants of WebServer and its refinement of ServerContract, proved    *)
(* for any pool of workers, any set of descriptors, any queue sizes and    *)
(* any bounds on the clients.                                              *)
(***************************************************************************)
EXTENDS WebServerRefinement, FiniteSetTheorems, SequenceLemmas

-----------------------------------------------------------------------------
(* What the operators of RequestQueue return, for every queue.             *)

(* queue.c:133-144: the index of the first node with the value, counted    *)
(* from 0, and the size of the queue when there is none.                   *)
LEMMA FindIndexProperties ==
  ASSUME NEW S, NEW q \in Seq(S), NEW v
  PROVE  /\ queueFindIndex(q, v) \in 0 .. Len(q)
         /\ queueFindIndex(q, v) < Len(q) => q[queueFindIndex(q, v) + 1].value = v
         /\ queueFindIndex(q, v) = Len(q) => \A i \in 1 .. Len(q) : q[i].value # v
<1> DEFINE I == {i \in 1 .. Len(q) : q[i].value = v}
<1>0. Len(q) \in Nat
  BY LenProperties
<1>1. queueFindIndex(q, v) = IF (IF I # {} THEN Min(I) ELSE 0) = 0 THEN Len(q)
                             ELSE (IF I # {} THEN Min(I) ELSE 0) - 1
  BY Zenon DEF queueFindIndex, SelectInSeq
<1>2. CASE I = {}
  BY <1>0, <1>1, <1>2
<1>3. CASE I # {}
  <2>1. Min(I) \in I
    <3>1. I \subseteq Nat
      BY <1>0
    <3> HIDE DEF I
    <3>2. QED
      BY <1>3, <3>1, MinProperties
  <2>2. /\ queueFindIndex(q, v) = Min(I) - 1
        /\ Min(I) \in 1 .. Len(q)
        /\ q[Min(I)].value = v
    BY <1>0, <1>1, <1>3, <2>1
  <2>3. queueFindIndex(q, v) + 1 = Min(I)
    BY <1>0, <2>2
  <2>4. queueFindIndex(q, v) \in 0 .. Len(q) - 1
    BY <1>0, <2>2
  <2>5. QED
    BY <1>0, <2>2, <2>3, <2>4
<1>4. QED
  BY <1>2, <1>3

(* queue.c:39-53: a full queue stays as it is, another one grows by one.   *)
LEMMA EnqueueProperties ==
  ASSUME NEW S, NEW q \in Seq(S), NEW node \in S, NEW max_size
  PROVE  /\ enqueue(q, max_size, node) \in Seq(S)
         /\ Len(enqueue(q, max_size, node)) =
              IF Len(q) = max_size THEN Len(q) ELSE Len(q) + 1
  BY AppendProperties DEF enqueue, queueFull, queueCurrSize

(* queue.c:55-67, for a queue that is not empty.                           *)
LEMMA DequeueProperties ==
  ASSUME NEW S, NEW q \in Seq(S), ~ queueEmpty(q)
  PROVE  /\ Len(q) \in Nat \ {0}
         /\ Head(q) \in S
         /\ Head(q) = q[1]
         /\ dequeue(q) \in Seq(S)
         /\ Len(dequeue(q)) = Len(q) - 1
         /\ \A i \in 1 .. Len(q) - 1 : dequeue(q)[i] = q[i + 1]
  BY HeadTailProperties, EmptySeq, LenProperties DEF dequeue, queueEmpty, queueCurrSize

(* queue.c:69-96: unless an early return rejects the index or the walk     *)
(* falls off the list, exactly the node at that index leaves.              *)
LEMMA DequeueByIndexProperties ==
  ASSUME NEW S, NEW q \in Seq(S), NEW max_size \in Nat, NEW index \in Int,
         ~ indexFaults(q, max_size, index)
  PROVE  /\ dequeueByIndex(q, max_size, index) \in Seq(S)
         /\ Len(dequeueByIndex(q, max_size, index)) =
              IF indexRejected(q, max_size, index) THEN Len(q) ELSE Len(q) - 1
<1>0. Len(q) \in Nat
  BY LenProperties
<1>1. CASE indexRejected(q, max_size, index)
  BY <1>1 DEF dequeueByIndex
<1>2. CASE ~ indexRejected(q, max_size, index)
  <2>1. index + 1 \in 1 .. Len(q)
    BY <1>0, <1>2 DEF indexRejected, indexFaults
  <2>2. dequeueByIndex(q, max_size, index) = RemoveAt(q, index + 1)
    BY <1>2 DEF dequeueByIndex
  <2>3. QED
    BY <1>2, <2>1, <2>2, RemoveAtProperties
<1>3. QED
  BY <1>1, <1>2

-----------------------------------------------------------------------------
(* The positions of a queue at which a value stands.                       *)
Positions(q, v) == {i \in DOMAIN q : q[i].value = v}

LEMMA PositionsFinite ==
  ASSUME NEW S, NEW q \in Seq(S), NEW v
  PROVE  /\ Positions(q, v) \in SUBSET (1 .. Len(q))
         /\ IsFiniteSet(Positions(q, v))
         /\ Cardinality(Positions(q, v)) \in Nat
<1>1. Positions(q, v) \in SUBSET (1 .. Len(q)) /\ Len(q) \in Nat
  BY LenProperties DEF Positions
<1>2. IsFiniteSet(1 .. Len(q))
  BY <1>1, FS_Interval
<1>3. QED
  BY <1>1, <1>2, FS_Subset, FS_CardinalityType

(* A node appended to a queue adds one position of its own value.          *)
LEMMA PositionsAfterAppend ==
  ASSUME NEW S, NEW q \in Seq(S), NEW node \in S, NEW v
  PROVE  Cardinality(Positions(Append(q, node), v)) =
           IF node.value = v THEN Cardinality(Positions(q, v)) + 1
           ELSE Cardinality(Positions(q, v))
<1>1. /\ Len(q) \in Nat
      /\ DOMAIN q = 1 .. Len(q)
      /\ DOMAIN Append(q, node) = 1 .. Len(q) + 1
      /\ \A i \in 1 .. Len(q) : Append(q, node)[i] = q[i]
      /\ Append(q, node)[Len(q) + 1] = node
  BY LenProperties, AppendProperties
<1>2. Len(q) + 1 \notin Positions(q, v) /\ IsFiniteSet(Positions(q, v))
  BY <1>1, PositionsFinite
<1>3. CASE node.value = v
  <2>1. Positions(Append(q, node), v) = Positions(q, v) \cup {Len(q) + 1}
    BY <1>1, <1>3 DEF Positions
  <2>2. Cardinality(Positions(q, v) \cup {Len(q) + 1}) = Cardinality(Positions(q, v)) + 1
    BY <1>2, FS_AddElement, Zenon
  <2>3. QED
    BY <1>3, <2>1, <2>2
<1>4. CASE node.value # v
  <2>1. Positions(Append(q, node), v) = Positions(q, v)
    BY <1>1, <1>4 DEF Positions
  <2>2. QED
    BY <1>4, <2>1
<1>5. QED
  BY <1>3, <1>4

(* Removing the k-th node takes away one position of its value and leaves  *)
(* as many positions as before of every other value.                       *)
LEMMA PositionsAfterRemoval ==
  ASSUME NEW S, NEW q \in Seq(S), NEW k \in 1 .. Len(q), NEW v
  PROVE  Cardinality(Positions(RemoveAt(q, k), v)) =
           IF q[k].value = v THEN Cardinality(Positions(q, v)) - 1
           ELSE Cardinality(Positions(q, v))
<1> DEFINE r   == RemoveAt(q, k)
           P   == Positions(q, v) \ {k}
           R   == Positions(r, v)
           f   == [i \in R |-> IF i < k THEN i ELSE i + 1]
<1>1. /\ Len(q) \in Nat /\ k \in Nat
      /\ DOMAIN q = 1 .. Len(q)
      /\ DOMAIN r = 1 .. Len(q) - 1
      /\ \A i \in 1 .. Len(q) - 1 : r[i] = IF i < k THEN q[i] ELSE q[i + 1]
      /\ r \in Seq(S)
  <2>1. Len(q) \in Nat /\ k \in Nat /\ DOMAIN q = 1 .. Len(q)
    BY LenProperties
  <2>2. /\ r \in Seq(S)
        /\ Len(r) = Len(q) - 1
        /\ \A i \in 1 .. Len(q) - 1 : r[i] = IF i < k THEN q[i] ELSE q[i + 1]
    BY RemoveAtProperties
  <2> HIDE DEF r
  <2>3. DOMAIN r = 1 .. Len(q) - 1
    BY <2>2, LenProperties
  <2>4. QED
    BY <2>1, <2>2, <2>3
<1> HIDE DEF r
<1>2. IsFiniteSet(R) /\ R \subseteq 1 .. Len(q) - 1
  BY <1>1, PositionsFinite, LenProperties
<1>3. f \in Bijection(R, P)
  <2>1. f \in [R -> P]
    BY <1>1 DEF Positions
  <2>2. \A i, j \in R : f[i] = f[j] => i = j
    BY <1>1, <1>2
  <2>3. \A p \in P : \E i \in R : f[i] = p
    <3> TAKE p \in P
    <3>0. p \in 1 .. Len(q) /\ p # k /\ q[p].value = v
      BY <1>1 DEF Positions
    <3>1. CASE p < k
      <4>1. p \in 1 .. Len(q) - 1 /\ r[p] = q[p]
        BY <1>1, <3>0, <3>1
      <4>2. p \in R
        BY <1>1, <3>0, <4>1 DEF Positions
      <4>3. QED
        BY <3>1, <4>2
    <3>2. CASE ~ (p < k)
      <4>1. /\ p - 1 \in 1 .. Len(q) - 1 /\ ~ (p - 1 < k) /\ (p - 1) + 1 = p
            /\ r[p - 1] = q[p]
        BY <1>1, <3>0, <3>2
      <4>2. p - 1 \in R
        BY <1>1, <3>0, <4>1 DEF Positions
      <4>3. f[p - 1] = p
        BY <4>1, <4>2
      <4>4. QED
        BY <4>2, <4>3
    <3>3. QED
      BY <3>1, <3>2
  <2>4. QED
    BY <2>1, <2>2, <2>3 DEF Bijection, Injection, Surjection, IsInjective
<1>4. Cardinality(R) = Cardinality(P)
  <2>1. ExistsBijection(R, P)
    BY <1>3 DEF ExistsBijection
  <2>2. QED
    BY <1>2, <2>1, FS_Bijection
<1>5. IsFiniteSet(Positions(q, v)) /\ (k \in Positions(q, v) <=> q[k].value = v)
  BY <1>1, PositionsFinite DEF Positions
<1>6. Cardinality(P) = IF q[k].value = v THEN Cardinality(Positions(q, v)) - 1
                       ELSE Cardinality(Positions(q, v))
  BY <1>5, FS_RemoveElement
<1>7. QED
  BY <1>4, <1>6 DEF r

-----------------------------------------------------------------------------
(* What the threads hold in their locals.                                  *)

(* The connection a thread holds in its locals is one, wherever it uses it.*)
LocalsSet ==
  /\ OwnsSocket(Main) => job[Main] \in Jobs
  /\ \A w \in Threads : InFlight(w) => job[w] \in Jobs

(* Main is in the drop loop only under its policy, with iterations left.   *)
DropLoop == pc[Main] = "dropping" => policy = "random" /\ toDrop > 0

Typed == TypeOK /\ LocalsSet /\ DropLoop

LEMMA ConstantFacts ==
  /\ Main \in Actors /\ Threads \subseteq Actors
  /\ \A w \in Threads : w # Main /\ w # Free
  /\ Main # Free
  /\ \A n \in QueueSizes : n \in Nat /\ n > 0
  /\ MaxConns \in Nat
  BY ThreadsAssumption, NumbersAssumption DEF Actors

(* The node a worker searches for, and removes unless the search faults.   *)
LEMMA RemovalTyped ==
  ASSUME TypeOK, NEW w \in Threads,
         ~ indexFaults(worker_queue, queue_max_size, JobIndex(w))
  PROVE  LET q == dequeueByIndex(worker_queue, queue_max_size, JobIndex(w))
         IN  q \in Seq(Jobs) /\ Len(q) \in Nat /\ Len(q) <= Len(worker_queue)
<1>1. worker_queue \in Seq(Jobs) /\ queue_max_size \in Nat /\ Len(worker_queue) \in Nat
  BY ConstantFacts, LenProperties DEF TypeOK
<1>2. JobIndex(w) \in Int
  BY <1>1, FindIndexProperties DEF JobIndex
<1>3. QED
  BY <1>1, <1>2, DequeueByIndexProperties, LenProperties

(* The index of a random drop, taken modulo the size, never faults.        *)
LEMMA RandomDropTyped ==
  ASSUME TypeOK, NEW index \in 0 .. queueCurrSize(wait_queue) - 1
  PROVE  LET q == dequeueByIndex(wait_queue, queue_max_size, index)
         IN  /\ q \in Seq(Jobs)
             /\ Len(q) = IF index < queue_max_size THEN Len(wait_queue) - 1
                         ELSE Len(wait_queue)
<1>1. wait_queue \in Seq(Jobs) /\ queue_max_size \in Nat /\ Len(wait_queue) \in Nat
  BY ConstantFacts, LenProperties DEF TypeOK
<1>2. index \in Nat /\ index < Len(wait_queue) /\ Len(wait_queue) # 0
  BY <1>1 DEF queueCurrSize
<1>3. ~ indexFaults(wait_queue, queue_max_size, index)
  BY <1>1, <1>2 DEF indexFaults
<1>4. indexRejected(wait_queue, queue_max_size, index) <=> ~ (index < queue_max_size)
  BY <1>1, <1>2 DEF indexRejected, queueEmpty, queueCurrSize
<1>5. QED
  BY <1>1, <1>2, <1>3, <1>4, DequeueByIndexProperties

(* Closing a descriptor, open or not, changes the table within its type.   *)
LEMMA CloseTyped ==
  ASSUME TypeOK, status = "running", NEW fd, Close(fd)
  PROVE  sock' \in [Fds -> 0 .. MaxConns] /\ status' \in {"running", "exited"}
<1>1. CASE sock[fd] # 0
  <2>1. sock \in [Fds -> 0 .. MaxConns] /\ sock' = [sock EXCEPT ![fd] = 0]
    BY <1>1 DEF Close, TypeOK
  <2>2. 0 \in 0 .. MaxConns
    BY ConstantFacts
  <2>3. sock' \in [Fds -> 0 .. MaxConns]
    BY <2>1, <2>2, Zenon
  <2>4. QED
    BY <1>1, <2>3 DEF Close, TypeOK
<1>2. CASE sock[fd] = 0
  BY <1>2 DEF Close, TypeOK
<1>3. QED
  BY <1>1, <1>2

LEMMA TypedInit == Init => Typed
<1> SUFFICES ASSUME Init PROVE Typed
  OBVIOUS
<1>1. TypeOK
  BY ConstantFacts, EmptySeq DEF Init, TypeOK, Actors, Conns
<1>2. LocalsSet /\ DropLoop
  BY ConstantFacts DEF Init, LocalsSet, DropLoop, OwnsSocket, InFlight, Actors
<1>3. QED
  BY <1>1, <1>2 DEF Typed

LEMMA TypedStep == Typed /\ [Next]_vars => Typed'
<1> SUFFICES ASSUME Typed, [Next]_vars PROVE Typed'
  OBVIOUS
<1> USE ConstantFacts DEF Typed, Goto, args, queues, kernel
<1>0. /\ wait_queue \in Seq(Jobs) /\ Len(wait_queue) \in Nat
      /\ worker_queue \in Seq(Jobs)
      /\ queue_max_size \in Nat
      /\ clock \in Nat
  BY LenProperties DEF TypeOK
<1>1. ASSUME MainAccept PROVE Typed'
  <2>1. PICK fd \in Fds, kind \in {"asks", "silent", "resets"} :
          /\ sock' = [sock EXCEPT ![fd] = clock + 1]
          /\ client' = [client EXCEPT ![clock + 1] = kind]
          /\ job' = [job EXCEPT ![Main] = [value |-> fd, arrival_time |-> clock + 1]]
    BY <1>1 DEF MainAccept
  <2>2. clock + 1 \in Conns /\ clock + 1 \in 0 .. MaxConns
    BY <1>1 DEF MainAccept, TypeOK, Conns
  <2>3. [value |-> fd, arrival_time |-> clock + 1] \in Jobs
    BY <2>2 DEF Jobs
  <2>4. sock' \in [Fds -> 0 .. MaxConns] /\ client' \in [Conns -> {"none", "asks", "silent", "resets", "answered"}]
    BY <2>1, <2>2 DEF TypeOK
  <2>5. TypeOK'
    BY <1>1, <2>1, <2>2, <2>3, <2>4 DEF MainAccept, TypeOK
  <2>6. LocalsSet' /\ DropLoop'
    BY <1>1, <2>1, <2>3 DEF MainAccept, TypeOK, LocalsSet, DropLoop, OwnsSocket, InFlight
  <2>7. QED
    BY <2>5, <2>6
<1>2. ASSUME MainAcceptFails PROVE Typed'
  BY <1>2 DEF MainAcceptFails, TypeOK, LocalsSet, DropLoop, OwnsSocket, InFlight
<1>3. ASSUME MainLock PROVE Typed'
  BY <1>3 DEF MainLock, Lock, TypeOK, LocalsSet, DropLoop, OwnsSocket, InFlight
<1>4. ASSUME MainHasRoom PROVE Typed'
  BY <1>4 DEF MainHasRoom, AtAdmit, TypeOK, LocalsSet, DropLoop, OwnsSocket, InFlight
<1>5. ASSUME MainBlock PROVE Typed'
  BY <1>5 DEF MainBlock, AtAdmit, TypeOK, LocalsSet, DropLoop, OwnsSocket, InFlight
<1>6. ASSUME MainDropNew PROVE Typed'
  <2>1. sock' \in [Fds -> 0 .. MaxConns] /\ status' \in {"running", "exited"}
    BY <1>6, CloseTyped DEF MainDropNew, AtAdmit
  <2>2. QED
    BY <1>6, <2>1 DEF MainDropNew, AtAdmit, TypeOK, LocalsSet, DropLoop, OwnsSocket, InFlight
<1>7. ASSUME MainDropHead PROVE Typed'
  <2>1. dequeue(wait_queue) \in Seq(Jobs)
    BY <1>0, <1>7, DequeueProperties DEF MainDropHead
  <2>2. sock' \in [Fds -> 0 .. MaxConns] /\ status' \in {"running", "exited"}
    BY <1>7, CloseTyped DEF MainDropHead, AtAdmit
  <2>3. QED
    BY <1>7, <2>1, <2>2
       DEF MainDropHead, AtAdmit, TypeOK, LocalsSet, DropLoop, OwnsSocket, InFlight
<1>8. ASSUME MainStartRandom PROVE Typed'
  <2>1. Len(wait_queue) > 0
    BY <1>0, <1>8 DEF MainStartRandom, queueEmpty, queueCurrSize
  <2>2. (Len(wait_queue) + 1) \div 2 \in Nat /\ (Len(wait_queue) + 1) \div 2 > 0
    BY <1>0, <2>1
  <2>3. QED
    BY <1>8, <2>2
       DEF MainStartRandom, AtAdmit, queueCurrSize, TypeOK, LocalsSet, DropLoop, OwnsSocket, InFlight
<1>9. ASSUME MainDropRandom PROVE Typed'
  <2>1. PICK index \in 0 .. queueCurrSize(wait_queue) - 1 :
          /\ wait_queue' = dequeueByIndex(wait_queue, queue_max_size, index)
          /\ Close(wait_queue[index + 1].value)
    BY <1>9 DEF MainDropRandom
  <2>2. wait_queue' \in Seq(Jobs)
    BY <2>1, RandomDropTyped
  <2>3. toDrop' \in Nat /\ (toDrop # 1 => toDrop' > 0)
    BY <1>9 DEF MainDropRandom, TypeOK, DropLoop
  <2>4. sock' \in [Fds -> 0 .. MaxConns] /\ status' \in {"running", "exited"}
    BY <1>9, <2>1, CloseTyped DEF MainDropRandom
  <2>5. QED
    BY <1>9, <2>2, <2>3, <2>4
       DEF MainDropRandom, TypeOK, LocalsSet, DropLoop, OwnsSocket, InFlight
<1>10. ASSUME MainUnknownPolicy PROVE Typed'
  BY <1>10 DEF MainUnknownPolicy, AtAdmit, TypeOK, LocalsSet, DropLoop, OwnsSocket, InFlight
<1>11. ASSUME MainEnqueue PROVE Typed'
  <2>1. wait_queue' \in Seq(Jobs)
    BY <1>0, <1>11, EnqueueProperties DEF MainEnqueue, LocalsSet, OwnsSocket
  <2>2. QED
    BY <1>11, <2>1
       DEF MainEnqueue, Sleepers, TypeOK, LocalsSet, DropLoop, OwnsSocket, InFlight
<1>12. ASSUME NEW w \in Threads, WorkerLock(w) \/ WorkerLockDone(w) PROVE Typed'
  BY <1>12 DEF WorkerLock, WorkerLockDone, Lock, TypeOK, LocalsSet, DropLoop, OwnsSocket, InFlight
<1>13. ASSUME NEW w \in Threads, WorkerSleep(w) PROVE Typed'
  BY <1>13 DEF WorkerSleep, TypeOK, LocalsSet, DropLoop, OwnsSocket, InFlight
<1>14. ASSUME NEW w \in Threads, WorkerTake(w) PROVE Typed'
  <2>1. /\ Head(wait_queue) \in Jobs
        /\ wait_queue' \in Seq(Jobs)
        /\ worker_queue' \in Seq(Jobs)
    BY <1>0, <1>14, DequeueProperties, EnqueueProperties DEF WorkerTake
  <2>2. QED
    BY <1>14, <2>1 DEF WorkerTake, TypeOK, LocalsSet, DropLoop, OwnsSocket, InFlight
<1>15. ASSUME NEW w \in Threads, WorkerHandle(w) PROVE Typed'
  BY <1>15 DEF WorkerHandle, TypeOK, LocalsSet, DropLoop, OwnsSocket, InFlight
<1>16. ASSUME NEW w \in Threads, WorkerIoError(w) PROVE Typed'
  BY <1>16 DEF WorkerIoError, TypeOK, LocalsSet, DropLoop, OwnsSocket, InFlight
<1>17. ASSUME NEW w \in Threads, WorkerClose(w) PROVE Typed'
  BY <1>17 DEF WorkerClose, Close, TypeOK, LocalsSet, DropLoop, OwnsSocket, InFlight
<1>18. ASSUME NEW w \in Threads, WorkerRemove(w) PROVE Typed'
  <2>1. worker_queue' \in Seq(Jobs)
    BY <1>18, RemovalTyped DEF WorkerRemove
  <2>2. QED
    BY <1>18, <2>1 DEF WorkerRemove, TypeOK, LocalsSet, DropLoop, OwnsSocket, InFlight
<1>19. ASSUME NEW w \in Threads, WorkerFaults(w) PROVE Typed'
  BY <1>19 DEF WorkerFaults, TypeOK, LocalsSet, DropLoop, OwnsSocket, InFlight
<1>20. ASSUME NEW t \in Actors, SpuriousWakeup(t) PROVE Typed'
  BY <1>20 DEF SpuriousWakeup, Actors, TypeOK, LocalsSet, DropLoop, OwnsSocket, InFlight
<1>21. ASSUME UNCHANGED vars PROVE Typed'
  BY <1>21 DEF vars, TypeOK, LocalsSet, DropLoop, OwnsSocket, InFlight
<1>22. QED
  BY <1>1, <1>2, <1>3, <1>4, <1>5, <1>6, <1>7, <1>8, <1>9, <1>10, <1>11, <1>12, <1>13,
     <1>14, <1>15, <1>16, <1>17, <1>18, <1>19, <1>20, <1>21
     DEF Next, MainSteps, WorkerSteps

(* Every variable keeps its type in every behaviour of the server.         *)
THEOREM TypeCorrect == Spec => []TypeOK
<1>1. Spec => []Typed
  BY TypedInit, TypedStep, PTL DEF Spec
<1>2. Typed => TypeOK
  BY DEF Typed
<1>3. QED
  BY <1>1, <1>2, PTL

(* The invariant is there in every state, a typed one.                     *)
LEMMA AlwaysTyped == Spec => []Typed
  BY TypedInit, TypedStep, PTL DEF Spec

-----------------------------------------------------------------------------
LEMMA LockStep == Typed /\ LockDiscipline /\ [Next]_vars => LockDiscipline'
<1> SUFFICES ASSUME Typed, LockDiscipline, [Next]_vars,
                    status' = "running",
                    NEW t \in Actors
             PROVE  (HoldsMutex(t) <=> mutex = t)'
  BY DEF LockDiscipline
<1>0. /\ status = "running" => \A u \in Actors : HoldsMutex(u) <=> mutex = u
      /\ pc \in [Actors -> {"accept", "lock", "admit", "cond_block", "dropping", "enqueue",
                            "check", "cond", "handle", "close", "lock_done", "remove"}]
      /\ Free \notin Actors
      /\ t = Main \/ t \in Threads
  BY ThreadsAssumption DEF Typed, TypeOK, LockDiscipline, Actors
<1> USE ConstantFacts, <1>0 DEF Goto, HoldsMutex, args, queues, kernel
<1>1. ASSUME MainAccept \/ MainAcceptFails PROVE (HoldsMutex(t) <=> mutex = t)'
  BY <1>1 DEF MainAccept, MainAcceptFails
<1>2. ASSUME MainLock PROVE (HoldsMutex(t) <=> mutex = t)'
  BY <1>2 DEF MainLock, Lock
<1>3. ASSUME MainHasRoom \/ MainStartRandom \/ MainUnknownPolicy
      PROVE  (HoldsMutex(t) <=> mutex = t)'
  BY <1>3 DEF MainHasRoom, MainStartRandom, MainUnknownPolicy, AtAdmit
<1>4. ASSUME MainBlock \/ MainDropNew PROVE (HoldsMutex(t) <=> mutex = t)'
  BY <1>4 DEF MainBlock, MainDropNew, AtAdmit
<1>5. ASSUME MainDropHead PROVE (HoldsMutex(t) <=> mutex = t)'
  BY <1>5 DEF MainDropHead, AtAdmit
<1>6. ASSUME MainDropRandom PROVE (HoldsMutex(t) <=> mutex = t)'
  BY <1>6 DEF MainDropRandom
<1>7. ASSUME MainEnqueue PROVE (HoldsMutex(t) <=> mutex = t)'
  BY <1>7 DEF MainEnqueue, Sleepers
<1>8. ASSUME NEW w \in Threads, WorkerLock(w) \/ WorkerLockDone(w)
      PROVE  (HoldsMutex(t) <=> mutex = t)'
  BY <1>8 DEF WorkerLock, WorkerLockDone, Lock
<1>9. ASSUME NEW w \in Threads, WorkerSleep(w) \/ WorkerTake(w)
      PROVE  (HoldsMutex(t) <=> mutex = t)'
  BY <1>9 DEF WorkerSleep, WorkerTake
<1>10. ASSUME NEW w \in Threads, WorkerHandle(w) \/ WorkerIoError(w) \/ WorkerClose(w)
       PROVE  (HoldsMutex(t) <=> mutex = t)'
  BY <1>10 DEF WorkerHandle, WorkerIoError, WorkerClose
<1>11. ASSUME NEW w \in Threads, WorkerRemove(w) \/ WorkerFaults(w)
       PROVE  (HoldsMutex(t) <=> mutex = t)'
  BY <1>11 DEF WorkerRemove, WorkerFaults
<1>12. ASSUME NEW u \in Actors, SpuriousWakeup(u) PROVE (HoldsMutex(t) <=> mutex = t)'
  BY <1>12 DEF SpuriousWakeup
<1>13. ASSUME UNCHANGED vars PROVE (HoldsMutex(t) <=> mutex = t)'
  BY <1>13 DEF vars
<1>14. QED
  BY <1>1, <1>2, <1>3, <1>4, <1>5, <1>6, <1>7, <1>8, <1>9, <1>10, <1>11, <1>12, <1>13
     DEF Next, MainSteps, WorkerSteps

(* The mutex excludes: a thread is inside a critical section of server.c   *)
(* exactly when it owns the mutex.                                         *)
THEOREM MutualExclusion == Spec => []LockDiscipline
<1>1. Init => LockDiscipline
  BY ConstantFacts, ThreadsAssumption DEF Init, LockDiscipline, HoldsMutex, Actors
<1>2. QED
  BY <1>1, LockStep, AlwaysTyped, PTL DEF Spec

-----------------------------------------------------------------------------
Total == Len(wait_queue) + Len(worker_queue)

(* The bound on the server is inductive together with the room that main   *)
(* has made, or found, when it goes on to enqueue; it holds the mutex from *)
(* there on, so no worker can take that room away.                         *)
Room ==
  policy \in KnownPolicies =>
    /\ Total <= queue_max_size
    /\ pc[Main] = "enqueue" => Total < queue_max_size

LEMMA TotalTyped ==
  ASSUME TypeOK
  PROVE  /\ wait_queue \in Seq(Jobs) /\ Len(wait_queue) \in Nat
         /\ worker_queue \in Seq(Jobs) /\ Len(worker_queue) \in Nat
         /\ queue_max_size \in Nat /\ Total \in Nat
  BY ConstantFacts, LenProperties DEF TypeOK, Total

(* A worker that takes a connection moves it between the queues, or loses  *)
(* it to a full worker_queue; with room in the server it is never lost.    *)
LEMMA TakeMoves ==
  ASSUME Typed, NEW w \in Threads, WorkerTake(w)
  PROVE  /\ wait_queue \in Seq(Jobs) /\ ~ queueEmpty(wait_queue)
         /\ Len(wait_queue') = Len(wait_queue) - 1
         /\ Len(worker_queue') \in Nat
         /\ Total' \in {Total, Total - 1}
         /\ Total <= queue_max_size =>
              /\ Total' = Total
              /\ worker_queue' = Append(worker_queue, Head(wait_queue))
<1>0. /\ wait_queue \in Seq(Jobs) /\ Len(wait_queue) \in Nat
      /\ worker_queue \in Seq(Jobs) /\ Len(worker_queue) \in Nat
      /\ queue_max_size \in Nat
  BY TotalTyped DEF Typed
<1>1. /\ ~ queueEmpty(wait_queue)
      /\ wait_queue' = dequeue(wait_queue)
      /\ worker_queue' = enqueue(worker_queue, queue_max_size, Head(wait_queue))
  BY DEF WorkerTake
<1>2. /\ Head(wait_queue) \in Jobs
      /\ Len(wait_queue) > 0
      /\ Len(wait_queue') = Len(wait_queue) - 1
  BY <1>0, <1>1, DequeueProperties
<1>3. Len(worker_queue') = IF Len(worker_queue) = queue_max_size
                           THEN Len(worker_queue) ELSE Len(worker_queue) + 1
  BY <1>0, <1>1, <1>2, EnqueueProperties
<1>4. Len(worker_queue) # queue_max_size =>
        worker_queue' = Append(worker_queue, Head(wait_queue))
  BY <1>1 DEF enqueue, queueFull, queueCurrSize
<1>5. Len(worker_queue') \in Nat /\ Total' \in {Total, Total - 1}
  BY <1>0, <1>2, <1>3 DEF Total
<1>6. Total <= queue_max_size => Len(worker_queue) # queue_max_size /\ Total' = Total
  BY <1>0, <1>2, <1>3 DEF Total
<1>7. QED
  BY <1>0, <1>1, <1>2, <1>4, <1>5, <1>6, Zenon

LEMMA RoomStep ==
  Typed /\ LockDiscipline /\ Room /\ [Next]_vars => Room'
<1> SUFFICES ASSUME Typed, LockDiscipline, Room, [Next]_vars, (policy \in KnownPolicies)'
             PROVE  (Total <= queue_max_size /\ (pc[Main] = "enqueue" => Total < queue_max_size))'
  BY DEF Room
<1> DEFINE Goal == Total <= queue_max_size /\ (pc[Main] = "enqueue" => Total < queue_max_size)
<1>0. /\ wait_queue \in Seq(Jobs) /\ Len(wait_queue) \in Nat
      /\ worker_queue \in Seq(Jobs) /\ Len(worker_queue) \in Nat
      /\ queue_max_size \in Nat
      /\ Total \in Nat
  BY TotalTyped DEF Typed
<1>a. pc \in [Actors -> {"accept", "lock", "admit", "cond_block", "dropping", "enqueue",
                          "check", "cond", "handle", "close", "lock_done", "remove"}]
  BY DEF Typed, TypeOK
<1>b. UNCHANGED args
  BY DEF Next, MainSteps, WorkerSteps, MainAccept, MainAcceptFails, MainLock, MainHasRoom,
         MainBlock, MainDropNew, MainDropHead, MainStartRandom, MainDropRandom,
         MainUnknownPolicy, MainEnqueue, WorkerLock, WorkerLockDone, Lock, WorkerSleep,
         WorkerTake, WorkerHandle, WorkerIoError, WorkerClose, WorkerRemove, WorkerFaults,
         SpuriousWakeup, vars
<1>c. policy \in KnownPolicies /\ queue_max_size' = queue_max_size
  BY <1>b DEF args
<1>d. Goal
  BY <1>c DEF Room
<1> USE ConstantFacts DEF Goto, args, queues, kernel
<1>1. ASSUME MainHasRoom PROVE Goal'
  BY <1>0, <1>d, <1>1, <1>c DEF MainHasRoom, Full, queueCurrSize, Total
<1>2. ASSUME UNCHANGED queues, pc'[Main] = "enqueue" => pc[Main] = "enqueue" PROVE Goal'
  BY <1>2, <1>c, <1>d DEF Total
<1>3. ASSUME MainDropHead PROVE Goal'
  <2>1. Len(wait_queue') = Len(wait_queue) - 1 /\ worker_queue' = worker_queue
    BY <1>0, <1>3, DequeueProperties DEF MainDropHead
  <2>2. QED
    BY <1>0, <1>c, <1>d, <2>1 DEF Total
<1>4. ASSUME MainDropRandom PROVE Goal'
  <2>1. PICK index \in 0 .. queueCurrSize(wait_queue) - 1 :
          wait_queue' = dequeueByIndex(wait_queue, queue_max_size, index)
    BY <1>4 DEF MainDropRandom
  <2>2. index < queue_max_size
    BY <1>0, <1>d DEF queueCurrSize, Total
  <2>3. Len(wait_queue') = Len(wait_queue) - 1 /\ worker_queue' = worker_queue
    BY <1>4, <2>1, <2>2, RandomDropTyped DEF MainDropRandom, Typed
  <2>4. QED
    BY <1>0, <1>c, <1>d, <2>3 DEF Total
<1>5. ASSUME MainEnqueue PROVE Goal'
  <2>1. job[Main] \in Jobs /\ pc[Main] = "enqueue" /\ worker_queue' = worker_queue
    BY <1>5 DEF MainEnqueue, Typed, LocalsSet, OwnsSocket
  <2>2. Len(wait_queue') <= Len(wait_queue) + 1 /\ Len(wait_queue') \in Nat
    BY <1>0, <1>5, <2>1, EnqueueProperties DEF MainEnqueue
  <2>3. pc'[Main] = "accept"
    BY <1>5, <1>a DEF MainEnqueue, Sleepers
  <2>4. QED
    BY <1>0, <1>c, <1>d, <2>1, <2>2, <2>3 DEF Total
<1>6. ASSUME NEW w \in Threads, WorkerTake(w) PROVE Goal'
  <2>1. pc'[Main] = pc[Main]
    BY <1>6, <1>a DEF WorkerTake
  <2>2. QED
    BY <1>0, <1>6, <1>c, <1>d, <2>1, TakeMoves
<1>7. ASSUME NEW w \in Threads, WorkerRemove(w) PROVE Goal'
  <2>1. pc'[Main] = "enqueue" => pc[Main] = "enqueue"
    BY <1>7, <1>a DEF WorkerRemove
  <2>2. /\ Len(worker_queue') \in Nat /\ Len(worker_queue') <= Len(worker_queue)
        /\ wait_queue' = wait_queue
    BY <1>7, RemovalTyped DEF WorkerRemove, Typed
  <2>3. QED
    BY <1>0, <1>c, <1>d, <2>1, <2>2 DEF Total
<1>8. ASSUME MainUnknownPolicy PROVE Goal'
  BY <1>8, <1>c DEF MainUnknownPolicy
<1>9. ASSUME MainAccept \/ MainAcceptFails \/ MainLock \/ MainBlock \/ MainDropNew
             \/ MainStartRandom
      PROVE  Goal'
  <2>1. UNCHANGED queues /\ (pc'[Main] = "enqueue" => pc[Main] = "enqueue")
    BY <1>9, <1>a DEF MainAccept, MainAcceptFails, MainLock, Lock, MainBlock, MainDropNew,
                      MainStartRandom
  <2>2. QED
    BY <1>2, <2>1
<1>10. ASSUME NEW w \in Threads,
              \/ WorkerLock(w) \/ WorkerLockDone(w) \/ WorkerSleep(w) \/ WorkerHandle(w)
              \/ WorkerIoError(w) \/ WorkerClose(w) \/ WorkerFaults(w)
       PROVE  Goal'
  <2>1. UNCHANGED queues /\ pc'[Main] = pc[Main]
    BY <1>10, <1>a DEF WorkerLock, WorkerLockDone, Lock, WorkerSleep, WorkerHandle,
                       WorkerIoError, WorkerClose, WorkerFaults
  <2>2. QED
    BY <1>2, <2>1
<1>11. ASSUME NEW t \in Actors, SpuriousWakeup(t) PROVE Goal'
  <2>1. UNCHANGED queues /\ (pc'[Main] = "enqueue" => pc[Main] = "enqueue")
    BY <1>11, <1>a DEF SpuriousWakeup
  <2>2. QED
    BY <1>2, <2>1
<1>12. ASSUME UNCHANGED vars PROVE Goal'
  <2>1. UNCHANGED queues /\ UNCHANGED pc
    BY <1>12 DEF vars
  <2>2. QED
    BY <1>2, <2>1
<1>13. QED
  BY <1>1, <1>3, <1>4, <1>5, <1>6, <1>7, <1>8, <1>9, <1>10, <1>11, <1>12
     DEF Next, MainSteps, WorkerSteps

LEMMA AlwaysRoom == Spec => []Room
<1>1. Init => Room
  BY ConstantFacts, EmptySeq DEF Init, Room, Total
<1>2. QED
  BY <1>1, RoomStep, AlwaysTyped, MutualExclusion, PTL DEF Spec

(* Under each of the four policies the server never holds more connections *)
(* than its queue_size argument, however threads interleave.               *)
THEOREM BoundedServer == Spec => []CapacityBound
<1>1. Room => CapacityBound
  BY DEF Room, CapacityBound, Total
<1>2. QED
  BY <1>1, AlwaysRoom, PTL

-----------------------------------------------------------------------------
Ready == {w \in Threads : pc[w] \in {"lock", "check"}}

LEMMA ReadyFinite == IsFiniteSet(Ready) /\ Cardinality(Ready) \in Nat
<1>1. Ready \in SUBSET Threads
  BY DEF Ready
<1>2. QED
  BY <1>1, ThreadsAssumption, FS_Subset, FS_CardinalityType

(* One thread that becomes ready makes room for one more connection, one   *)
(* that stops being ready takes at most one away.                          *)
LEMMA ReadyGrows ==
  ASSUME NEW w, w \notin Ready, Ready' = Ready \cup {w}
  PROVE  Cardinality(Ready') = Cardinality(Ready) + 1
  BY ReadyFinite, FS_AddElement, Zenon

LEMMA ReadyShrinks ==
  ASSUME NEW w, w \in Ready, Ready' = Ready \ {w}
  PROVE  Cardinality(Ready') = Cardinality(Ready) - 1
  BY ReadyFinite, FS_RemoveElement, Zenon

WakeupsFor == Sleepers # {} => Len(wait_queue) <= Cardinality(Ready)

MainSleepsOnFull == pc[Main] = "cond_block" => Full

LEMMA WakeupsForStep == Typed /\ WakeupsFor /\ [Next]_vars => WakeupsFor'
<1> SUFFICES ASSUME Typed, WakeupsFor, [Next]_vars PROVE WakeupsFor'
  OBVIOUS
<1>0. /\ wait_queue \in Seq(Jobs) /\ Len(wait_queue) \in Nat
      /\ worker_queue \in Seq(Jobs) /\ Len(worker_queue) \in Nat
      /\ queue_max_size \in Nat
      /\ Cardinality(Ready) \in Nat
  BY TotalTyped, ReadyFinite DEF Typed
<1>a. pc \in [Actors -> {"accept", "lock", "admit", "cond_block", "dropping", "enqueue",
                          "check", "cond", "handle", "close", "lock_done", "remove"}]
  BY DEF Typed, TypeOK
<1> USE ConstantFacts DEF Goto, args, queues, kernel
<1>1. ASSUME Sleepers' = Sleepers, Ready' = Ready,
             Len(wait_queue') \in Nat, Len(wait_queue') <= Len(wait_queue)
      PROVE  WakeupsFor'
  BY <1>0, <1>1 DEF WakeupsFor
<1>2. ASSUME UNCHANGED wait_queue, \A w \in Threads : pc'[w] = pc[w] PROVE WakeupsFor'
  <2>1. Sleepers' = Sleepers /\ Ready' = Ready
    BY <1>2 DEF Sleepers, Ready
  <2>2. QED
    BY <1>0, <1>1, <1>2, <2>1
<1>3. ASSUME NEW w \in Threads, UNCHANGED wait_queue, w \notin Ready,
             \A v \in Threads : pc'[v] = IF v = w THEN "lock" ELSE pc[v]
      PROVE  WakeupsFor'
  <2>1. Ready' = Ready \cup {w} /\ (Sleepers' # {} => Sleepers # {})
    BY <1>3 DEF Ready, Sleepers
  <2>2. Cardinality(Ready') = Cardinality(Ready) + 1
    BY <1>3, <2>1, ReadyGrows
  <2>3. QED
    BY <1>0, <1>3, <2>1, <2>2 DEF WakeupsFor
<1>4. ASSUME \/ MainAccept \/ MainAcceptFails \/ MainLock \/ MainHasRoom \/ MainBlock
             \/ MainDropNew \/ MainStartRandom \/ MainUnknownPolicy
      PROVE  WakeupsFor'
  <2>1. UNCHANGED wait_queue /\ \A w \in Threads : pc'[w] = pc[w]
    BY <1>4, <1>a DEF MainAccept, MainAcceptFails, MainLock, Lock, MainHasRoom, MainBlock,
                      MainDropNew, MainStartRandom, MainUnknownPolicy, AtAdmit
  <2>2. QED
    BY <1>2, <2>1
<1>5. ASSUME MainDropHead PROVE WakeupsFor'
  <2>1. Sleepers' = Sleepers /\ Ready' = Ready
    BY <1>5, <1>a DEF MainDropHead, AtAdmit, Sleepers, Ready
  <2>2. Len(wait_queue') \in Nat /\ Len(wait_queue') <= Len(wait_queue)
    BY <1>0, <1>5, DequeueProperties DEF MainDropHead
  <2>3. QED
    BY <1>1, <2>1, <2>2
<1>6. ASSUME MainDropRandom PROVE WakeupsFor'
  <2>1. Sleepers' = Sleepers /\ Ready' = Ready
    BY <1>6, <1>a DEF MainDropRandom, Sleepers, Ready
  <2>2. PICK index \in 0 .. queueCurrSize(wait_queue) - 1 :
          wait_queue' = dequeueByIndex(wait_queue, queue_max_size, index)
    BY <1>6 DEF MainDropRandom
  <2>3. Len(wait_queue') \in Nat /\ Len(wait_queue') <= Len(wait_queue)
    BY <1>0, <2>2, RandomDropTyped, LenProperties DEF Typed
  <2>4. QED
    BY <1>1, <2>1, <2>3
<1>7. ASSUME MainEnqueue PROVE WakeupsFor'
  <2>1. Len(wait_queue') \in Nat /\ Len(wait_queue') <= Len(wait_queue) + 1
    BY <1>0, <1>7, EnqueueProperties DEF MainEnqueue, Typed, LocalsSet, OwnsSocket
  <2>2. CASE Sleepers = {} /\ Goto(Main, "accept")
    BY <2>2, <1>a DEF WakeupsFor, Sleepers
  <2>3. ASSUME NEW w \in Sleepers, pc' = [pc EXCEPT ![Main] = "accept", ![w] = "lock"]
        PROVE  WakeupsFor'
    <3>1. /\ w \in Threads /\ w \notin Ready /\ Sleepers # {}
          /\ Ready' = Ready \cup {w}
      BY <2>3, <1>a DEF Ready, Sleepers
    <3>2. Cardinality(Ready') = Cardinality(Ready) + 1
      BY <3>1, ReadyGrows
    <3>3. QED
      BY <1>0, <2>1, <3>1, <3>2 DEF WakeupsFor
  <2>4. QED
    BY <1>7, <2>2, <2>3 DEF MainEnqueue
<1>8. ASSUME NEW w \in Threads, WorkerLock(w) PROVE WakeupsFor'
  <2>1. Sleepers' = Sleepers /\ Ready' = Ready /\ UNCHANGED wait_queue
    BY <1>8, <1>a DEF WorkerLock, Lock, Sleepers, Ready
  <2>2. QED
    BY <1>0, <1>1, <2>1
<1>9. ASSUME NEW w \in Threads, WorkerSleep(w) PROVE WakeupsFor'
  <2>1. wait_queue' = wait_queue /\ Len(wait_queue) = 0
    BY <1>9 DEF WorkerSleep, queueEmpty, queueCurrSize
  <2>2. Cardinality(Ready') \in Nat
    <3>1. Ready' \in SUBSET Threads
      BY DEF Ready
    <3>2. QED
      BY <3>1, ThreadsAssumption, FS_Subset, FS_CardinalityType
  <2>3. QED
    BY <2>1, <2>2 DEF WakeupsFor
<1>10. ASSUME NEW w \in Threads, WorkerTake(w) PROVE WakeupsFor'
  <2>1. Len(wait_queue') = Len(wait_queue) - 1
    BY <1>10, TakeMoves
  <2>2. w \in Ready /\ Ready' = Ready \ {w} /\ Sleepers' = Sleepers
    BY <1>10, <1>a DEF WorkerTake, Ready, Sleepers
  <2>3. Cardinality(Ready') = Cardinality(Ready) - 1
    BY <2>2, ReadyShrinks
  <2>4. QED
    BY <1>0, <2>1, <2>2, <2>3 DEF WakeupsFor
<1>11. ASSUME NEW w \in Threads,
              WorkerHandle(w) \/ WorkerIoError(w) \/ WorkerClose(w) \/ WorkerLockDone(w)
              \/ WorkerFaults(w)
       PROVE  WakeupsFor'
  <2>1. Sleepers' = Sleepers /\ Ready' = Ready /\ UNCHANGED wait_queue
    BY <1>11, <1>a DEF WorkerHandle, WorkerIoError, WorkerClose, WorkerLockDone, Lock,
                       WorkerFaults, Sleepers, Ready
  <2>2. QED
    BY <1>0, <1>1, <2>1
<1>12. ASSUME NEW w \in Threads, WorkerRemove(w) PROVE WakeupsFor'
  <2>1. /\ UNCHANGED wait_queue /\ w \notin Ready
        /\ \A v \in Threads : pc'[v] = IF v = w THEN "lock" ELSE pc[v]
    BY <1>12, <1>a DEF WorkerRemove, Ready
  <2>2. QED
    BY <1>3, <2>1
<1>13. ASSUME NEW t \in Actors, SpuriousWakeup(t) PROVE WakeupsFor'
  <2>1. CASE t = Main
    <3>1. UNCHANGED wait_queue /\ \A w \in Threads : pc'[w] = pc[w]
      BY <1>13, <1>a, <2>1 DEF SpuriousWakeup
    <3>2. QED
      BY <1>2, <3>1
  <2>2. CASE t \in Threads
    <3>1. /\ UNCHANGED wait_queue /\ t \notin Ready
          /\ \A v \in Threads : pc'[v] = IF v = t THEN "lock" ELSE pc[v]
      BY <1>13, <1>a, <2>2 DEF SpuriousWakeup, Ready
    <3>2. QED
      BY <1>3, <2>2, <3>1
  <2>3. QED
    BY <2>1, <2>2 DEF Actors
<1>14. ASSUME UNCHANGED vars PROVE WakeupsFor'
  BY <1>2, <1>14 DEF vars
<1>15. QED
  BY <1>4, <1>5, <1>6, <1>7, <1>8, <1>9, <1>10, <1>11, <1>12, <1>13, <1>14
     DEF Next, MainSteps, WorkerSteps

LEMMA MainSleepsStep ==
  Typed /\ MainSleepsOnFull /\ [Next]_vars => MainSleepsOnFull'
<1> SUFFICES ASSUME Typed, MainSleepsOnFull, [Next]_vars, pc'[Main] = "cond_block"
             PROVE  Full'
  BY DEF MainSleepsOnFull
<1>a. pc \in [Actors -> {"accept", "lock", "admit", "cond_block", "dropping", "enqueue",
                          "check", "cond", "handle", "close", "lock_done", "remove"}]
  BY DEF Typed, TypeOK
<1>0. /\ Len(wait_queue) \in Nat /\ Len(worker_queue) \in Nat /\ queue_max_size \in Nat
      /\ Full <=> Total = queue_max_size
  BY TotalTyped DEF Typed, Full, Total, queueCurrSize
<1> USE ConstantFacts DEF Goto, args, queues, kernel
<1>1. ASSUME UNCHANGED <<queues, queue_max_size>>, Full PROVE Full'
  BY <1>1 DEF Full
<1>2. ASSUME MainBlock PROVE Full'
  BY <1>1, <1>2 DEF MainBlock
<1>3. ASSUME \/ MainAccept \/ MainLock \/ MainHasRoom \/ MainDropNew \/ MainDropHead
             \/ MainStartRandom \/ MainDropRandom \/ MainUnknownPolicy \/ MainEnqueue
      PROVE  FALSE
  BY <1>3, <1>a DEF MainAccept, MainLock, Lock, MainHasRoom, MainDropNew, MainDropHead,
                    MainStartRandom, MainDropRandom, MainUnknownPolicy, MainEnqueue, Sleepers
<1>4. ASSUME NEW w \in Threads, WorkerTake(w) PROVE Full'
  <2>1. pc[Main] = "cond_block" /\ queue_max_size' = queue_max_size
    BY <1>4, <1>a DEF WorkerTake
  <2>2. Total = queue_max_size
    BY <1>0, <2>1 DEF MainSleepsOnFull
  <2>3. Total' = Total
    BY <1>0, <1>4, <2>2, TakeMoves
  <2>4. QED
    BY <2>1, <2>2, <2>3 DEF Full, Total, queueCurrSize
<1>5. ASSUME NEW w \in Threads, WorkerRemove(w) PROVE FALSE
  BY <1>5, <1>a DEF WorkerRemove
<1>6. ASSUME NEW w \in Threads,
             \/ WorkerLock(w) \/ WorkerLockDone(w) \/ WorkerSleep(w) \/ WorkerHandle(w)
             \/ WorkerIoError(w) \/ WorkerClose(w) \/ WorkerFaults(w)
      PROVE  Full'
  <2>1. UNCHANGED <<queues, queue_max_size>> /\ pc[Main] = "cond_block"
    BY <1>6, <1>a DEF WorkerLock, WorkerLockDone, Lock, WorkerSleep, WorkerHandle,
                      WorkerIoError, WorkerClose, WorkerFaults
  <2>2. QED
    BY <1>1, <2>1 DEF MainSleepsOnFull
<1>7. ASSUME NEW t \in Actors, SpuriousWakeup(t) PROVE Full'
  <2>1. UNCHANGED <<queues, queue_max_size>> /\ pc[Main] = "cond_block"
    BY <1>7, <1>a DEF SpuriousWakeup
  <2>2. QED
    BY <1>1, <2>1 DEF MainSleepsOnFull
<1>8. ASSUME MainAcceptFails \/ UNCHANGED vars PROVE Full'
  <2>1. UNCHANGED <<queues, queue_max_size>> /\ pc[Main] = "cond_block"
    BY <1>8 DEF MainAcceptFails, vars
  <2>2. QED
    BY <1>1, <2>1 DEF MainSleepsOnFull
<1>9. QED
  BY <1>2, <1>3, <1>4, <1>5, <1>6, <1>7, <1>8 DEF Next, MainSteps, WorkerSteps

(* No wakeup of server.c is lost, for a pool of any size: the signal that  *)
(* main gives per connection, and the one a worker gives per served one,   *)
(* are enough although both wake at most one thread.                       *)
THEOREM WakeupsSuffice == Spec => []NoLostWakeup
<1>1. Init => WakeupsFor /\ MainSleepsOnFull
  BY ConstantFacts DEF Init, WakeupsFor, MainSleepsOnFull, Sleepers, Actors
<1>2. WakeupsFor /\ MainSleepsOnFull => NoLostWakeup
  BY DEF WakeupsFor, MainSleepsOnFull, NoLostWakeup, Ready
<1>3. QED
  BY <1>1, <1>2, WakeupsForStep, MainSleepsStep, AlwaysTyped, PTL DEF Spec

-----------------------------------------------------------------------------
(* The workers that have taken a connection with descriptor fd.            *)
Serving(fd) == {w \in Threads : InFlight(w) /\ job[w].value = fd}

Matched == \A fd \in Fds : Cardinality(Positions(worker_queue, fd)) = Cardinality(Serving(fd))

LEMMA ServingFinite ==
  ASSUME NEW fd
  PROVE  /\ IsFiniteSet(Serving(fd)) /\ Cardinality(Serving(fd)) \in Nat
         /\ IsFiniteSet(Serving(fd)') /\ Cardinality(Serving(fd)') \in Nat
<1>1. Serving(fd) \in SUBSET Threads /\ Serving(fd)' \in SUBSET Threads
  BY DEF Serving
<1>2. QED
  BY <1>1, ThreadsAssumption, FS_Subset, FS_CardinalityType

(* A worker about to remove its entry finds one: some entry has the same   *)
(* descriptor, and it is the one that leaves.                              *)
LEMMA RemovalFinds ==
  ASSUME Typed, Matched, Total <= queue_max_size, NEW w \in Threads, InFlight(w)
  PROVE  /\ ~ indexFaults(worker_queue, queue_max_size, JobIndex(w))
         /\ JobIndex(w) + 1 \in 1 .. Len(worker_queue)
         /\ worker_queue[JobIndex(w) + 1].value = job[w].value
         /\ dequeueByIndex(worker_queue, queue_max_size, JobIndex(w))
              = RemoveAt(worker_queue, JobIndex(w) + 1)
<1> DEFINE fd == job[w].value
<1>0. /\ worker_queue \in Seq(Jobs) /\ Len(worker_queue) \in Nat
      /\ Len(wait_queue) \in Nat /\ queue_max_size \in Nat
      /\ Len(worker_queue) <= queue_max_size
  BY TotalTyped DEF Typed, Total
<1>1. fd \in Fds /\ w \in Serving(fd)
  BY DEF Typed, LocalsSet, Jobs, Serving
<1>2. Cardinality(Positions(worker_queue, fd)) # 0
  <2>1. Cardinality(Serving(fd)) # 0
    BY <1>1, ServingFinite, FS_EmptySet
  <2>2. QED
    BY <1>1, <2>1 DEF Matched
<1>3. Positions(worker_queue, fd) # {}
  BY <1>2, FS_EmptySet
<1>4. \E i \in 1 .. Len(worker_queue) : worker_queue[i].value = fd
  BY <1>0, <1>3, LenProperties DEF Positions
<1>5. /\ JobIndex(w) \in 0 .. Len(worker_queue)
      /\ JobIndex(w) < Len(worker_queue) => worker_queue[JobIndex(w) + 1].value = fd
      /\ JobIndex(w) # Len(worker_queue)
  BY <1>0, <1>4, FindIndexProperties DEF JobIndex
<1>6. /\ JobIndex(w) \in 0 .. Len(worker_queue) - 1
      /\ JobIndex(w) + 1 \in 1 .. Len(worker_queue)
      /\ worker_queue[JobIndex(w) + 1].value = fd
  BY <1>0, <1>5
<1>7. ~ indexRejected(worker_queue, queue_max_size, JobIndex(w))
  BY <1>0, <1>6 DEF indexRejected, queueEmpty, queueCurrSize
<1>8. ~ indexFaults(worker_queue, queue_max_size, JobIndex(w))
  BY <1>0, <1>6 DEF indexFaults
<1>9. QED
  BY <1>6, <1>7, <1>8 DEF dequeueByIndex

LEMMA MatchedStep ==
  Typed /\ Room /\ Matched /\ policy \in KnownPolicies /\ [Next]_vars => Matched'
<1> SUFFICES ASSUME Typed, Room, Matched, policy \in KnownPolicies, [Next]_vars,
                    NEW fd \in Fds
             PROVE  (Cardinality(Positions(worker_queue, fd)) = Cardinality(Serving(fd)))'
  BY DEF Matched
<1> DEFINE Goal == Cardinality(Positions(worker_queue, fd)) = Cardinality(Serving(fd))
<1>0. /\ worker_queue \in Seq(Jobs) /\ wait_queue \in Seq(Jobs)
      /\ Total <= queue_max_size
      /\ Goal
      /\ Cardinality(Serving(fd)) \in Nat
  BY TotalTyped, ServingFinite DEF Typed, Room, Matched
<1>a. /\ pc \in [Actors -> {"accept", "lock", "admit", "cond_block", "dropping", "enqueue",
                            "check", "cond", "handle", "close", "lock_done", "remove"}]
      /\ job \in [Actors -> Jobs \cup {Free}]
  BY DEF Typed, TypeOK
<1> USE ConstantFacts DEF Goto, args, queues, kernel
<1>1. ASSUME UNCHANGED worker_queue, Serving(fd)' = Serving(fd) PROVE Goal'
  BY <1>0, <1>1 DEF Positions
<1>2. ASSUME UNCHANGED worker_queue,
             \A w \in Threads : pc'[w] = pc[w] /\ job'[w] = job[w]
      PROVE  Goal'
  <2>1. Serving(fd)' = Serving(fd)
    BY <1>2 DEF Serving, InFlight
  <2>2. QED
    BY <1>1, <1>2, <2>1
<1>3. ASSUME \/ MainAccept \/ MainAcceptFails \/ MainLock \/ MainHasRoom \/ MainBlock
             \/ MainDropNew \/ MainDropHead \/ MainStartRandom \/ MainDropRandom
             \/ MainUnknownPolicy
      PROVE  Goal'
  <2>1. /\ UNCHANGED worker_queue
        /\ \A w \in Threads : pc'[w] = pc[w] /\ job'[w] = job[w]
    BY <1>3, <1>a DEF MainAccept, MainAcceptFails, MainLock, Lock, MainHasRoom, MainBlock,
                      MainDropNew, MainDropHead, MainStartRandom, MainDropRandom,
                      MainUnknownPolicy
  <2>2. QED
    BY <1>2, <2>1
<1>4. ASSUME MainEnqueue PROVE Goal'
  <2>1. /\ UNCHANGED worker_queue
        /\ \A w \in Threads : job'[w] = job[w] /\ (InFlight(w)' <=> InFlight(w))
    BY <1>4, <1>a DEF MainEnqueue, Sleepers, InFlight
  <2>2. Serving(fd)' = Serving(fd)
    BY <2>1 DEF Serving
  <2>3. QED
    BY <1>1, <2>1, <2>2
<1>5. ASSUME NEW w \in Threads, WorkerTake(w) PROVE Goal'
  <2>1. /\ worker_queue' = Append(worker_queue, Head(wait_queue))
        /\ Head(wait_queue) \in Jobs
    BY <1>0, <1>5, TakeMoves, DequeueProperties
  <2>2. Cardinality(Positions(worker_queue', fd)) =
          IF Head(wait_queue).value = fd THEN Cardinality(Positions(worker_queue, fd)) + 1
          ELSE Cardinality(Positions(worker_queue, fd))
    BY <1>0, <2>1, PositionsAfterAppend
  <2>3. w \notin Serving(fd)
    BY <1>5 DEF WorkerTake, Serving, InFlight
  <2>4. CASE Head(wait_queue).value = fd
    <3>1. Serving(fd)' = Serving(fd) \cup {w}
      BY <1>5, <1>a, <2>4 DEF WorkerTake, Serving, InFlight
    <3>2. Cardinality(Serving(fd) \cup {w}) = Cardinality(Serving(fd)) + 1
      BY <2>3, ServingFinite, FS_AddElement, Zenon
    <3>3. QED
      BY <1>0, <2>2, <2>4, <3>1, <3>2 DEF Positions
  <2>5. CASE Head(wait_queue).value # fd
    <3>1. Serving(fd)' = Serving(fd)
      BY <1>5, <1>a, <2>3, <2>5 DEF WorkerTake, Serving, InFlight
    <3>2. QED
      BY <1>0, <2>2, <2>5, <3>1 DEF Positions
  <2>6. QED
    BY <2>4, <2>5
<1>6. ASSUME NEW w \in Threads, WorkerRemove(w) PROVE Goal'
  <2>1. InFlight(w)
    BY <1>6 DEF WorkerRemove, InFlight
  <2>2. /\ JobIndex(w) + 1 \in 1 .. Len(worker_queue)
        /\ worker_queue[JobIndex(w) + 1].value = job[w].value
        /\ worker_queue' = RemoveAt(worker_queue, JobIndex(w) + 1)
    BY <1>0, <1>6, <2>1, RemovalFinds DEF WorkerRemove
  <2>3. Cardinality(Positions(worker_queue', fd)) =
          IF job[w].value = fd THEN Cardinality(Positions(worker_queue, fd)) - 1
          ELSE Cardinality(Positions(worker_queue, fd))
    BY <1>0, <2>2, PositionsAfterRemoval
  <2>4. Serving(fd)' = Serving(fd) \ {w}
    BY <1>6, <1>a DEF WorkerRemove, Serving, InFlight
  <2>5. w \in Serving(fd) <=> job[w].value = fd
    BY <2>1 DEF Serving
  <2>6. Cardinality(Serving(fd) \ {w}) =
          IF w \in Serving(fd) THEN Cardinality(Serving(fd)) - 1 ELSE Cardinality(Serving(fd))
    BY ServingFinite, FS_RemoveElement, Zenon
  <2>7. QED
    BY <1>0, <2>3, <2>4, <2>5, <2>6 DEF Positions
<1>7. ASSUME NEW w \in Threads,
             WorkerHandle(w) \/ WorkerIoError(w) \/ WorkerClose(w) \/ WorkerLockDone(w)
             \/ WorkerLock(w) \/ WorkerSleep(w) \/ WorkerFaults(w)
      PROVE  Goal'
  <2>1. UNCHANGED <<worker_queue, job>> /\ \A v \in Threads : InFlight(v)' <=> InFlight(v)
    BY <1>7, <1>a DEF WorkerHandle, WorkerIoError, WorkerClose, WorkerLockDone, WorkerLock,
                      Lock, WorkerSleep, WorkerFaults, InFlight
  <2>2. Serving(fd)' = Serving(fd)
    BY <2>1 DEF Serving
  <2>3. QED
    BY <1>1, <2>1, <2>2
<1>8. ASSUME NEW t \in Actors, SpuriousWakeup(t) PROVE Goal'
  <2>1. UNCHANGED <<worker_queue, job>> /\ \A v \in Threads : InFlight(v)' <=> InFlight(v)
    BY <1>8, <1>a DEF SpuriousWakeup, InFlight
  <2>2. Serving(fd)' = Serving(fd)
    BY <2>1 DEF Serving
  <2>3. QED
    BY <1>1, <2>1, <2>2
<1>9. ASSUME UNCHANGED vars PROVE Goal'
  BY <1>2, <1>9 DEF vars
<1>10. QED
  BY <1>3, <1>4, <1>5, <1>6, <1>7, <1>8, <1>9 DEF Next, MainSteps, WorkerSteps

(* The server has not fallen off the list, and will not in its next step.  *)
EntriesInv == policy \in KnownPolicies => status # "segfault" /\ Matched

LEMMA EntriesStep == Typed /\ Room /\ EntriesInv /\ [Next]_vars => EntriesInv'
<1> SUFFICES ASSUME Typed, Room, EntriesInv, [Next]_vars, policy' \in KnownPolicies
             PROVE  status' # "segfault" /\ Matched'
  BY DEF EntriesInv
<1>1. policy' = policy
  BY DEF Next, MainSteps, WorkerSteps, MainAccept, MainAcceptFails, MainLock, MainHasRoom,
         MainBlock, MainDropNew, MainDropHead, MainStartRandom, MainDropRandom,
         MainUnknownPolicy, MainEnqueue, WorkerLock, WorkerLockDone, Lock, WorkerSleep,
         WorkerTake, WorkerHandle, WorkerIoError, WorkerClose, WorkerRemove, WorkerFaults,
         SpuriousWakeup, vars, args
<1>2. policy \in KnownPolicies /\ status # "segfault" /\ Matched /\ Total <= queue_max_size
  BY <1>1 DEF EntriesInv, Room
<1>3. Matched'
  BY <1>2, MatchedStep
<1>4. \A w \in Threads : ~ WorkerFaults(w)
  BY <1>2, RemovalFinds DEF WorkerFaults, InFlight
<1>5. status' # "segfault"
  BY <1>2, <1>4
     DEF Next, MainSteps, WorkerSteps, MainAccept, MainAcceptFails, MainLock, MainHasRoom,
         MainBlock, MainDropNew, MainDropHead, MainStartRandom, MainDropRandom,
         MainUnknownPolicy, MainEnqueue, WorkerLock, WorkerLockDone, Lock, WorkerSleep,
         WorkerTake, WorkerHandle, WorkerIoError, WorkerClose, WorkerRemove,
         SpuriousWakeup, Close, vars
<1>6. QED
  BY <1>3, <1>5

LEMMA AlwaysEntries == Spec => []EntriesInv
<1>1. Init => EntriesInv
  <2> SUFFICES ASSUME Init PROVE status # "segfault" /\ Matched
    BY DEF EntriesInv
  <2>1. \A fd \in Fds : Positions(worker_queue, fd) = {} /\ Serving(fd) = {}
    BY ConstantFacts, EmptySeq, LenProperties DEF Init, Positions, Serving, InFlight, Actors
  <2>2. QED
    BY <2>1 DEF Init, Matched
<1>2. QED
  BY <1>1, EntriesStep, AlwaysTyped, AlwaysRoom, PTL DEF Spec

(* A worker that finishes always finds an entry with its descriptor, even  *)
(* while the descriptor is already in use for another connection: under a  *)
(* known policy thread_function never dereferences NULL in dequeueByIndex. *)
THEOREM EntriesMatchJobs == Spec => []EveryJobHasItsEntry
<1>1. EntriesInv => EveryJobHasItsEntry
  BY DEF EntriesInv, Matched, EveryJobHasItsEntry, Positions, Serving
<1>2. QED
  BY <1>1, AlwaysEntries, PTL

-----------------------------------------------------------------------------
(* A thread that has a connection in its locals, also after closing it.    *)
Holds(t) == IF t = Main THEN OwnsSocket(Main) ELSE InFlight(t)

(* No connection is in two places: the arrival times in wait_queue         *)
(* increase and differ from those the threads hold, which differ from each *)
(* other; main holds the last connection that arrived.                     *)
QueuedApart ==
  /\ \A i, k \in 1 .. Len(wait_queue) :
       i < k => wait_queue[i].arrival_time < wait_queue[k].arrival_time
  /\ \A i \in 1 .. Len(wait_queue) : wait_queue[i].arrival_time <= clock

HeldApart ==
  /\ \A i \in 1 .. Len(wait_queue), t \in Actors :
       Holds(t) => wait_queue[i].arrival_time # job[t].arrival_time
  /\ \A t, u \in Actors :
       Holds(t) /\ Holds(u) /\ t # u => job[t].arrival_time # job[u].arrival_time
  /\ \A t \in Actors : Holds(t) => job[t].arrival_time <= clock
  /\ OwnsSocket(Main) => job[Main].arrival_time = clock

Distinct == policy \in KnownPolicies => QueuedApart /\ HeldApart

LEMMA ArgsKept == [Next]_vars => UNCHANGED args
  BY DEF Next, MainSteps, WorkerSteps, MainAccept, MainAcceptFails, MainLock, MainHasRoom,
         MainBlock, MainDropNew, MainDropHead, MainStartRandom, MainDropRandom,
         MainUnknownPolicy, MainEnqueue, WorkerLock, WorkerLockDone, Lock, WorkerSleep,
         WorkerTake, WorkerHandle, WorkerIoError, WorkerClose, WorkerRemove, WorkerFaults,
         SpuriousWakeup, vars, args

(* The queue without its k-th node, node by node.                          *)
Removed(k) ==
  /\ Len(wait_queue') = Len(wait_queue) - 1
  /\ \A i \in 1 .. Len(wait_queue) - 1 :
       wait_queue'[i] = IF i < k THEN wait_queue[i] ELSE wait_queue[i + 1]

LEMMA HeadRemoved ==
  ASSUME Typed, ~ queueEmpty(wait_queue), wait_queue' = dequeue(wait_queue)
  PROVE  /\ 1 \in 1 .. Len(wait_queue) /\ Removed(1)
         /\ Head(wait_queue) = wait_queue[1] /\ wait_queue[1] \in Jobs
<1>1. wait_queue \in Seq(Jobs)
  BY TotalTyped DEF Typed
<1>2. QED
  BY <1>1, DequeueProperties DEF Removed

LEMMA RandomRemoved ==
  ASSUME Typed, Total <= queue_max_size, NEW index \in 0 .. queueCurrSize(wait_queue) - 1,
         wait_queue' = dequeueByIndex(wait_queue, queue_max_size, index)
  PROVE  index + 1 \in 1 .. Len(wait_queue) /\ Removed(index + 1)
<1>1. /\ wait_queue \in Seq(Jobs) /\ Len(wait_queue) \in Nat
      /\ Len(worker_queue) \in Nat /\ queue_max_size \in Nat
  BY TotalTyped DEF Typed
<1>2. index + 1 \in 1 .. Len(wait_queue) /\ index < queue_max_size /\ index >= 0
  BY <1>1 DEF queueCurrSize, Total
<1>3. ~ indexRejected(wait_queue, queue_max_size, index)
  BY <1>1, <1>2 DEF indexRejected, queueEmpty, queueCurrSize
<1>4. wait_queue' = RemoveAt(wait_queue, index + 1)
  BY <1>3 DEF dequeueByIndex
<1>5. PICK k \in 1 .. Len(wait_queue) : k = index + 1
  BY <1>2
<1>6. /\ Len(wait_queue') = Len(wait_queue) - 1
      /\ \A i \in 1 .. Len(wait_queue) - 1 :
           wait_queue'[i] = IF i < k THEN wait_queue[i] ELSE wait_queue[i + 1]
  BY <1>1, <1>4, <1>5, RemoveAtProperties
<1>7. QED
  BY <1>2, <1>5, <1>6 DEF Removed

(* With room in the server the new connection goes to the end.             *)
LEMMA Enqueued ==
  ASSUME Typed, Total < queue_max_size, MainEnqueue
  PROVE  /\ Len(wait_queue') = Len(wait_queue) + 1
         /\ \A i \in 1 .. Len(wait_queue) : wait_queue'[i] = wait_queue[i]
         /\ wait_queue'[Len(wait_queue) + 1] = job[Main]
<1>1. /\ wait_queue \in Seq(Jobs) /\ Len(wait_queue) \in Nat
      /\ Len(worker_queue) \in Nat /\ queue_max_size \in Nat
  BY TotalTyped DEF Typed
<1>2. job[Main] \in Jobs
  BY DEF MainEnqueue, Typed, LocalsSet, OwnsSocket
<1>3. wait_queue' = Append(wait_queue, job[Main])
  BY <1>1 DEF MainEnqueue, enqueue, queueFull, queueCurrSize, Total
<1>4. QED
  BY <1>1, <1>2, <1>3, AppendProperties

LEMMA DistinctStep == Typed /\ Room /\ Distinct /\ [Next]_vars => Distinct'
<1> SUFFICES ASSUME Typed, Room, Distinct, [Next]_vars, policy' \in KnownPolicies
             PROVE  QueuedApart' /\ HeldApart'
  BY DEF Distinct
<1> DEFINE Goal == QueuedApart /\ HeldApart
<1>0. /\ wait_queue \in Seq(Jobs) /\ Len(wait_queue) \in Nat
      /\ clock \in Nat
      /\ policy \in KnownPolicies
      /\ Total <= queue_max_size /\ (pc[Main] = "enqueue" => Total < queue_max_size)
  BY TotalTyped, ArgsKept, NumbersAssumption DEF Typed, TypeOK, Room, args
<1>a. /\ pc \in [Actors -> {"accept", "lock", "admit", "cond_block", "dropping", "enqueue",
                            "check", "cond", "handle", "close", "lock_done", "remove"}]
      /\ job \in [Actors -> Jobs \cup {Free}]
  BY DEF Typed, TypeOK
<1>b. QueuedApart /\ HeldApart
  BY <1>0 DEF Distinct
<1>c. /\ \A i \in 1 .. Len(wait_queue) : wait_queue[i].arrival_time \in Nat
      /\ \A t \in Actors : Holds(t) => job[t].arrival_time \in Nat
  <2>1. \A i \in 1 .. Len(wait_queue) : wait_queue[i] \in Jobs
    BY <1>0, ElementOfSeq
  <2>2. \A t \in Actors : Holds(t) => job[t] \in Jobs
    BY DEF Typed, LocalsSet, Holds, Actors
  <2>3. QED
    BY <2>1, <2>2 DEF Jobs, Conns
<1> USE ConstantFacts DEF Goto, args, queues, kernel
<1>1. ASSUME UNCHANGED <<wait_queue, clock>>,
             \A t \in Actors : Holds(t)' => Holds(t) /\ job'[t] = job[t]
      PROVE  Goal'
  <2>1. QueuedApart'
    BY <1>1, <1>b DEF QueuedApart
  <2>2. OwnsSocket(Main)' => OwnsSocket(Main) /\ job'[Main] = job[Main]
    BY <1>1 DEF Holds
  <2>3. HeldApart'
    BY <1>1, <1>b, <2>2 DEF HeldApart
  <2>4. QED
    BY <2>1, <2>3
<1>2. ASSUME NEW k \in 1 .. Len(wait_queue), Removed(k), UNCHANGED clock PROVE QueuedApart'
  <2> DEFINE old(i) == IF i < k THEN i ELSE i + 1
  <2>1. \A i \in 1 .. Len(wait_queue') :
          old(i) \in 1 .. Len(wait_queue) /\ wait_queue'[i] = wait_queue[old(i)]
    BY <1>0, <1>2 DEF Removed
  <2>2. \A i, j \in 1 .. Len(wait_queue') : i < j => old(i) < old(j)
    BY <1>0, <1>2 DEF Removed
  <2> HIDE DEF old
  <2>3. QED
    BY <1>2, <1>b, <2>1, <2>2 DEF QueuedApart
<1>3. ASSUME NEW k \in 1 .. Len(wait_queue), Removed(k), UNCHANGED clock,
             \A t \in Actors : Holds(t)' => Holds(t) /\ job'[t] = job[t]
      PROVE  Goal'
  <2>1. \A i \in 1 .. Len(wait_queue') : \E j \in 1 .. Len(wait_queue) :
          wait_queue'[i] = wait_queue[j]
    BY <1>0, <1>3 DEF Removed
  <2>2. OwnsSocket(Main)' => OwnsSocket(Main) /\ job'[Main] = job[Main]
    BY <1>3 DEF Holds
  <2>3. HeldApart'
    BY <1>3, <1>b, <2>1, <2>2 DEF HeldApart
  <2>4. QED
    BY <1>2, <1>3, <2>3
<1>4. ASSUME MainAccept PROVE Goal'
  <2>1. PICK fd \in Fds : job' = [job EXCEPT ![Main] = [value |-> fd, arrival_time |-> clock + 1]]
    BY <1>4 DEF MainAccept
  <2>2. /\ UNCHANGED wait_queue /\ clock' = clock + 1
        /\ job'[Main].arrival_time = clock + 1
        /\ \A t \in Threads : job'[t] = job[t] /\ pc'[t] = pc[t]
    BY <1>4, <1>a, <2>1 DEF MainAccept
  <2>3. \A t \in Threads : Holds(t)' <=> Holds(t)
    BY <2>2 DEF Holds, InFlight
  <2>4. QueuedApart'
    <3>1. \A i \in 1 .. Len(wait_queue) : wait_queue[i].arrival_time <= clock + 1
      BY <1>0, <1>b, <1>c DEF QueuedApart
    <3>2. QED
      BY <1>b, <2>2, <3>1 DEF QueuedApart
  <2>5. HeldApart'
    BY <1>0, <1>b, <1>c, <2>2, <2>3, SMTT(30) DEF HeldApart, QueuedApart, Actors
  <2>6. QED
    BY <2>4, <2>5
<1>5. ASSUME MainDropHead PROVE Goal'
  <2>1. /\ 1 \in 1 .. Len(wait_queue) /\ Removed(1)
        /\ UNCHANGED <<clock, job>> /\ \A t \in Actors : Holds(t)' => Holds(t)
    BY <1>5, <1>a, HeadRemoved DEF MainDropHead, AtAdmit, Holds, OwnsSocket, InFlight
  <2>2. QED
    BY <1>3, <2>1
<1>6. ASSUME MainDropRandom PROVE Goal'
  <2>1. PICK index \in 0 .. queueCurrSize(wait_queue) - 1 :
          wait_queue' = dequeueByIndex(wait_queue, queue_max_size, index)
    BY <1>6 DEF MainDropRandom
  <2>2. /\ index + 1 \in 1 .. Len(wait_queue) /\ Removed(index + 1)
        /\ UNCHANGED <<clock, job>> /\ \A t \in Actors : Holds(t)' => Holds(t)
    BY <1>0, <1>6, <1>a, <2>1, RandomRemoved DEF MainDropRandom, Holds, OwnsSocket, InFlight
  <2>3. QED
    BY <1>3, <2>2
<1>7. ASSUME MainEnqueue PROVE Goal'
  <2>1. /\ Len(wait_queue') = Len(wait_queue) + 1
        /\ \A i \in 1 .. Len(wait_queue) : wait_queue'[i] = wait_queue[i]
        /\ wait_queue'[Len(wait_queue) + 1] = job[Main]
    BY <1>0, <1>7, Enqueued DEF MainEnqueue
  <2>2. Holds(Main) /\ job[Main].arrival_time = clock
    BY <1>7, <1>b DEF MainEnqueue, Holds, OwnsSocket, HeldApart
  <2>3. /\ ~ OwnsSocket(Main)' /\ UNCHANGED clock
        /\ \A t \in Threads : job'[t] = job[t] /\ (InFlight(t)' => InFlight(t))
    BY <1>7, <1>a DEF MainEnqueue, Sleepers, OwnsSocket, InFlight
  <2>4. \A t \in Actors : Holds(t)' => t # Main /\ Holds(t) /\ job'[t] = job[t]
    BY <2>3 DEF Holds, Actors
  <2>5. QueuedApart'
    <3>1. \A i \in 1 .. Len(wait_queue) :
            wait_queue'[i] = wait_queue[i] /\ wait_queue[i].arrival_time < clock
      BY <1>0, <1>b, <1>c, <2>1, <2>2 DEF QueuedApart, HeldApart
    <3>2. wait_queue'[Len(wait_queue) + 1].arrival_time = clock /\ clock' = clock
      BY <2>1, <2>2, <2>3
    <3>3. \A i, k \in 1 .. Len(wait_queue') : i < k =>
            i \in 1 .. Len(wait_queue) /\ (k \in 1 .. Len(wait_queue) \/ k = Len(wait_queue) + 1)
      BY <1>0, <2>1
    <3>4. ASSUME NEW i \in 1 .. Len(wait_queue'), NEW k \in 1 .. Len(wait_queue'), i < k
          PROVE  wait_queue'[i].arrival_time < wait_queue'[k].arrival_time
      <4>1. CASE k \in 1 .. Len(wait_queue)
        BY <1>b, <3>1, <3>3, <3>4, <4>1 DEF QueuedApart
      <4>2. CASE k = Len(wait_queue) + 1
        BY <3>1, <3>2, <3>3, <3>4, <4>2
      <4>3. QED
        BY <3>3, <3>4, <4>1, <4>2
    <3>5. ASSUME NEW i \in 1 .. Len(wait_queue') PROVE wait_queue'[i].arrival_time <= clock'
      <4>1. i \in 1 .. Len(wait_queue) \/ i = Len(wait_queue) + 1
        BY <1>0, <2>1
      <4>2. QED
        BY <1>0, <1>c, <3>1, <3>2, <4>1
    <3>6. QED
      BY <3>4, <3>5 DEF QueuedApart
  <2>6. HeldApart'
    BY <1>0, <1>b, <1>c, <2>1, <2>2, <2>3, <2>4 DEF HeldApart
  <2>7. QED
    BY <2>5, <2>6
<1>8. ASSUME NEW w \in Threads, WorkerTake(w) PROVE Goal'
  <2>1. /\ 1 \in 1 .. Len(wait_queue) /\ Removed(1)
        /\ Head(wait_queue) = wait_queue[1]
    BY <1>8, HeadRemoved DEF WorkerTake
  <2>2. /\ UNCHANGED clock /\ ~ Holds(w) /\ job'[w] = wait_queue[1]
        /\ \A t \in Actors : t # w => job'[t] = job[t] /\ (Holds(t)' => Holds(t))
        /\ OwnsSocket(Main)' => OwnsSocket(Main)
    BY <1>8, <1>a, <2>1 DEF WorkerTake, Holds, OwnsSocket, InFlight
  <2>3. \A i \in 1 .. Len(wait_queue') : \E j \in 2 .. Len(wait_queue) :
          wait_queue'[i] = wait_queue[j]
    BY <1>0, <2>1 DEF Removed
  <2>4. \A j \in 2 .. Len(wait_queue) : wait_queue[1].arrival_time < wait_queue[j].arrival_time
    BY <1>0, <1>b, <2>1 DEF QueuedApart
  <2>5. \A i \in 1 .. Len(wait_queue'), t \in Actors :
          Holds(t)' => wait_queue'[i].arrival_time # job'[t].arrival_time
    <3> SUFFICES ASSUME NEW i \in 1 .. Len(wait_queue'), NEW t \in Actors, Holds(t)'
                 PROVE  wait_queue'[i].arrival_time # job'[t].arrival_time
      OBVIOUS
    <3>1. PICK j \in 2 .. Len(wait_queue) : wait_queue'[i] = wait_queue[j]
      BY <2>3
    <3>2. j \in 1 .. Len(wait_queue)
      BY <1>0
    <3>3. CASE t = w
      BY <1>c, <2>1, <2>2, <2>4, <3>1, <3>2, <3>3
    <3>4. CASE t # w
      BY <1>b, <2>2, <3>1, <3>2, <3>4 DEF HeldApart
    <3>5. QED
      BY <3>3, <3>4
  <2>6. \A t, u \in Actors : Holds(t)' /\ Holds(u)' /\ t # u =>
          job'[t].arrival_time # job'[u].arrival_time
    BY <1>b, <2>1, <2>2 DEF HeldApart
  <2>7. \A t \in Actors : Holds(t)' => job'[t].arrival_time <= clock'
    BY <1>b, <2>1, <2>2 DEF HeldApart, QueuedApart
  <2>8. OwnsSocket(Main)' => job'[Main].arrival_time = clock'
    BY <1>b, <2>2 DEF HeldApart
  <2>9. HeldApart'
    BY <2>5, <2>6, <2>7, <2>8 DEF HeldApart
  <2>10. QED
    BY <1>2, <2>1, <2>2, <2>9
<1>9. ASSUME MainAcceptFails \/ MainLock \/ MainHasRoom \/ MainBlock \/ MainDropNew
             \/ MainStartRandom \/ MainUnknownPolicy \/ UNCHANGED vars
      PROVE  Goal'
  <2>1. /\ UNCHANGED <<wait_queue, clock>>
        /\ \A t \in Actors : Holds(t)' => Holds(t) /\ job'[t] = job[t]
    BY <1>9, <1>a DEF MainAcceptFails, MainLock, Lock, MainHasRoom, MainBlock, MainDropNew,
                      MainStartRandom, MainUnknownPolicy, AtAdmit, vars, Holds, OwnsSocket,
                      InFlight
  <2>2. QED
    BY <1>1, <2>1
<1>10. ASSUME NEW w \in Threads,
              \/ WorkerLock(w) \/ WorkerLockDone(w) \/ WorkerSleep(w) \/ WorkerHandle(w)
              \/ WorkerIoError(w) \/ WorkerClose(w) \/ WorkerRemove(w) \/ WorkerFaults(w)
       PROVE  Goal'
  <2>1. /\ UNCHANGED <<wait_queue, clock>>
        /\ \A t \in Actors : Holds(t)' => Holds(t) /\ job'[t] = job[t]
    BY <1>10, <1>a DEF WorkerLock, WorkerLockDone, Lock, WorkerSleep, WorkerHandle,
                       WorkerIoError, WorkerClose, WorkerRemove, WorkerFaults, Holds,
                       OwnsSocket, InFlight
  <2>2. QED
    BY <1>1, <2>1
<1>11. ASSUME NEW u \in Actors, SpuriousWakeup(u) PROVE Goal'
  <2>1. /\ UNCHANGED <<wait_queue, clock>>
        /\ \A t \in Actors : Holds(t)' => Holds(t) /\ job'[t] = job[t]
    <3>1. CASE u = Main
      BY <1>11, <1>a, <3>1 DEF SpuriousWakeup, Holds, OwnsSocket, InFlight, Typed, TypeOK
    <3>2. CASE u # Main
      BY <1>11, <1>a, <3>2 DEF SpuriousWakeup, Holds, OwnsSocket, InFlight, Typed, TypeOK
    <3>3. QED
      BY <3>1, <3>2
  <2>2. QED
    BY <1>1, <2>1
<1>12. QED
  BY <1>4, <1>5, <1>6, <1>7, <1>8, <1>9, <1>10, <1>11 DEF Next, MainSteps, WorkerSteps

LEMMA AlwaysDistinct == Spec => []Distinct
<1>1. Init => Distinct
  BY ConstantFacts DEF Init, Distinct, QueuedApart, HeldApart, Holds, OwnsSocket, InFlight, Actors
<1>2. QED
  BY <1>1, DistinctStep, AlwaysTyped, AlwaysRoom, PTL DEF Spec

-----------------------------------------------------------------------------
(* The descriptor of every connection that waits, or that a thread has not *)
(* closed yet, is open and stands for that connection; every open one has  *)
(* such an owner.                                                          *)
OpenQueued ==
  \A i \in 1 .. Len(wait_queue) : sock[wait_queue[i].value] = wait_queue[i].arrival_time

OpenHeld ==
  \A t \in Actors : OwnsSocket(t) => sock[job[t].value] = job[t].arrival_time

OpenOwned ==
  \A fd \in Fds : sock[fd] # 0 =>
    \/ \E i \in 1 .. Len(wait_queue) : wait_queue[i].value = fd
    \/ \E t \in Actors : OwnsSocket(t) /\ job[t].value = fd

Opened == policy \in KnownPolicies => OpenQueued /\ OpenHeld /\ OpenOwned

LEMMA OpenedStep == Typed /\ Room /\ Distinct /\ Opened /\ [Next]_vars => Opened'
<1> SUFFICES ASSUME Typed, Room, Distinct, Opened, [Next]_vars, policy' \in KnownPolicies
             PROVE  OpenQueued' /\ OpenHeld' /\ OpenOwned'
  BY DEF Opened
<1> DEFINE Goal == OpenQueued /\ OpenHeld /\ OpenOwned
<1>0. /\ wait_queue \in Seq(Jobs) /\ Len(wait_queue) \in Nat
      /\ policy \in KnownPolicies
      /\ Total <= queue_max_size /\ (pc[Main] = "enqueue" => Total < queue_max_size)
  BY TotalTyped, ArgsKept DEF Typed, Room, args
<1>a. /\ pc \in [Actors -> {"accept", "lock", "admit", "cond_block", "dropping", "enqueue",
                            "check", "cond", "handle", "close", "lock_done", "remove"}]
      /\ pc[Main] \in {"accept", "lock", "admit", "cond_block", "dropping", "enqueue"}
      /\ \A w \in Threads :
           pc[w] \in {"lock", "check", "cond", "handle", "close", "lock_done", "remove"}
      /\ job \in [Actors -> Jobs \cup {Free}]
      /\ sock \in [Fds -> 0 .. MaxConns]
  BY DEF Typed, TypeOK
<1>b. OpenQueued /\ OpenHeld /\ OpenOwned /\ QueuedApart /\ HeldApart
  BY <1>0 DEF Opened, Distinct
<1>c. /\ \A i \in 1 .. Len(wait_queue) :
           wait_queue[i].value \in Fds /\ wait_queue[i].arrival_time \in Nat \ {0}
      /\ \A t \in Actors : OwnsSocket(t) =>
           job[t].value \in Fds /\ job[t].arrival_time \in Nat \ {0}
      /\ \A t \in Actors : OwnsSocket(t) => Holds(t)
  <2>1. \A i \in 1 .. Len(wait_queue) : wait_queue[i] \in Jobs
    BY <1>0, ElementOfSeq
  <2>2. \A t \in Actors : OwnsSocket(t) => Holds(t) /\ job[t] \in Jobs
    BY DEF Typed, LocalsSet, Holds, OwnsSocket, InFlight, Actors
  <2>3. QED
    BY <2>1, <2>2 DEF Jobs, Conns
<1>d. \A i, k \in 1 .. Len(wait_queue) :
        i # k => wait_queue[i].arrival_time # wait_queue[k].arrival_time
  BY <1>0, <1>b, <1>c DEF QueuedApart
<1> USE ConstantFacts DEF Goto, args, queues, kernel
<1>1. ASSUME UNCHANGED <<wait_queue, sock>>,
             \A t \in Actors : (OwnsSocket(t)' <=> OwnsSocket(t)) /\ (OwnsSocket(t) => job'[t] = job[t])
      PROVE  Goal'
  BY <1>1, <1>b DEF OpenQueued, OpenHeld, OpenOwned
<1>2. ASSUME MainAccept PROVE Goal'
  <2>1. PICK fd \in Fds :
          /\ sock[fd] = 0
          /\ sock' = [sock EXCEPT ![fd] = clock + 1]
          /\ job' = [job EXCEPT ![Main] = [value |-> fd, arrival_time |-> clock + 1]]
    BY <1>2 DEF MainAccept
  <2>2. /\ UNCHANGED wait_queue
        /\ job'[Main] = [value |-> fd, arrival_time |-> clock + 1]
        /\ OwnsSocket(Main)' /\ ~ OwnsSocket(Main)
        /\ \A t \in Threads : job'[t] = job[t] /\ (OwnsSocket(t)' <=> OwnsSocket(t))
        /\ \A f \in Fds : sock'[f] = IF f = fd THEN clock + 1 ELSE sock[f]
    BY <1>2, <1>a, <2>1 DEF MainAccept, OwnsSocket
  <2>3. \A i \in 1 .. Len(wait_queue) : wait_queue[i].value # fd
    BY <1>b, <1>c, <2>1 DEF OpenQueued
  <2>4. \A t \in Actors : OwnsSocket(t) => job[t].value # fd
    BY <1>b, <1>c, <2>1 DEF OpenHeld
  <2>5. OpenQueued'
    BY <1>b, <1>c, <2>2, <2>3 DEF OpenQueued
  <2>6. OpenHeld'
    BY <1>b, <1>c, <2>2, <2>4 DEF OpenHeld, Actors
  <2>7. OpenOwned'
    BY <1>b, <2>2 DEF OpenOwned, Actors
  <2>8. QED
    BY <2>5, <2>6, <2>7
<1>3. ASSUME NEW u \in Actors, OwnsSocket(u), Close(job[u].value), UNCHANGED wait_queue,
             ~ OwnsSocket(u)',
             \A t \in Actors : t # u =>
               (OwnsSocket(t)' <=> OwnsSocket(t)) /\ (OwnsSocket(t) => job'[t] = job[t])
      PROVE  Goal'
  <2>1. sock[job[u].value] = job[u].arrival_time /\ sock[job[u].value] # 0
    BY <1>3, <1>b, <1>c DEF OpenHeld
  <2>2. \A f \in Fds : sock'[f] = IF f = job[u].value THEN 0 ELSE sock[f]
    BY <1>3, <1>a, <1>c, <2>1 DEF Close
  <2>3. \A i \in 1 .. Len(wait_queue) : wait_queue[i].value # job[u].value
    BY <1>3, <1>b, <1>c, <2>1 DEF OpenQueued, HeldApart
  <2>4. \A t \in Actors : OwnsSocket(t) /\ t # u => job[t].value # job[u].value
    BY <1>3, <1>b, <1>c, <2>1 DEF OpenHeld, HeldApart
  <2>5. OpenQueued'
    BY <1>3, <1>b, <1>c, <2>2, <2>3 DEF OpenQueued
  <2>6. OpenHeld'
    BY <1>3, <1>b, <1>c, <2>2, <2>4 DEF OpenHeld
  <2>7. OpenOwned'
    BY <1>3, <1>b, <2>2 DEF OpenOwned
  <2>8. QED
    BY <2>5, <2>6, <2>7
<1>4. ASSUME NEW k \in 1 .. Len(wait_queue), Removed(k), Close(wait_queue[k].value),
             UNCHANGED job, \A t \in Actors : OwnsSocket(t)' <=> OwnsSocket(t)
      PROVE  Goal'
  <2>1. sock[wait_queue[k].value] = wait_queue[k].arrival_time /\ sock[wait_queue[k].value] # 0
    BY <1>b, <1>c DEF OpenQueued
  <2>2. \A f \in Fds : sock'[f] = IF f = wait_queue[k].value THEN 0 ELSE sock[f]
    BY <1>4, <1>a, <1>c, <2>1 DEF Close
  <2>3. \A i \in 1 .. Len(wait_queue) : i # k => wait_queue[i].value # wait_queue[k].value
    BY <1>b, <1>d DEF OpenQueued
  <2>4. \A t \in Actors : OwnsSocket(t) => job[t].value # wait_queue[k].value
    BY <1>b, <1>c DEF OpenQueued, OpenHeld, HeldApart
  <2>5. \A i \in 1 .. Len(wait_queue') : \E j \in 1 .. Len(wait_queue) :
          j # k /\ wait_queue'[i] = wait_queue[j]
    BY <1>0, <1>4 DEF Removed
  <2>6. \A j \in 1 .. Len(wait_queue) : j # k =>
          \E i \in 1 .. Len(wait_queue') : wait_queue'[i] = wait_queue[j]
    <3> SUFFICES ASSUME NEW j \in 1 .. Len(wait_queue), j # k
                 PROVE  \E i \in 1 .. Len(wait_queue') : wait_queue'[i] = wait_queue[j]
      OBVIOUS
    <3>1. CASE j < k
      BY <1>0, <1>4, <3>1 DEF Removed
    <3>2. CASE j > k
      <4>1. j - 1 \in 1 .. Len(wait_queue) - 1 /\ ~ (j - 1 < k) /\ (j - 1) + 1 = j
        BY <1>0, <3>2
      <4>2. QED
        BY <1>4, <4>1 DEF Removed
    <3>3. QED
      BY <1>0, <3>1, <3>2
  <2>7. OpenQueued'
    <3> SUFFICES ASSUME NEW i \in 1 .. Len(wait_queue')
                 PROVE  sock'[wait_queue'[i].value] = wait_queue'[i].arrival_time
      BY DEF OpenQueued
    <3>1. PICK j \in 1 .. Len(wait_queue) : j # k /\ wait_queue'[i] = wait_queue[j]
      BY <2>5
    <3>2. /\ wait_queue[j].value \in Fds
          /\ sock[wait_queue[j].value] = wait_queue[j].arrival_time
      BY <1>b, <1>c DEF OpenQueued
    <3>3. QED
      BY <2>2, <2>3, <3>1, <3>2
  <2>8. OpenHeld'
    <3>1. \A t \in Actors : OwnsSocket(t) =>
            job[t].value \in Fds /\ sock[job[t].value] = job[t].arrival_time
      BY <1>b, <1>c DEF OpenHeld
    <3>2. \A t \in Actors : OwnsSocket(t) => sock'[job[t].value] = job[t].arrival_time
      BY <2>2, <2>4, <3>1
    <3>3. QED
      BY <1>4, <3>2 DEF OpenHeld
  <2>9. OpenOwned'
    <3> SUFFICES ASSUME NEW fd \in Fds, sock'[fd] # 0
                 PROVE  \/ \E i \in 1 .. Len(wait_queue') : wait_queue'[i].value = fd
                        \/ \E t \in Actors : OwnsSocket(t)' /\ job'[t].value = fd
      BY DEF OpenOwned
    <3>1. fd # wait_queue[k].value /\ sock[fd] # 0
      BY <2>2
    <3>2. CASE \E t \in Actors : OwnsSocket(t) /\ job[t].value = fd
      BY <1>4, <3>2
    <3>3. CASE \E j \in 1 .. Len(wait_queue) : wait_queue[j].value = fd
      BY <2>6, <3>1, <3>3
    <3>4. QED
      BY <1>b, <3>1, <3>2, <3>3 DEF OpenOwned
  <2>10. QED
    BY <2>7, <2>8, <2>9
<1>5. ASSUME MainDropNew PROVE Goal'
  <2>1. /\ OwnsSocket(Main) /\ ~ OwnsSocket(Main)' /\ UNCHANGED wait_queue
        /\ Close(job[Main].value)
        /\ \A t \in Threads : job'[t] = job[t] /\ (OwnsSocket(t)' <=> OwnsSocket(t))
    BY <1>5, <1>a DEF MainDropNew, AtAdmit, OwnsSocket
  <2>2. QED
    BY <1>3, <2>1 DEF Actors
<1>6. ASSUME MainDropHead PROVE Goal'
  <2>1. 1 \in 1 .. Len(wait_queue) /\ Removed(1) /\ Head(wait_queue) = wait_queue[1]
    BY <1>6, HeadRemoved DEF MainDropHead
  <2>2. /\ Close(wait_queue[1].value) /\ UNCHANGED job
        /\ \A t \in Actors : OwnsSocket(t)' <=> OwnsSocket(t)
    BY <1>6, <1>a, <2>1 DEF MainDropHead, AtAdmit, OwnsSocket, dequeueValue
  <2>3. QED
    BY <1>4, <2>1, <2>2
<1>7. ASSUME MainDropRandom PROVE Goal'
  <2>1. PICK index \in 0 .. queueCurrSize(wait_queue) - 1 :
          /\ wait_queue' = dequeueByIndex(wait_queue, queue_max_size, index)
          /\ Close(wait_queue[index + 1].value)
    BY <1>7 DEF MainDropRandom
  <2>2. index + 1 \in 1 .. Len(wait_queue) /\ Removed(index + 1)
    BY <1>0, <2>1, RandomRemoved
  <2>3. UNCHANGED job /\ \A t \in Actors : OwnsSocket(t)' <=> OwnsSocket(t)
    BY <1>7, <1>a DEF MainDropRandom, OwnsSocket
  <2>4. QED
    BY <1>4, <2>1, <2>2, <2>3
<1>8. ASSUME MainEnqueue PROVE Goal'
  <2>1. /\ Len(wait_queue') = Len(wait_queue) + 1
        /\ \A i \in 1 .. Len(wait_queue) : wait_queue'[i] = wait_queue[i]
        /\ wait_queue'[Len(wait_queue) + 1] = job[Main]
    BY <1>0, <1>8, Enqueued DEF MainEnqueue
  <2>2. \A i \in 1 .. Len(wait_queue') : i \in 1 .. Len(wait_queue) \/ i = Len(wait_queue) + 1
    BY <1>0, <2>1
  <2>3. /\ OwnsSocket(Main) /\ ~ OwnsSocket(Main)' /\ UNCHANGED sock
        /\ \A t \in Threads : job'[t] = job[t] /\ (OwnsSocket(t)' <=> OwnsSocket(t))
    BY <1>8, <1>a DEF MainEnqueue, Sleepers, OwnsSocket
  <2>4. OpenQueued'
    BY <1>b, <2>1, <2>2, <2>3 DEF OpenQueued, OpenHeld
  <2>5. OpenHeld'
    BY <1>b, <2>3 DEF OpenHeld, Actors
  <2>6. Len(wait_queue) + 1 \in 1 .. Len(wait_queue')
        /\ \A i \in 1 .. Len(wait_queue) : i \in 1 .. Len(wait_queue')
    BY <1>0, <2>1
  <2>7. OpenOwned'
    <3> SUFFICES ASSUME NEW fd \in Fds, sock'[fd] # 0
                 PROVE  \/ \E i \in 1 .. Len(wait_queue') : wait_queue'[i].value = fd
                        \/ \E t \in Actors : OwnsSocket(t)' /\ job'[t].value = fd
      BY DEF OpenOwned
    <3>1. CASE \E i \in 1 .. Len(wait_queue) : wait_queue[i].value = fd
      BY <2>1, <2>6, <3>1
    <3>2. CASE job[Main].value = fd
      BY <2>1, <2>6, <3>2
    <3>3. CASE \E t \in Threads : OwnsSocket(t) /\ job[t].value = fd
      BY <2>3, <3>3
    <3>4. QED
      BY <1>b, <2>3, <3>1, <3>2, <3>3 DEF OpenOwned, Actors
  <2>8. QED
    BY <2>4, <2>5, <2>7
<1>9. ASSUME NEW w \in Threads, WorkerTake(w) PROVE Goal'
  <2>1. /\ 1 \in 1 .. Len(wait_queue) /\ Removed(1)
        /\ Head(wait_queue) = wait_queue[1]
    BY <1>9, HeadRemoved DEF WorkerTake
  <2>2. /\ UNCHANGED sock /\ ~ OwnsSocket(w) /\ OwnsSocket(w)' /\ job'[w] = wait_queue[1]
        /\ \A t \in Actors : t # w => job'[t] = job[t] /\ (OwnsSocket(t)' <=> OwnsSocket(t))
    BY <1>9, <1>a, <2>1 DEF WorkerTake, OwnsSocket
  <2>3. \A i \in 1 .. Len(wait_queue') : \E j \in 1 .. Len(wait_queue) :
          wait_queue'[i] = wait_queue[j]
    BY <1>0, <2>1 DEF Removed
  <2>4. \A j \in 1 .. Len(wait_queue) : j # 1 =>
          j - 1 \in 1 .. Len(wait_queue') /\ wait_queue'[j - 1] = wait_queue[j]
    BY <1>0, <2>1 DEF Removed
  <2>5. OpenQueued'
    BY <1>b, <2>2, <2>3 DEF OpenQueued
  <2>6. OpenHeld'
    BY <1>b, <2>1, <2>2 DEF OpenHeld, OpenQueued
  <2>7. OpenOwned'
    <3> SUFFICES ASSUME NEW fd \in Fds, sock'[fd] # 0
                 PROVE  \/ \E i \in 1 .. Len(wait_queue') : wait_queue'[i].value = fd
                        \/ \E t \in Actors : OwnsSocket(t)' /\ job'[t].value = fd
      BY DEF OpenOwned
    <3>1. CASE \E j \in 1 .. Len(wait_queue) : wait_queue[j].value = fd
      BY <2>2, <2>4, <3>1
    <3>2. CASE \E t \in Actors : OwnsSocket(t) /\ job[t].value = fd
      BY <2>2, <3>2
    <3>3. QED
      BY <1>b, <2>2, <3>1, <3>2 DEF OpenOwned
  <2>8. QED
    BY <2>5, <2>6, <2>7
<1>10. ASSUME NEW w \in Threads, WorkerClose(w) PROVE Goal'
  <2>1. /\ OwnsSocket(w) /\ ~ OwnsSocket(w)' /\ UNCHANGED <<wait_queue, job>>
        /\ Close(job[w].value)
        /\ \A t \in Actors : t # w => (OwnsSocket(t)' <=> OwnsSocket(t))
    BY <1>10, <1>a DEF WorkerClose, OwnsSocket
  <2>2. QED
    BY <1>3, <2>1 DEF Actors
<1>11. ASSUME MainAcceptFails \/ MainLock \/ MainHasRoom \/ MainBlock
              \/ MainStartRandom \/ MainUnknownPolicy \/ UNCHANGED vars
       PROVE  Goal'
  <2>1. /\ UNCHANGED <<wait_queue, sock, job>>
        /\ \A t \in Actors : OwnsSocket(t)' <=> OwnsSocket(t)
    BY <1>11, <1>a DEF MainAcceptFails, MainLock, Lock, MainHasRoom, MainBlock,
                       MainStartRandom, MainUnknownPolicy, AtAdmit, vars, OwnsSocket
  <2>2. QED
    BY <1>1, <2>1
<1>12. ASSUME NEW w \in Threads,
              \/ WorkerLock(w) \/ WorkerLockDone(w) \/ WorkerSleep(w) \/ WorkerHandle(w)
              \/ WorkerIoError(w) \/ WorkerRemove(w) \/ WorkerFaults(w)
       PROVE  Goal'
  <2>1. /\ UNCHANGED <<wait_queue, sock>>
        /\ \A t \in Actors : (OwnsSocket(t)' <=> OwnsSocket(t)) /\ (OwnsSocket(t) => job'[t] = job[t])
    BY <1>12, <1>a DEF WorkerLock, WorkerLockDone, Lock, WorkerSleep, WorkerHandle,
                       WorkerIoError, WorkerRemove, WorkerFaults, OwnsSocket
  <2>2. QED
    BY <1>1, <2>1
<1>13. ASSUME NEW u \in Actors, SpuriousWakeup(u) PROVE Goal'
  <2>1. /\ UNCHANGED <<wait_queue, sock, job>>
        /\ \A t \in Actors : OwnsSocket(t)' <=> OwnsSocket(t)
    BY <1>13, <1>a DEF SpuriousWakeup, OwnsSocket, Actors
  <2>2. QED
    BY <1>1, <2>1
<1>14. QED
  BY <1>2, <1>5, <1>6, <1>7, <1>8, <1>9, <1>10, <1>11, <1>12, <1>13
     DEF Next, MainSteps, WorkerSteps

LEMMA AlwaysOpened == Spec => []Opened
<1>1. Init => Opened
  BY ConstantFacts DEF Init, Opened, OpenQueued, OpenHeld, OpenOwned, OwnsSocket, Actors
<1>2. QED
  BY <1>1, OpenedStep, AlwaysTyped, AlwaysRoom, AlwaysDistinct, PTL DEF Spec

(* A function that is injective on a finite set keeps its size.            *)
LEMMA ImageSize ==
  ASSUME NEW S, IsFiniteSet(S), NEW f, \A x, y \in S : f[x] = f[y] => x = y
  PROVE  /\ IsFiniteSet({f[x] : x \in S})
         /\ Cardinality({f[x] : x \in S}) = Cardinality(S)
<1> DEFINE g == [x \in S |-> f[x]]
<1>1. g \in Bijection(S, {f[x] : x \in S})
  BY DEF Bijection, Injection, Surjection, IsInjective
<1>2. ExistsBijection(S, {f[x] : x \in S})
  BY <1>1 DEF ExistsBijection
<1>3. QED
  BY <1>2, FS_Bijection

(* Under each of the four policies every open descriptor of the server has *)
(* exactly one owner, who holds it under its own arrival time, however the *)
(* kernel reuses the numbers: nothing is closed twice and nothing is lost. *)
THEOREM SocketsOwned == Spec => []SocketOwnership
<1> DEFINE holders == {t \in Actors : OwnsSocket(t)}
           queued  == ToSet(wait_queue)
           held    == {job[t] : t \in holders}
<1>1. ASSUME Typed, Distinct, Opened, policy \in KnownPolicies
      PROVE  /\ \A j \in queued \cup held : sock[j.value] = j.arrival_time
             /\ \A fd \in Fds : sock[fd] # 0 => \E j \in queued \cup held : j.arrival_time = sock[fd]
             /\ Cardinality(queued \cup held) = Len(wait_queue) + Cardinality(holders)
  <2>0. /\ wait_queue \in Seq(Jobs) /\ Len(wait_queue) \in Nat
        /\ DOMAIN wait_queue = 1 .. Len(wait_queue)
    BY <1>1, TotalTyped, LenProperties DEF Typed
  <2>1. queued = {wait_queue[i] : i \in 1 .. Len(wait_queue)}
    BY <2>0 DEF ToSet
  <2>2. OpenQueued /\ OpenHeld /\ OpenOwned /\ QueuedApart /\ HeldApart
    BY <1>1 DEF Opened, Distinct
  <2>3. \A j \in queued \cup held : sock[j.value] = j.arrival_time
    BY <2>1, <2>2 DEF OpenQueued, OpenHeld
  <2>4. ASSUME NEW fd \in Fds, sock[fd] # 0
        PROVE  \E j \in queued \cup held : j.arrival_time = sock[fd]
    <3>1. \E j \in queued \cup held : j.value = fd
      BY <2>1, <2>2, <2>4 DEF OpenOwned
    <3>2. QED
      BY <2>3, <3>1
  <2>5. \A t \in holders : Holds(t)
    BY DEF Holds, OwnsSocket, InFlight, Actors
  <2>6. \A i, k \in 1 .. Len(wait_queue) : wait_queue[i] = wait_queue[k] => i = k
    <3>1. \A i \in 1 .. Len(wait_queue) : wait_queue[i] \in Jobs
      BY <2>0, ElementOfSeq
    <3>2. \A i \in 1 .. Len(wait_queue) : wait_queue[i].arrival_time \in Nat
      BY <3>1 DEF Jobs, Conns
    <3>3. QED
      BY <2>0, <2>2, <3>2 DEF QueuedApart
  <2>7. \A t, u \in holders : job[t] = job[u] => t = u
    BY <2>2, <2>5 DEF HeldApart
  <2>8. queued \cap held = {}
    BY <2>1, <2>2, <2>5 DEF HeldApart
  <2>9. IsFiniteSet(queued) /\ Cardinality(queued) = Len(wait_queue)
    <3>1. IsFiniteSet(1 .. Len(wait_queue)) /\ Cardinality(1 .. Len(wait_queue)) = Len(wait_queue)
      <4>1. 1 \in Int /\ Len(wait_queue) \in Int
        BY <2>0
      <4>2. /\ IsFiniteSet(1 .. Len(wait_queue))
            /\ Cardinality(1 .. Len(wait_queue)) =
                 IF 1 > Len(wait_queue) THEN 0 ELSE Len(wait_queue) - 1 + 1
        BY <4>1, FS_Interval
      <4>3. QED
        BY <2>0, <4>2
    <3>2. /\ IsFiniteSet({wait_queue[i] : i \in 1 .. Len(wait_queue)})
          /\ Cardinality({wait_queue[i] : i \in 1 .. Len(wait_queue)})
               = Cardinality(1 .. Len(wait_queue))
      BY <2>6, <3>1, ImageSize
    <3>3. QED
      BY <2>1, <3>1, <3>2
  <2>10. IsFiniteSet(held) /\ Cardinality(held) = Cardinality(holders)
    <3>1. IsFiniteSet(Actors)
      BY ThreadsAssumption, FS_AddElement DEF Actors
    <3>2. IsFiniteSet(holders)
      BY <3>1, FS_Subset
    <3> HIDE DEF holders
    <3>3. QED
      BY <2>7, <3>2, ImageSize
  <2>11. Cardinality(queued \cup held) = Len(wait_queue) + Cardinality(holders)
    <3>1. Cardinality(queued \cup held) =
            Cardinality(queued) + Cardinality(held) - Cardinality(queued \cap held)
      BY <2>9, <2>10, FS_Union
    <3>2. Cardinality(queued \cap held) = 0
      BY <2>8, FS_EmptySet
    <3>3. Cardinality(held) \in Nat
      BY <2>10, FS_CardinalityType
    <3> HIDE DEF queued, held, holders
    <3>4. QED
      BY <2>0, <2>9, <2>10, <3>1, <3>2, <3>3
  <2>12. QED
    BY <2>3, <2>4, <2>11
<1>2. Typed /\ Distinct /\ Opened => SocketOwnership
  BY <1>1 DEF SocketOwnership
<1>3. QED
  BY <1>2, AlwaysTyped, AlwaysDistinct, AlwaysOpened, PTL

-----------------------------------------------------------------------------
(* WebServer implements ServerContract: no step of the server, under a     *)
(* known policy, does anything the contract does not promise.              *)

(* The workers that have a connection, closed or not.                      *)
Active == {w \in Threads : InFlight(w)}

(* No connection is answered before a worker handles it; from there on it  *)
(* is, until the worker has removed its entry.                             *)
AnsweredOnce ==
  /\ \A i \in 1 .. Len(wait_queue) : client[wait_queue[i].arrival_time] # "answered"
  /\ OwnsSocket(Main) => client[job[Main].arrival_time] # "answered"
  /\ \A w \in Threads :
       InFlight(w) => (client[job[w].arrival_time] = "answered" <=> pc[w] # "handle")

(* worker_queue has one entry per worker that has a connection.            *)
EntryPerWorker == Len(worker_queue) = Cardinality(Active)

(* Iterations of the drop loop are left only inside it.                    *)
NoQuota == pc[Main] # "dropping" => toDrop = 0

Sound ==
  /\ policy \in KnownPolicies
  /\ Typed /\ LockDiscipline /\ Room /\ EntriesInv /\ Distinct /\ Opened
  /\ AnsweredOnce /\ EntryPerWorker /\ NoQuota

-----------------------------------------------------------------------------
LEMMA ActiveFinite ==
  /\ IsFiniteSet(Active) /\ Cardinality(Active) \in Nat
  /\ IsFiniteSet(Active') /\ Cardinality(Active') \in Nat
<1>1. Active \in SUBSET Threads /\ Active' \in SUBSET Threads
  BY DEF Active
<1>2. QED
  BY <1>1, ThreadsAssumption, FS_Subset, FS_CardinalityType

LEMMA NoQuotaStep == Typed /\ NoQuota /\ [Next]_vars => NoQuota'
<1> SUFFICES ASSUME Typed, NoQuota, [Next]_vars PROVE NoQuota'
  OBVIOUS
<1>a. /\ pc \in [Actors -> {"accept", "lock", "admit", "cond_block", "dropping", "enqueue",
                            "check", "cond", "handle", "close", "lock_done", "remove"}]
      /\ toDrop \in Nat
  BY DEF Typed, TypeOK
<1> USE ConstantFacts DEF Goto, args, queues, kernel
<1>1. CASE MainStartRandom
  BY <1>1, <1>a DEF MainStartRandom, NoQuota
<1>2. CASE MainDropRandom
  BY <1>2, <1>a DEF MainDropRandom, NoQuota
<1>3. ASSUME MainAccept \/ MainAcceptFails \/ MainLock \/ MainHasRoom \/ MainBlock \/ MainDropNew
             \/ MainDropHead \/ MainUnknownPolicy \/ MainEnqueue \/ UNCHANGED vars
      PROVE  NoQuota'
  BY <1>3, <1>a DEF MainAccept, MainAcceptFails, MainLock, Lock, MainHasRoom, MainBlock,
                    MainDropNew, MainDropHead, MainUnknownPolicy, MainEnqueue, AtAdmit,
                    vars, NoQuota
<1>4. ASSUME NEW w \in Threads,
             \/ WorkerLock(w) \/ WorkerLockDone(w) \/ WorkerSleep(w) \/ WorkerTake(w)
             \/ WorkerHandle(w) \/ WorkerIoError(w) \/ WorkerClose(w) \/ WorkerRemove(w)
             \/ WorkerFaults(w)
      PROVE  NoQuota'
  <2>1. toDrop' = toDrop /\ (pc[Main] = "dropping" => pc'[Main] = "dropping")
    BY <1>4, <1>a DEF WorkerLock, WorkerLockDone, Lock, WorkerSleep, WorkerTake, WorkerHandle,
                      WorkerIoError, WorkerClose, WorkerRemove, WorkerFaults
  <2>2. QED
    BY <2>1 DEF NoQuota
<1>5. ASSUME NEW u \in Actors, SpuriousWakeup(u) PROVE NoQuota'
  BY <1>5, <1>a DEF SpuriousWakeup, NoQuota
<1>6. QED
  BY <1>1, <1>2, <1>3, <1>4, <1>5 DEF Next, MainSteps, WorkerSteps

LEMMA EntryPerWorkerStep == Sound /\ [Next]_vars => EntryPerWorker'
<1> SUFFICES ASSUME Sound, [Next]_vars PROVE EntryPerWorker'
  OBVIOUS
<1>0. /\ wait_queue \in Seq(Jobs) /\ worker_queue \in Seq(Jobs)
      /\ Len(worker_queue) \in Nat
      /\ Total <= queue_max_size
      /\ Typed /\ Matched /\ EntryPerWorker
  BY TotalTyped DEF Sound, Typed, Room, EntriesInv
<1>a. /\ pc \in [Actors -> {"accept", "lock", "admit", "cond_block", "dropping", "enqueue",
                            "check", "cond", "handle", "close", "lock_done", "remove"}]
      /\ job \in [Actors -> Jobs \cup {Free}]
  BY <1>0 DEF Typed, TypeOK
<1> USE ConstantFacts DEF Goto, args, queues, kernel
<1>1. ASSUME UNCHANGED worker_queue, \A w \in Threads : InFlight(w)' <=> InFlight(w)
      PROVE  EntryPerWorker'
  <2>1. Active' = Active
    BY <1>1 DEF Active
  <2>2. QED
    BY <1>0, <1>1, <2>1 DEF EntryPerWorker
<1>2. ASSUME \/ MainAccept \/ MainAcceptFails \/ MainLock \/ MainHasRoom \/ MainBlock
             \/ MainDropNew \/ MainDropHead \/ MainStartRandom \/ MainDropRandom
             \/ MainUnknownPolicy \/ MainEnqueue \/ UNCHANGED vars
      PROVE  EntryPerWorker'
  <2>1. UNCHANGED worker_queue /\ \A w \in Threads : InFlight(w)' <=> InFlight(w)
    BY <1>2, <1>a DEF MainAccept, MainAcceptFails, MainLock, Lock, MainHasRoom, MainBlock,
                      MainDropNew, MainDropHead, MainStartRandom, MainDropRandom,
                      MainUnknownPolicy, MainEnqueue, Sleepers, vars, InFlight
  <2>2. QED
    BY <1>1, <2>1
<1>3. ASSUME NEW w \in Threads, WorkerTake(w) PROVE EntryPerWorker'
  <2>1. worker_queue' = Append(worker_queue, Head(wait_queue)) /\ Head(wait_queue) \in Jobs
    BY <1>0, <1>3, TakeMoves, DequeueProperties
  <2>2. Len(worker_queue') = Len(worker_queue) + 1
    BY <1>0, <2>1, AppendProperties
  <2>3. w \notin Active /\ Active' = Active \cup {w}
    BY <1>3, <1>a DEF WorkerTake, Active, InFlight
  <2>4. Cardinality(Active') = Cardinality(Active) + 1
    BY <2>3, ActiveFinite, FS_AddElement, Zenon
  <2>5. QED
    BY <1>0, <2>2, <2>4 DEF EntryPerWorker
<1>4. ASSUME NEW w \in Threads, WorkerRemove(w) PROVE EntryPerWorker'
  <2>1. InFlight(w)
    BY <1>4 DEF WorkerRemove, InFlight
  <2>2. /\ JobIndex(w) + 1 \in 1 .. Len(worker_queue)
        /\ worker_queue' = RemoveAt(worker_queue, JobIndex(w) + 1)
    BY <1>0, <1>4, <2>1, RemovalFinds DEF WorkerRemove
  <2>3. Len(worker_queue') = Len(worker_queue) - 1
    BY <1>0, <2>2, RemoveAtProperties
  <2>4. w \in Active /\ Active' = Active \ {w}
    BY <1>4, <1>a, <2>1 DEF WorkerRemove, Active, InFlight
  <2>5. Cardinality(Active') = Cardinality(Active) - 1
    BY <2>4, ActiveFinite, FS_RemoveElement, Zenon
  <2>6. QED
    BY <1>0, <2>3, <2>5 DEF EntryPerWorker
<1>5. ASSUME NEW w \in Threads,
             WorkerHandle(w) \/ WorkerIoError(w) \/ WorkerClose(w) \/ WorkerLockDone(w)
             \/ WorkerLock(w) \/ WorkerSleep(w) \/ WorkerFaults(w)
      PROVE  EntryPerWorker'
  <2>1. UNCHANGED worker_queue /\ \A v \in Threads : InFlight(v)' <=> InFlight(v)
    BY <1>5, <1>a DEF WorkerHandle, WorkerIoError, WorkerClose, WorkerLockDone, WorkerLock,
                      Lock, WorkerSleep, WorkerFaults, InFlight
  <2>2. QED
    BY <1>1, <2>1
<1>6. ASSUME NEW t \in Actors, SpuriousWakeup(t) PROVE EntryPerWorker'
  <2>1. UNCHANGED worker_queue /\ \A v \in Threads : InFlight(v)' <=> InFlight(v)
    BY <1>6, <1>a DEF SpuriousWakeup, InFlight
  <2>2. QED
    BY <1>1, <2>1
<1>7. QED
  BY <1>2, <1>3, <1>4, <1>5, <1>6 DEF Next, MainSteps, WorkerSteps

LEMMA AnsweredOnceStep == Sound /\ [Next]_vars => AnsweredOnce'
<1> SUFFICES ASSUME Sound, [Next]_vars PROVE AnsweredOnce'
  OBVIOUS
<1>0. /\ wait_queue \in Seq(Jobs) /\ Len(wait_queue) \in Nat
      /\ Total <= queue_max_size /\ (pc[Main] = "enqueue" => Total < queue_max_size)
      /\ Typed /\ AnsweredOnce /\ QueuedApart /\ HeldApart /\ OpenHeld
      /\ clock \in Nat
  BY TotalTyped, NumbersAssumption DEF Sound, Typed, TypeOK, Room, Distinct, Opened
<1>a. /\ pc \in [Actors -> {"accept", "lock", "admit", "cond_block", "dropping", "enqueue",
                            "check", "cond", "handle", "close", "lock_done", "remove"}]
      /\ job \in [Actors -> Jobs \cup {Free}]
      /\ pc[Main] \in {"accept", "lock", "admit", "cond_block", "dropping", "enqueue"}
      /\ client \in [Conns -> {"none", "asks", "silent", "resets", "answered"}]
  BY <1>0 DEF Typed, TypeOK
<1>b. /\ \A i \in 1 .. Len(wait_queue) : wait_queue[i] \in Jobs
      /\ OwnsSocket(Main) => job[Main] \in Jobs
      /\ \A w \in Threads : InFlight(w) => job[w] \in Jobs /\ Holds(w)
  BY <1>0, ElementOfSeq, ConstantFacts DEF Typed, LocalsSet, Holds
<1> USE ConstantFacts DEF Goto, args, queues, kernel
(* Nobody moves, or takes what was unanswered out of the server.           *)
<1>1. ASSUME UNCHANGED client,
             \A i \in 1 .. Len(wait_queue') :
               \E j \in 1 .. Len(wait_queue) : wait_queue'[i] = wait_queue[j],
             OwnsSocket(Main)' => OwnsSocket(Main) /\ job'[Main] = job[Main],
             \A w \in Threads : InFlight(w)' =>
               InFlight(w) /\ job'[w] = job[w] /\ (pc'[w] # "handle" <=> pc[w] # "handle")
      PROVE  AnsweredOnce'
  BY <1>0, <1>1 DEF AnsweredOnce
<1>2. CASE MainAccept
  <2>1. PICK fd \in Fds, kind \in {"asks", "silent", "resets"} :
          /\ client' = [client EXCEPT ![clock + 1] = kind]
          /\ job' = [job EXCEPT ![Main] = [value |-> fd, arrival_time |-> clock + 1]]
    BY <1>2 DEF MainAccept
  <2>2. clock + 1 \in Conns
    BY <1>0, <1>2 DEF MainAccept, Conns
  <2>3. /\ client'[clock + 1] # "answered"
        /\ \A c \in Conns : c <= clock => client'[c] = client[c]
    BY <1>0, <1>a, <2>1, <2>2
  <2>4. /\ UNCHANGED wait_queue
        /\ job'[Main].arrival_time = clock + 1
        /\ \A w \in Threads : job'[w] = job[w] /\ pc'[w] = pc[w] /\ (InFlight(w)' <=> InFlight(w))
    BY <1>2, <1>a, <2>1 DEF MainAccept, InFlight
  <2>5. /\ \A i \in 1 .. Len(wait_queue) :
             wait_queue[i].arrival_time \in Conns /\ wait_queue[i].arrival_time <= clock
        /\ \A w \in Threads : InFlight(w) =>
             job[w].arrival_time \in Conns /\ job[w].arrival_time <= clock
    BY <1>0, <1>b DEF QueuedApart, HeldApart, Jobs
  <2>6. QED
    BY <1>0, <2>3, <2>4, <2>5 DEF AnsweredOnce
<1>3. CASE MainDropHead
  <2>1. Removed(1)
    BY <1>0, <1>3, HeadRemoved DEF MainDropHead
  <2>2. /\ pc[Main] = "admit" /\ pc' = [pc EXCEPT ![Main] = "enqueue"]
        /\ UNCHANGED <<job, client>>
    BY <1>3 DEF MainDropHead, AtAdmit
  <2>3. \A i \in 1 .. Len(wait_queue') :
          \E j \in 1 .. Len(wait_queue) : wait_queue'[i] = wait_queue[j]
    BY <1>0, <2>1 DEF Removed
  <2>4. QED
    BY <1>1, <1>a, <2>2, <2>3 DEF OwnsSocket, InFlight
<1>4. CASE MainDropRandom
  <2>1. PICK index \in 0 .. queueCurrSize(wait_queue) - 1 :
          wait_queue' = dequeueByIndex(wait_queue, queue_max_size, index)
    BY <1>4 DEF MainDropRandom
  <2>2. Removed(index + 1) /\ index + 1 \in 1 .. Len(wait_queue)
    BY <1>0, <2>1, RandomRemoved
  <2>3. \A i \in 1 .. Len(wait_queue') :
          \E j \in 1 .. Len(wait_queue) : wait_queue'[i] = wait_queue[j]
    BY <1>0, <2>2 DEF Removed
  <2>4. QED
    BY <1>1, <1>4, <1>a, <2>3 DEF MainDropRandom, OwnsSocket, InFlight
<1>5. CASE MainEnqueue
  <2>1. /\ Len(wait_queue') = Len(wait_queue) + 1
        /\ \A i \in 1 .. Len(wait_queue) : wait_queue'[i] = wait_queue[i]
        /\ wait_queue'[Len(wait_queue) + 1] = job[Main]
    BY <1>0, <1>5, Enqueued DEF MainEnqueue
  <2>2. \A i \in 1 .. Len(wait_queue') :
          i \in 1 .. Len(wait_queue) \/ i = Len(wait_queue) + 1
    BY <1>0, <2>1
  <2>3. /\ OwnsSocket(Main) /\ ~ OwnsSocket(Main)' /\ UNCHANGED client
        /\ \A w \in Threads : InFlight(w)' => InFlight(w) /\ job'[w] = job[w] /\ pc'[w] = pc[w]
    BY <1>5, <1>a DEF MainEnqueue, Sleepers, OwnsSocket, InFlight
  <2>4. QED
    BY <1>0, <2>1, <2>2, <2>3 DEF AnsweredOnce
<1>6. ASSUME NEW w \in Threads, WorkerTake(w) PROVE AnsweredOnce'
  <2>1. Removed(1) /\ 1 \in 1 .. Len(wait_queue) /\ Head(wait_queue) = wait_queue[1]
    BY <1>0, <1>6, HeadRemoved DEF WorkerTake
  <2>2. \A i \in 1 .. Len(wait_queue') :
          \E j \in 1 .. Len(wait_queue) : wait_queue'[i] = wait_queue[j]
    BY <1>0, <2>1 DEF Removed
  <2>3. /\ job'[w] = wait_queue[1] /\ pc'[w] = "handle" /\ UNCHANGED client
        /\ \A v \in Threads : v # w => job'[v] = job[v] /\ pc'[v] = pc[v]
        /\ job'[Main] = job[Main] /\ pc'[Main] = pc[Main]
    BY <1>6, <1>a, <2>1 DEF WorkerTake
  <2>4. /\ OwnsSocket(Main)' => OwnsSocket(Main)
        /\ \A v \in Threads : v # w => (InFlight(v)' <=> InFlight(v))
    BY <2>3 DEF OwnsSocket, InFlight
  <2>5. AnsweredOnce
    BY <1>0
  <2>6. \A i \in 1 .. Len(wait_queue') : client'[wait_queue'[i].arrival_time] # "answered"
    BY <2>2, <2>3, <2>5 DEF AnsweredOnce
  <2>7. OwnsSocket(Main)' => client'[job'[Main].arrival_time] # "answered"
    BY <2>3, <2>4, <2>5 DEF AnsweredOnce
  <2>8. client'[job'[w].arrival_time] # "answered"
    BY <2>1, <2>3, <2>5 DEF AnsweredOnce
  <2>9. \A v \in Threads : InFlight(v)' =>
          (client'[job'[v].arrival_time] = "answered" <=> pc'[v] # "handle")
    BY <2>3, <2>4, <2>5, <2>8 DEF AnsweredOnce
  <2>10. QED
    BY <2>6, <2>7, <2>9 DEF AnsweredOnce
<1>7. ASSUME NEW w \in Threads, WorkerHandle(w) PROVE AnsweredOnce'
  <2> DEFINE c == job[w].arrival_time
  <2>1. InFlight(w) /\ OwnsSocket(w) /\ c \in Conns
    BY <1>7, <1>b DEF WorkerHandle, InFlight, OwnsSocket, Jobs
  <2>2. sock[job[w].value] = c
    BY <1>0, <2>1 DEF OpenHeld
  <2>3. /\ client' = [client EXCEPT ![c] = "answered"] /\ UNCHANGED <<wait_queue, job>>
        /\ pc'[w] = "close" /\ pc'[Main] = pc[Main]
        /\ \A v \in Threads : v # w => pc'[v] = pc[v]
    BY <1>7, <1>a, <2>2 DEF WorkerHandle
  <2>4. /\ client'[c] = "answered"
        /\ \A d \in Conns : d # c => client'[d] = client[d]
    BY <1>a, <2>1, <2>3
  <2>5. /\ \A i \in 1 .. Len(wait_queue) :
             wait_queue[i].arrival_time \in Conns /\ wait_queue[i].arrival_time # c
        /\ OwnsSocket(Main) => job[Main].arrival_time \in Conns /\ job[Main].arrival_time # c
        /\ \A v \in Threads : InFlight(v) /\ v # w =>
             job[v].arrival_time \in Conns /\ job[v].arrival_time # c
    BY <1>0, <1>b, <2>1 DEF HeldApart, Holds, Jobs
  <2>6. /\ OwnsSocket(Main)' <=> OwnsSocket(Main)
        /\ \A v \in Threads : v # w => (InFlight(v)' <=> InFlight(v))
    BY <2>3 DEF OwnsSocket, InFlight
  <2> HIDE DEF c
  <2>7. \A i \in 1 .. Len(wait_queue') : client'[wait_queue'[i].arrival_time] # "answered"
    BY <1>0, <2>3, <2>4, <2>5 DEF AnsweredOnce
  <2>8. (OwnsSocket(Main) => client[job[Main].arrival_time] # "answered")'
    BY <1>0, <2>3, <2>4, <2>5, <2>6 DEF AnsweredOnce
  <2>9. \A v \in Threads :
          InFlight(v)' => (client'[job'[v].arrival_time] = "answered" <=> pc'[v] # "handle")
    BY <1>0, <2>3, <2>4, <2>5, <2>6 DEF AnsweredOnce, c
  <2>10. QED
    BY <2>7, <2>8, <2>9 DEF AnsweredOnce
<1>8. ASSUME \/ MainAcceptFails \/ MainLock \/ MainHasRoom \/ MainBlock \/ MainDropNew
             \/ MainStartRandom \/ MainUnknownPolicy \/ UNCHANGED vars
      PROVE  AnsweredOnce'
  <2>1. /\ UNCHANGED <<client, wait_queue>>
        /\ OwnsSocket(Main)' => OwnsSocket(Main) /\ job'[Main] = job[Main]
        /\ \A w \in Threads : pc'[w] = pc[w] /\ job'[w] = job[w]
    BY <1>8, <1>a DEF MainAcceptFails, MainLock, Lock, MainHasRoom, MainBlock, MainDropNew,
                      MainStartRandom, MainUnknownPolicy, AtAdmit, vars, OwnsSocket
  <2>2. \A w \in Threads : InFlight(w)' => InFlight(w)
    BY <2>1 DEF InFlight
  <2>3. QED
    BY <1>1, <2>1, <2>2
<1>9. ASSUME NEW w \in Threads,
             WorkerIoError(w) \/ WorkerClose(w) \/ WorkerLockDone(w) \/ WorkerRemove(w)
             \/ WorkerLock(w) \/ WorkerSleep(w) \/ WorkerFaults(w)
      PROVE  AnsweredOnce'
  <2>1. /\ UNCHANGED <<client, wait_queue>>
        /\ OwnsSocket(Main)' => OwnsSocket(Main) /\ job'[Main] = job[Main]
        /\ \A v \in Threads : InFlight(v)' =>
             InFlight(v) /\ job'[v] = job[v] /\ (pc'[v] # "handle" <=> pc[v] # "handle")
    BY <1>9, <1>a DEF WorkerIoError, WorkerClose, WorkerLockDone, WorkerRemove, WorkerLock,
                      Lock, WorkerSleep, WorkerFaults, OwnsSocket, InFlight
  <2>2. QED
    BY <1>1, <2>1
<1>10. ASSUME NEW t \in Actors, SpuriousWakeup(t) PROVE AnsweredOnce'
  <2>1. /\ UNCHANGED <<client, wait_queue, job>>
        /\ OwnsSocket(Main)' => OwnsSocket(Main)
        /\ \A v \in Threads : InFlight(v)' =>
             InFlight(v) /\ (pc'[v] # "handle" <=> pc[v] # "handle")
    BY <1>10, <1>a DEF SpuriousWakeup, OwnsSocket, InFlight
  <2>2. QED
    BY <1>1, <2>1
<1>11. QED
  BY <1>2, <1>3, <1>4, <1>5, <1>6, <1>7, <1>8, <1>9, <1>10 DEF Next, MainSteps, WorkerSteps

LEMMA AlwaysSound == Spec /\ policy \in KnownPolicies => []Sound
<1> DEFINE Inv == /\ Typed /\ LockDiscipline /\ Room /\ EntriesInv /\ Distinct /\ Opened
<1>1. Init /\ policy \in KnownPolicies => AnsweredOnce /\ EntryPerWorker /\ NoQuota
  <2> SUFFICES ASSUME Init PROVE AnsweredOnce /\ EntryPerWorker /\ NoQuota
    OBVIOUS
  <2>1. Active = {}
    BY ConstantFacts DEF Init, Active, InFlight, Actors
  <2>2. QED
    BY <2>1, FS_EmptySet, EmptySeq, ConstantFacts
       DEF Init, AnsweredOnce, EntryPerWorker, NoQuota, OwnsSocket, InFlight, Actors
<1>2. Sound /\ [Next]_vars =>
        (policy \in KnownPolicies /\ AnsweredOnce /\ EntryPerWorker /\ NoQuota)'
  BY AnsweredOnceStep, EntryPerWorkerStep, NoQuotaStep, ArgsKept DEF Sound, args
<1>3. Spec => []Inv
  BY AlwaysTyped, MutualExclusion, AlwaysRoom, AlwaysEntries, AlwaysDistinct, AlwaysOpened, PTL
<1>4. Sound <=> /\ Inv /\ policy \in KnownPolicies
                /\ AnsweredOnce /\ EntryPerWorker /\ NoQuota
  BY DEF Sound
<1> HIDE DEF Inv
<1>5. QED
  BY <1>1, <1>2, <1>3, <1>4, PTL DEF Spec

-----------------------------------------------------------------------------
(* Who has the connection c: main, wait_queue, or a worker.                *)
WithMain(c) == OwnsSocket(Main) /\ job[Main].arrival_time = c

InQueue(c) == \E i \in 1 .. Len(wait_queue) : wait_queue[i].arrival_time = c

Taken(c) == \E w \in Threads : InFlight(w) /\ job[w].arrival_time = c

Answered(c) == client[c] = "answered"

LEMMA StageDefinition ==
  ASSUME NEW c, wait_queue \in Seq(Jobs),
         WithMain(c) \/ InQueue(c) \/ Taken(c) => ~ (c > clock),
         ~ (WithMain(c) /\ InQueue(c)),
         ~ (WithMain(c) /\ Taken(c)),
         ~ (InQueue(c) /\ Taken(c))
  PROVE  Stage(c) = IF c > clock THEN "new"
                    ELSE IF WithMain(c) THEN "arrived"
                    ELSE IF InQueue(c) THEN "waiting"
                    ELSE IF Taken(c) THEN IF Answered(c) THEN "leaving" ELSE "serving"
                    ELSE IF Answered(c) THEN "served" ELSE "refused"
<1> DEFINE serving == {w \in Threads : InFlight(w) /\ job[w].arrival_time = c}
<1>1. serving # {} <=> Taken(c)
  BY DEF Taken
<1>2. (\E i \in DOMAIN wait_queue : wait_queue[i].arrival_time = c) <=> InQueue(c)
  BY LenProperties DEF InQueue
<1> HIDE DEF serving
<1>3. Stage(c) = CASE c > clock -> "new"
                   [] WithMain(c) -> "arrived"
                   [] InQueue(c) -> "waiting"
                   [] serving # {} /\ client[c] # "answered" -> "serving"
                   [] serving # {} /\ client[c] = "answered" -> "leaving"
                   [] OTHER -> IF client[c] = "answered" THEN "served" ELSE "refused"
  BY <1>2 DEF Stage, WithMain, serving
<1>4. CASE c > clock
  BY <1>1, <1>3, <1>4
<1>5. CASE WithMain(c)
  BY <1>1, <1>3, <1>5
<1>6. CASE InQueue(c)
  BY <1>1, <1>3, <1>6
<1>7. CASE Taken(c)
  BY <1>1, <1>3, <1>7 DEF Answered
<1>8. CASE ~ (c > clock) /\ ~ WithMain(c) /\ ~ InQueue(c) /\ ~ Taken(c)
  BY <1>1, <1>3, <1>8 DEF Answered
<1>9. QED
  BY <1>4, <1>5, <1>6, <1>7, <1>8

(* In a sound state each connection is in one place only, so the stage and *)
(* the place determine each other.                                         *)
StageFits(c) ==
  /\ Stage(c) = "new" <=> c > clock
  /\ Stage(c) = "arrived" <=> WithMain(c)
  /\ Stage(c) = "waiting" <=> InQueue(c)
  /\ Stage(c) = "serving" <=> Taken(c) /\ ~ Answered(c)
  /\ Stage(c) = "leaving" <=> Taken(c) /\ Answered(c)
  /\ (c > clock) \/ WithMain(c) \/ InQueue(c) \/ Taken(c)
       \/ Stage(c) = IF Answered(c) THEN "served" ELSE "refused"
  /\ WithMain(c) \/ InQueue(c) => ~ Answered(c)
  /\ WithMain(c) \/ InQueue(c) \/ Taken(c) => ~ (c > clock)
  /\ ~ (WithMain(c) /\ InQueue(c))
  /\ ~ (WithMain(c) /\ Taken(c))
  /\ ~ (InQueue(c) /\ Taken(c))

StagesFit == \A c \in Conns : StageFits(c)

LEMMA StageMeans == Sound => StagesFit
<1> SUFFICES ASSUME Sound, NEW c \in Conns PROVE StageFits(c)
  BY DEF StagesFit
<1>1. wait_queue \in Seq(Jobs) /\ QueuedApart /\ HeldApart /\ AnsweredOnce /\ clock \in Nat
  BY TotalTyped, NumbersAssumption DEF Sound, Typed, TypeOK, Distinct
<1>2. c \in Nat
  BY NumbersAssumption DEF Conns
<1>3. WithMain(c) => Holds(Main) /\ job[Main].arrival_time = c
  BY DEF WithMain, Holds
<1>4. \A w \in Threads : InFlight(w) => Holds(w) /\ w # Main /\ w \in Actors
  BY ConstantFacts DEF Holds
<1>5. WithMain(c) \/ InQueue(c) \/ Taken(c) => ~ (c > clock)
  BY <1>1, <1>2, <1>3, <1>4, ConstantFacts DEF WithMain, InQueue, Taken, QueuedApart, HeldApart
<1>6. ~ (WithMain(c) /\ InQueue(c))
  BY <1>1, <1>3, ConstantFacts DEF InQueue, HeldApart
<1>7. ~ (WithMain(c) /\ Taken(c))
  BY <1>1, <1>3, <1>4, ConstantFacts DEF Taken, HeldApart
<1>8. ~ (InQueue(c) /\ Taken(c))
  BY <1>1, <1>4 DEF InQueue, Taken, HeldApart
<1>9. WithMain(c) \/ InQueue(c) => ~ Answered(c)
  BY <1>1 DEF WithMain, InQueue, Answered, AnsweredOnce
<1>10. QED
  BY <1>1, <1>5, <1>6, <1>7, <1>8, <1>9, StageDefinition DEF StageFits

LEMMA PositionsCount ==
  ASSUME NEW n \in Nat
  PROVE  IsFiniteSet(1 .. n) /\ Cardinality(1 .. n) = n
<1>1. CASE n = 0
  BY <1>1, FS_Interval
<1>2. CASE n # 0
  BY <1>2, FS_Interval
<1>3. QED
  BY <1>1, <1>2

(* The sets of the contract, counted.                                      *)
LEMMA ContractCounts ==
  ASSUME Sound
  PROVE  /\ Contract!Waiting = {wait_queue[i].arrival_time : i \in 1 .. Len(wait_queue)}
         /\ Cardinality(Contract!Waiting) = Len(wait_queue)
         /\ Cardinality(Contract!At({"serving", "leaving"})) = Cardinality(Active)
         /\ Cardinality(Contract!InSystem) = Total
<1> DEFINE W == Contract!At({"waiting"})
           T == Contract!At({"serving", "leaving"})
<1>0. /\ wait_queue \in Seq(Jobs) /\ Len(wait_queue) \in Nat /\ Len(worker_queue) \in Nat
      /\ QueuedApart /\ HeldApart /\ EntryPerWorker
      /\ \A i \in 1 .. Len(wait_queue) : wait_queue[i] \in Jobs
      /\ \A w \in Threads : InFlight(w) => job[w] \in Jobs
  BY TotalTyped, ElementOfSeq DEF Sound, Typed, Distinct, LocalsSet
<1>1. Contract!Conns = Conns
  BY DEF Contract!Conns, Conns
<1>2. W = {c \in Conns : InQueue(c)}
  BY <1>1, StageMeans DEF Contract!At, StagesFit, StageFits
<1>3. T = {c \in Conns : Taken(c)}
  BY <1>1, StageMeans DEF Contract!At, StagesFit, StageFits
<1>4. W = {wait_queue[i].arrival_time : i \in 1 .. Len(wait_queue)}
  BY <1>0, <1>2 DEF InQueue, Jobs
<1>5. T = {job[w].arrival_time : w \in Active}
  BY <1>0, <1>3 DEF Taken, Active, Jobs
<1>6. IsFiniteSet(W) /\ Cardinality(W) = Len(wait_queue)
  <2> DEFINE f == [i \in 1 .. Len(wait_queue) |-> wait_queue[i].arrival_time]
  <2>1. \A i, k \in 1 .. Len(wait_queue) : f[i] = f[k] => i = k
    <3>1. \A i \in 1 .. Len(wait_queue) : wait_queue[i].arrival_time \in Nat
      BY <1>0 DEF Jobs, Conns
    <3>2. QED
      BY <1>0, <3>1 DEF QueuedApart
  <2>2. W = {f[i] : i \in 1 .. Len(wait_queue)}
    BY <1>4
  <2>3. IsFiniteSet(1 .. Len(wait_queue)) /\ Cardinality(1 .. Len(wait_queue)) = Len(wait_queue)
    <3>1. Len(wait_queue) \in Nat
      BY <1>0
    <3>2. QED
      BY <3>1, PositionsCount
  <2> HIDE DEF f
  <2>4. QED
    BY <2>1, <2>2, <2>3, ImageSize
<1>7. IsFiniteSet(T) /\ Cardinality(T) = Cardinality(Active)
  <2> DEFINE f == [w \in Active |-> job[w].arrival_time]
  <2>1. \A v, w \in Active : f[v] = f[w] => v = w
    BY <1>0, ConstantFacts DEF Active, Holds, HeldApart
  <2>2. T = {f[w] : w \in Active}
    BY <1>5
  <2> HIDE DEF f
  <2>3. QED
    BY <2>1, <2>2, ActiveFinite, ImageSize
<1>8. Contract!InSystem = W \cup T /\ W \cap T = {}
  BY DEF Contract!InSystem, Contract!At
<1>9. Cardinality(Contract!InSystem) = Total
  <2> HIDE DEF W, T
  <2>1. Cardinality(W \cup T) = Cardinality(W) + Cardinality(T) - Cardinality(W \cap T)
    BY <1>6, <1>7, FS_Union
  <2>2. Cardinality(W \cap T) = 0
    BY <1>8, FS_EmptySet
  <2>3. QED
    BY <1>0, <1>6, <1>7, <1>8, <2>1, <2>2, ActiveFinite DEF EntryPerWorker, Total
<1>10. QED
  BY <1>4, <1>6, <1>7, <1>9 DEF Contract!Waiting

-----------------------------------------------------------------------------
LEMMA StageMeansNext == Sound' => StagesFit'
  BY StageMeans, PTL

(* A connection that stays where it is keeps its stage.                    *)
LEMMA StageKept ==
  ASSUME Sound, Sound', NEW c \in Conns,
         (c > clock)' <=> (c > clock), WithMain(c)' <=> WithMain(c),
         InQueue(c)' <=> InQueue(c), Taken(c)' <=> Taken(c), Answered(c)' <=> Answered(c)
  PROVE  Stage(c)' = Stage(c)
<1>1. StageFits(c) /\ StageFits(c)'
  BY StageMeans, StageMeansNext DEF StagesFit
<1>2. QED
  BY <1>1 DEF StageFits

(* Nothing the contract can see has changed.                               *)
LEMMA Stutters ==
  ASSUME Sound, Sound', UNCHANGED <<args, wait_queue, client, toDrop, clock, status>>,
         OwnsSocket(Main)' <=> OwnsSocket(Main),
         OwnsSocket(Main) => job'[Main] = job[Main],
         \A w \in Threads : (InFlight(w)' <=> InFlight(w)) /\ (InFlight(w) => job'[w] = job[w])
  PROVE  UNCHANGED Contract!vars
<1>1. ASSUME NEW c \in Conns PROVE Stage(c)' = Stage(c)
  <2>1. /\ (c > clock)' <=> (c > clock)
        /\ WithMain(c)' <=> WithMain(c)
        /\ InQueue(c)' <=> InQueue(c)
        /\ Taken(c)' <=> Taken(c)
        /\ Answered(c)' <=> Answered(c)
    BY DEF WithMain, InQueue, Taken, Answered
  <2>2. QED
    BY <2>1, StageKept
<1>2. QED
  BY <1>1 DEF Contract!vars, args

(* One connection changes its stage while the server keeps running.        *)
LEMMA MovesOne ==
  ASSUME status = "running", status' = status, UNCHANGED args, NEW c \in Conns, NEW to,
         Stage(c)' = to, \A d \in Conns : d # c => Stage(d)' = Stage(d)
  PROVE  Contract!Move(c, to)
  BY DEF Contract!Move, args

(* Closing a connection that has an owner never fails.                     *)
LEMMA CloseSucceeds ==
  ASSUME Sound, NEW j, Close(j.value),
         \/ \E i \in 1 .. Len(wait_queue) : j = wait_queue[i]
         \/ \E t \in Actors : OwnsSocket(t) /\ j = job[t]
  PROVE  UNCHANGED status
<1>1. wait_queue \in Seq(Jobs) /\ OpenQueued /\ OpenHeld
  BY TotalTyped DEF Sound, Typed, Opened
<1>2. j \in Jobs
  BY <1>1, ElementOfSeq, ConstantFacts
     DEF Sound, Typed, LocalsSet, OwnsSocket, InFlight, Actors
<1>3. sock[j.value] = j.arrival_time
  BY <1>1 DEF OpenQueued, OpenHeld
<1>4. sock[j.value] # 0
  BY <1>2, <1>3 DEF Jobs, Conns
<1>5. QED
  BY <1>4 DEF Close

(* The k-th node leaves the queue: its connection, and no other, no longer *)
(* waits.                                                                  *)
LEMMA QueueLoses ==
  ASSUME Sound, NEW k \in 1 .. Len(wait_queue), Removed(k),
         NEW c, c = wait_queue[k].arrival_time
  PROVE  /\ ~ InQueue(c)'
         /\ \A d : d # c => (InQueue(d)' <=> InQueue(d))
<1>0. /\ wait_queue \in Seq(Jobs) /\ Len(wait_queue) \in Nat /\ QueuedApart
      /\ \A i \in 1 .. Len(wait_queue) : wait_queue[i] \in Jobs
  BY TotalTyped, ElementOfSeq DEF Sound, Typed, Distinct
<1>1. \A i, j \in 1 .. Len(wait_queue) :
        i # j => wait_queue[i].arrival_time # wait_queue[j].arrival_time
  <2>1. \A i \in 1 .. Len(wait_queue) : wait_queue[i].arrival_time \in Nat
    BY <1>0 DEF Jobs, Conns
  <2>2. QED
    BY <1>0, <2>1 DEF QueuedApart
<1>2. \A i \in 1 .. Len(wait_queue') :
        \E j \in 1 .. Len(wait_queue) : j # k /\ wait_queue'[i] = wait_queue[j]
  BY <1>0 DEF Removed
<1>3. \A j \in 1 .. Len(wait_queue) : j # k =>
        \E i \in 1 .. Len(wait_queue') : wait_queue'[i] = wait_queue[j]
  <2> TAKE j \in 1 .. Len(wait_queue)
  <2>1. CASE j < k
    BY <1>0, <2>1 DEF Removed
  <2>2. CASE j > k
    <3>1. /\ j - 1 \in 1 .. Len(wait_queue')
          /\ wait_queue'[j - 1] = wait_queue[j - 1 + 1]
          /\ j - 1 + 1 = j
      BY <1>0, <2>2 DEF Removed
    <3>2. QED
      BY <3>1
  <2>3. QED
    BY <1>0, <2>1, <2>2
<1>4. ~ InQueue(c)'
  BY <1>1, <1>2 DEF InQueue
<1>5. ASSUME NEW d, d # c PROVE InQueue(d)' <=> InQueue(d)
  <2>1. InQueue(d)' => InQueue(d)
    BY <1>2 DEF InQueue
  <2>2. ASSUME InQueue(d)
        PROVE  InQueue(d)'
    <3>1. PICK j \in 1 .. Len(wait_queue) : wait_queue[j].arrival_time = d
      BY <2>2 DEF InQueue
    <3>2. j # k
      BY <1>0, <1>5, <3>1
    <3>3. QED
      BY <1>3, <3>1, <3>2 DEF InQueue
  <2>3. QED
    BY <2>1, <2>2
<1>6. QED
  BY <1>4, <1>5

(* The contract's instance counts sets as this module does.                *)
LEMMA SameCardinality ==
  ASSUME NEW S
  PROVE  Contract!Cardinality(S) = Cardinality(S)
  BY DEF Contract!Cardinality, Cardinality

(* The server is full exactly when the contract is overloaded.             *)
LEMMA FullIsOverloaded == Sound => (Full <=> Contract!Overloaded)
<1> SUFFICES ASSUME Sound PROVE Full <=> Contract!Overloaded
  OBVIOUS
<1>1. Len(wait_queue) \in Nat /\ Len(worker_queue) \in Nat
  BY TotalTyped DEF Sound, Typed
<1>2. QED
  BY <1>1, ContractCounts, SameCardinality DEF Full, queueCurrSize, Total, Contract!Overloaded

-----------------------------------------------------------------------------
LEMMA AcceptMaps ==
  ASSUME Sound, Sound', MainAccept
  PROVE  Contract!Next
<1> USE ConstantFacts DEF Goto, args, queues, kernel
<1>0. clock \in Nat /\ clock + 1 \in Conns
  BY NumbersAssumption DEF Sound, Typed, TypeOK, MainAccept, Conns
<1>c. PICK c \in Conns : c = clock + 1
  BY <1>0
<1>a. /\ pc \in [Actors -> {"accept", "lock", "admit", "cond_block", "dropping", "enqueue",
                            "check", "cond", "handle", "close", "lock_done", "remove"}]
      /\ job \in [Actors -> Jobs \cup {Free}]
      /\ client \in [Conns -> {"none", "asks", "silent", "resets", "answered"}]
  BY DEF Sound, Typed, TypeOK
<1>1. PICK fd \in Fds, kind \in {"asks", "silent", "resets"} :
        /\ client' = [client EXCEPT ![c] = kind]
        /\ job' = [job EXCEPT ![Main] = [value |-> fd, arrival_time |-> c]]
  BY <1>c DEF MainAccept
<1>2. /\ UNCHANGED <<args, wait_queue, toDrop, status>> /\ clock' = c
      /\ ~ OwnsSocket(Main) /\ OwnsSocket(Main)' /\ job'[Main].arrival_time = c
      /\ \A w \in Threads : (InFlight(w)' <=> InFlight(w)) /\ job'[w] = job[w]
      /\ \A d \in Conns : d # c => client'[d] = client[d]
      /\ status = "running"
  BY <1>0, <1>a, <1>c, <1>1 DEF MainAccept, OwnsSocket, InFlight
<1>3. Stage(c)' = "arrived"
  <2>1. WithMain(c)'
    BY <1>2 DEF WithMain
  <2>2. QED
    BY <1>0, <2>1, StageMeansNext DEF StagesFit, StageFits
<1>4. ASSUME NEW d \in Conns, d # c PROVE Stage(d)' = Stage(d)
  <2>1. (d > clock)' <=> (d > clock)
    BY <1>0, <1>c, <1>2, <1>4 DEF Conns
  <2>2. /\ WithMain(d)' <=> WithMain(d)
        /\ InQueue(d)' <=> InQueue(d)
        /\ Taken(d)' <=> Taken(d)
        /\ Answered(d)' <=> Answered(d)
    BY <1>2, <1>4 DEF WithMain, InQueue, Taken, Answered
  <2>3. QED
    BY <2>1, <2>2, StageKept
<1>5. Contract!Move(c, "arrived") /\ toDrop' = toDrop
  BY <1>0, <1>2, <1>3, <1>4, MovesOne
<1>6. Contract!At({"arrived"}) = {}
  BY <1>2, StageMeans DEF StagesFit, StageFits, WithMain, Contract!At, Contract!Conns, Conns
<1>7. Contract!IsOldest(c, Contract!At({"new"}))
  <2>1. Contract!At({"new"}) = {d \in Conns : d > clock}
    BY StageMeans DEF StagesFit, StageFits, Contract!At, Contract!Conns, Conns
  <2>2. QED
    BY <1>0, <1>c, <2>1 DEF Contract!IsOldest, Conns
<1>8. c \in Contract!Conns
  BY <1>0 DEF Contract!Conns, Conns
<1>9. QED
  BY <1>5, <1>6, <1>7, <1>8 DEF Contract!Next, Contract!Arrive

(* What main holds has arrived, and nothing else has.                      *)
LEMMA MainHolds ==
  ASSUME Sound, OwnsSocket(Main)
  PROVE  LET c == job[Main].arrival_time
         IN  /\ c \in Conns /\ c \in Contract!Conns
             /\ WithMain(c) /\ ~ InQueue(c) /\ ~ Taken(c) /\ ~ Answered(c) /\ ~ (c > clock)
             /\ c \in Contract!At({"arrived"})
             /\ \A d \in Conns : d # c => ~ WithMain(d)
<1> DEFINE c == job[Main].arrival_time
<1>1. c \in Conns
  BY DEF Sound, Typed, LocalsSet, Jobs
<1>2. WithMain(c) /\ \A d \in Conns : d # c => ~ WithMain(d)
  BY DEF WithMain
<1> HIDE DEF c
<1>3. ~ InQueue(c) /\ ~ Taken(c) /\ ~ Answered(c) /\ ~ (c > clock) /\ Stage(c) = "arrived"
  BY <1>1, <1>2, StageMeans DEF StagesFit, StageFits
<1>4. c \in Contract!Conns /\ c \in Contract!At({"arrived"})
  BY <1>1, <1>3 DEF Contract!At, Contract!Conns, Conns
<1>5. QED
  BY <1>1, <1>2, <1>3, <1>4 DEF c

LEMMA DropNewMaps ==
  ASSUME Sound, Sound', MainDropNew
  PROVE  Contract!Next
<1> USE ConstantFacts DEF Goto, args, queues, kernel
<1>a. /\ pc \in [Actors -> {"accept", "lock", "admit", "cond_block", "dropping", "enqueue",
                            "check", "cond", "handle", "close", "lock_done", "remove"}]
      /\ job \in [Actors -> Jobs \cup {Free}]
  BY DEF Sound, Typed, TypeOK
<1>1. OwnsSocket(Main)
  BY DEF MainDropNew, AtAdmit, OwnsSocket
<1>2. PICK c \in Conns :
      /\ c \in Contract!Conns
      /\ WithMain(c) /\ ~ InQueue(c) /\ ~ Taken(c) /\ ~ Answered(c) /\ ~ (c > clock)
      /\ c \in Contract!At({"arrived"})
      /\ \A d \in Conns : d # c => ~ WithMain(d)
  BY <1>1, MainHolds
<1>3. UNCHANGED status
  BY <1>1, CloseSucceeds DEF MainDropNew
<1>4. /\ UNCHANGED <<args, wait_queue, toDrop, clock, client>>
      /\ ~ OwnsSocket(Main)'
      /\ \A w \in Threads : (InFlight(w)' <=> InFlight(w)) /\ job'[w] = job[w]
      /\ status = "running"
  BY <1>a DEF MainDropNew, AtAdmit, OwnsSocket, InFlight
<1>5. \A d \in Conns : /\ (d > clock)' <=> (d > clock)
                       /\ InQueue(d)' <=> InQueue(d)
                       /\ Taken(d)' <=> Taken(d)
                       /\ Answered(d)' <=> Answered(d)
                       /\ ~ WithMain(d)'
  BY <1>4 DEF WithMain, InQueue, Taken, Answered
<1>6. Stage(c)' = "refused"
  BY <1>2, <1>5, StageMeansNext DEF StagesFit, StageFits
<1>7. \A d \in Conns : d # c => Stage(d)' = Stage(d)
  BY <1>2, <1>5, StageKept
<1>8. Contract!Move(c, "refused") /\ toDrop' = toDrop
  BY <1>2, <1>3, <1>4, <1>6, <1>7, MovesOne
<1>9. Contract!Overloaded
  BY FullIsOverloaded DEF MainDropNew
<1>10. queueEmpty(wait_queue) => Contract!Waiting = {}
  BY ContractCounts DEF queueEmpty, queueCurrSize
<1>11. Contract!RefuseNew(c)
  BY <1>2, <1>8, <1>9, <1>10 DEF MainDropNew, Contract!RefuseNew
<1>12. QED
  BY <1>2, <1>11 DEF Contract!Next

(* The connection of the k-th node waits, and it is nowhere else.          *)
LEMMA QueueHolds ==
  ASSUME Sound, NEW k \in 1 .. Len(wait_queue)
  PROVE  LET c == wait_queue[k].arrival_time
         IN  /\ c \in Conns /\ c \in Contract!Conns
             /\ InQueue(c) /\ ~ WithMain(c) /\ ~ Taken(c) /\ ~ Answered(c) /\ ~ (c > clock)
             /\ c \in Contract!Waiting
             /\ k = 1 => Contract!IsOldest(c, Contract!Waiting)
<1> DEFINE c == wait_queue[k].arrival_time
<1>0. /\ wait_queue \in Seq(Jobs) /\ Len(wait_queue) \in Nat /\ QueuedApart
      /\ \A i \in 1 .. Len(wait_queue) : wait_queue[i] \in Jobs
  BY TotalTyped, ElementOfSeq DEF Sound, Typed, Distinct
<1>1. c \in Conns /\ InQueue(c)
  BY <1>0 DEF Jobs, InQueue
<1>2. c \in Contract!Waiting
  BY ContractCounts
<1>3. ASSUME k = 1 PROVE Contract!IsOldest(c, Contract!Waiting)
  <2>1. \A i \in 1 .. Len(wait_queue) : wait_queue[i].arrival_time \in Nat
    BY <1>0 DEF Jobs, Conns
  <2>2. \A i \in 1 .. Len(wait_queue) : c <= wait_queue[i].arrival_time
    BY <1>0, <1>3, <2>1 DEF QueuedApart
  <2>3. QED
    BY <1>2, <2>2, ContractCounts DEF Contract!IsOldest
<1> HIDE DEF c
<1>4. ~ WithMain(c) /\ ~ Taken(c) /\ ~ Answered(c) /\ ~ (c > clock)
  BY <1>1, StageMeans DEF StagesFit, StageFits
<1>5. QED
  BY <1>1, <1>2, <1>3, <1>4 DEF c, Contract!Conns, Conns

(* Main refuses the connection of the k-th node.                           *)
LEMMA RefusalMaps ==
  ASSUME Sound, Sound', NEW k \in 1 .. Len(wait_queue), Removed(k),
         NEW c \in Conns, c = wait_queue[k].arrival_time,
         status = "running", status' = status, UNCHANGED <<args, clock, client, job>>,
         OwnsSocket(Main)' <=> OwnsSocket(Main),
         \A w \in Threads : InFlight(w)' <=> InFlight(w)
  PROVE  Contract!Move(c, "refused")
<1>1. /\ InQueue(c) /\ ~ WithMain(c) /\ ~ Taken(c) /\ ~ Answered(c) /\ ~ (c > clock)
  BY QueueHolds
<1>2. /\ ~ InQueue(c)'
      /\ \A d : d # c => (InQueue(d)' <=> InQueue(d))
  BY QueueLoses
<1>3. \A d \in Conns : /\ (d > clock)' <=> (d > clock)
                       /\ WithMain(d)' <=> WithMain(d)
                       /\ Taken(d)' <=> Taken(d)
                       /\ Answered(d)' <=> Answered(d)
  BY DEF WithMain, Taken, Answered
<1>4. Stage(c)' = "refused"
  BY <1>1, <1>2, <1>3, StageMeansNext DEF StagesFit, StageFits
<1>5. \A d \in Conns : d # c => Stage(d)' = Stage(d)
  BY <1>2, <1>3, StageKept
<1>6. QED
  BY <1>4, <1>5, MovesOne

LEMMA DropHeadMaps ==
  ASSUME Sound, Sound', MainDropHead
  PROVE  Contract!Next
<1> USE ConstantFacts DEF Goto, args, queues, kernel
<1>a. /\ pc \in [Actors -> {"accept", "lock", "admit", "cond_block", "dropping", "enqueue",
                            "check", "cond", "handle", "close", "lock_done", "remove"}]
  BY DEF Sound, Typed, TypeOK
<1>1. /\ 1 \in 1 .. Len(wait_queue) /\ Removed(1) /\ Head(wait_queue) = wait_queue[1]
  BY HeadRemoved DEF MainDropHead, Sound
<1>2. PICK c \in Conns : c = wait_queue[1].arrival_time
  BY <1>1, QueueHolds
<1>3. /\ c \in Contract!Conns /\ Contract!IsOldest(c, Contract!Waiting)
  BY <1>1, <1>2, QueueHolds
<1>4. /\ UNCHANGED <<args, toDrop, clock, client, job>>
      /\ OwnsSocket(Main) /\ OwnsSocket(Main)'
      /\ \A w \in Threads : InFlight(w)' <=> InFlight(w)
      /\ status = "running"
  BY <1>a DEF MainDropHead, AtAdmit, OwnsSocket, InFlight
<1>5. UNCHANGED status
  <2>1. Close(wait_queue[1].value)
    BY <1>1 DEF MainDropHead, dequeueValue
  <2>2. QED
    BY <1>1, <2>1, CloseSucceeds
<1>6. Contract!Move(c, "refused") /\ toDrop' = toDrop
  BY <1>1, <1>2, <1>4, <1>5, RefusalMaps
<1>7. Contract!Overloaded /\ policy = "dh"
  BY FullIsOverloaded DEF MainDropHead
<1>8. Contract!At({"arrived"}) # {}
  BY <1>4, MainHolds
<1>9. QED
  BY <1>3, <1>6, <1>7, <1>8 DEF Contract!Next, Contract!RefuseOldest

LEMMA StartRandomMaps ==
  ASSUME Sound, Sound', MainStartRandom
  PROVE  Contract!Next
<1> USE ConstantFacts DEF Goto, args, queues, kernel
<1>a. /\ pc \in [Actors -> {"accept", "lock", "admit", "cond_block", "dropping", "enqueue",
                            "check", "cond", "handle", "close", "lock_done", "remove"}]
  BY DEF Sound, Typed, TypeOK
<1>1. /\ UNCHANGED <<args, wait_queue, clock, client, job, status>>
      /\ OwnsSocket(Main) /\ OwnsSocket(Main)'
      /\ \A w \in Threads : InFlight(w)' <=> InFlight(w)
      /\ status = "running" /\ toDrop = 0 /\ policy = "random"
  BY <1>a DEF MainStartRandom, AtAdmit, OwnsSocket, InFlight, Sound, NoQuota
<1>2. \A d \in Conns : /\ (d > clock)' <=> (d > clock)
                       /\ WithMain(d)' <=> WithMain(d)
                       /\ InQueue(d)' <=> InQueue(d)
                       /\ Taken(d)' <=> Taken(d)
                       /\ Answered(d)' <=> Answered(d)
  BY <1>1 DEF WithMain, InQueue, Taken, Answered
<1>3. \A d \in Conns : Stage(d)' = Stage(d)
  BY <1>2, StageKept
<1>4. Contract!Overloaded
  BY FullIsOverloaded DEF MainStartRandom
<1>5. Contract!At({"arrived"}) # {}
  BY <1>1, MainHolds
<1>6. /\ Cardinality(Contract!Waiting) = Len(wait_queue)
      /\ Len(wait_queue) # 0
  BY ContractCounts DEF MainStartRandom, queueEmpty, queueCurrSize
<1>7. Contract!Waiting # {}
  BY <1>6, FS_EmptySet
<1>8. toDrop' = (Contract!Cardinality(Contract!Waiting) + 1) \div 2
  BY <1>6, SameCardinality DEF MainStartRandom, queueCurrSize
<1>9. QED
  BY <1>1, <1>3, <1>4, <1>5, <1>7, <1>8 DEF Contract!Next, Contract!StartRefusing

LEMMA DropRandomMaps ==
  ASSUME Sound, Sound', MainDropRandom
  PROVE  Contract!Next
<1> USE ConstantFacts DEF Goto, args, queues, kernel
<1>a. /\ pc \in [Actors -> {"accept", "lock", "admit", "cond_block", "dropping", "enqueue",
                            "check", "cond", "handle", "close", "lock_done", "remove"}]
  BY DEF Sound, Typed, TypeOK
<1>0. Typed /\ Total <= queue_max_size
  BY DEF Sound, Room
<1>1. PICK index \in 0 .. queueCurrSize(wait_queue) - 1 :
        /\ wait_queue' = dequeueByIndex(wait_queue, queue_max_size, index)
        /\ Close(wait_queue[index + 1].value)
  BY DEF MainDropRandom
<1>2. index + 1 \in 1 .. Len(wait_queue) /\ Removed(index + 1)
  BY <1>0, <1>1, RandomRemoved
<1>3. PICK k \in 1 .. Len(wait_queue) : k = index + 1
  BY <1>2
<1>4. PICK c \in Conns : c = wait_queue[k].arrival_time
  BY QueueHolds
<1>5. c \in Contract!Conns /\ c \in Contract!Waiting
  BY <1>4, QueueHolds
<1>6. /\ UNCHANGED <<args, clock, client, job>>
      /\ OwnsSocket(Main) /\ OwnsSocket(Main)'
      /\ \A w \in Threads : InFlight(w)' <=> InFlight(w)
      /\ status = "running" /\ toDrop' = toDrop - 1
  BY <1>a DEF MainDropRandom, OwnsSocket, InFlight
<1>7. toDrop > 0
  BY <1>0 DEF MainDropRandom, Typed, DropLoop
<1>8. UNCHANGED status
  BY <1>1, <1>3, CloseSucceeds
<1>9. Contract!Move(c, "refused")
  BY <1>2, <1>3, <1>4, <1>6, <1>8, RefusalMaps
<1>10. QED
  BY <1>5, <1>6, <1>7, <1>9 DEF Contract!Next, Contract!RefuseAny

LEMMA EnqueueMaps ==
  ASSUME Sound, Sound', MainEnqueue
  PROVE  Contract!Next
<1> USE ConstantFacts DEF Goto, args, queues, kernel
<1>a. /\ pc \in [Actors -> {"accept", "lock", "admit", "cond_block", "dropping", "enqueue",
                            "check", "cond", "handle", "close", "lock_done", "remove"}]
      /\ job \in [Actors -> Jobs \cup {Free}]
  BY DEF Sound, Typed, TypeOK
<1>0. /\ Typed /\ Total < queue_max_size /\ Total \in Nat
      /\ Len(wait_queue) \in Nat /\ Len(worker_queue) \in Nat /\ queue_max_size \in Nat
  BY TotalTyped DEF Sound, Typed, Room, MainEnqueue
<1>1. OwnsSocket(Main)
  BY DEF MainEnqueue, OwnsSocket
<1>2. PICK c \in Conns :
        /\ c = job[Main].arrival_time /\ c \in Contract!Conns
        /\ WithMain(c) /\ ~ InQueue(c) /\ ~ Taken(c) /\ ~ Answered(c) /\ ~ (c > clock)
        /\ c \in Contract!At({"arrived"})
        /\ \A d \in Conns : d # c => ~ WithMain(d)
  BY <1>1, MainHolds
<1>3. /\ UNCHANGED <<args, toDrop, clock, client, status>>
      /\ ~ OwnsSocket(Main)' /\ status = "running"
      /\ \A w \in Threads : (InFlight(w)' <=> InFlight(w)) /\ job'[w] = job[w]
  BY <1>a DEF MainEnqueue, Sleepers, OwnsSocket, InFlight
<1>4. /\ Len(wait_queue') = Len(wait_queue) + 1
      /\ \A i \in 1 .. Len(wait_queue) : wait_queue'[i] = wait_queue[i]
      /\ wait_queue'[Len(wait_queue) + 1] = job[Main]
  BY <1>0, Enqueued
<1>5. \A d : InQueue(d)' <=> InQueue(d) \/ d = c
  <2>1. \A i \in 1 .. Len(wait_queue') : i \in 1 .. Len(wait_queue) \/ i = Len(wait_queue) + 1
    BY <1>0, <1>4
  <2>2. /\ \A i \in 1 .. Len(wait_queue) : i \in 1 .. Len(wait_queue')
        /\ Len(wait_queue) + 1 \in 1 .. Len(wait_queue')
    BY <1>0, <1>4
  <2>3. QED
    BY <1>2, <1>4, <2>1, <2>2 DEF InQueue
<1>6. \A d \in Conns : /\ (d > clock)' <=> (d > clock)
                       /\ Taken(d)' <=> Taken(d)
                       /\ Answered(d)' <=> Answered(d)
                       /\ ~ WithMain(d)'
  BY <1>3 DEF WithMain, Taken, Answered
<1>7. Stage(c)' = "waiting"
  BY <1>5, StageMeansNext DEF StagesFit, StageFits
<1>8. \A d \in Conns : d # c => Stage(d)' = Stage(d)
  BY <1>2, <1>5, <1>6, StageKept
<1>9. Contract!Move(c, "waiting") /\ toDrop' = toDrop
  BY <1>3, <1>7, <1>8, MovesOne
<1>10. ~ Contract!Overloaded
  BY <1>0, FullIsOverloaded DEF Full, queueCurrSize, Total
<1>11. toDrop = 0
  BY DEF MainEnqueue, Sound, NoQuota
<1>12. QED
  BY <1>2, <1>9, <1>10, <1>11 DEF Contract!Next, Contract!Admit

LEMMA TakeMaps ==
  ASSUME Sound, Sound', NEW w \in Threads, WorkerTake(w)
  PROVE  Contract!Next
<1> USE ConstantFacts DEF Goto, args, queues, kernel
<1>a. /\ pc \in [Actors -> {"accept", "lock", "admit", "cond_block", "dropping", "enqueue",
                            "check", "cond", "handle", "close", "lock_done", "remove"}]
      /\ job \in [Actors -> Jobs \cup {Free}]
  BY DEF Sound, Typed, TypeOK
<1>1. /\ 1 \in 1 .. Len(wait_queue) /\ Removed(1) /\ Head(wait_queue) = wait_queue[1]
  BY HeadRemoved DEF WorkerTake, Sound
<1>2. PICK c \in Conns : c = wait_queue[1].arrival_time
  BY <1>1, QueueHolds
<1>3. /\ c \in Contract!Conns /\ Contract!IsOldest(c, Contract!Waiting)
      /\ InQueue(c) /\ ~ WithMain(c) /\ ~ Taken(c) /\ ~ Answered(c) /\ ~ (c > clock)
  BY <1>1, <1>2, QueueHolds
<1>4. /\ UNCHANGED <<args, toDrop, clock, client, status>> /\ status = "running"
      /\ OwnsSocket(Main)' <=> OwnsSocket(Main)
      /\ job'[Main] = job[Main]
      /\ job'[w] = wait_queue[1] /\ InFlight(w)' /\ ~ InFlight(w)
      /\ \A v \in Threads : v # w => (InFlight(v)' <=> InFlight(v)) /\ job'[v] = job[v]
  BY <1>a, <1>1 DEF WorkerTake, OwnsSocket, InFlight
<1>5. /\ ~ InQueue(c)'
      /\ \A d : d # c => (InQueue(d)' <=> InQueue(d))
  BY <1>1, <1>2, QueueLoses
<1>6. \A d \in Conns : /\ (d > clock)' <=> (d > clock)
                       /\ WithMain(d)' <=> WithMain(d)
                       /\ Answered(d)' <=> Answered(d)
                       /\ Taken(d)' <=> Taken(d) \/ d = c
  BY <1>2, <1>4 DEF WithMain, Taken, Answered
<1>7. Stage(c)' = "serving"
  BY <1>3, <1>6, StageMeansNext DEF StagesFit, StageFits
<1>8. \A d \in Conns : d # c => Stage(d)' = Stage(d)
  BY <1>5, <1>6, StageKept
<1>9. Contract!Move(c, "serving") /\ toDrop' = toDrop
  BY <1>4, <1>7, <1>8, MovesOne
<1>10. Contract!Cardinality(Contract!At({"serving", "leaving"})) < Cardinality(Threads)
  <2>1. Active \in SUBSET Threads /\ Active # Threads
    BY <1>4 DEF Active
  <2>2. Cardinality(Active) < Cardinality(Threads)
    <3>1. IsFiniteSet(Threads)
      BY ThreadsAssumption
    <3>2. /\ Cardinality(Active) <= Cardinality(Threads)
          /\ Cardinality(Active) # Cardinality(Threads)
      BY <2>1, <3>1, FS_Subset, Zenon
    <3>3. QED
      BY <3>1, <3>2, ActiveFinite, FS_CardinalityType
  <2>3. QED
    BY <2>2, ContractCounts, SameCardinality
(* The worker has the mutex, so main is not in its drop loop.              *)
<1>11. toDrop = 0
  <2>1. mutex = w
    BY <1>4 DEF WorkerTake, Sound, LockDiscipline, HoldsMutex
  <2>2. pc[Main] # "dropping"
    BY <1>4, <2>1 DEF Sound, LockDiscipline, HoldsMutex
  <2>3. QED
    BY <2>2 DEF Sound, NoQuota
<1>12. QED
  BY <1>3, <1>9, <1>10, <1>11 DEF Contract!Next, Contract!Start

(* What a worker has is taken, by this worker only.                        *)
LEMMA WorkerHolds ==
  ASSUME Sound, NEW w \in Threads, InFlight(w)
  PROVE  LET c == job[w].arrival_time
         IN  /\ c \in Conns /\ c \in Contract!Conns
             /\ Taken(c) /\ ~ WithMain(c) /\ ~ InQueue(c) /\ ~ (c > clock)
             /\ Answered(c) <=> pc[w] # "handle"
             /\ \A v \in Threads : InFlight(v) /\ v # w => job[v].arrival_time # c
<1> DEFINE c == job[w].arrival_time
<1>1. c \in Conns
  BY DEF Sound, Typed, LocalsSet, Jobs
<1>2. Taken(c)
  BY DEF Taken
<1>3. Answered(c) <=> pc[w] # "handle"
  BY DEF Answered, Sound, AnsweredOnce
<1>4. \A v \in Threads : InFlight(v) /\ v # w => job[v].arrival_time # c
  BY ConstantFacts DEF Sound, Distinct, HeldApart, Holds
<1> HIDE DEF c
<1>5. ~ WithMain(c) /\ ~ InQueue(c) /\ ~ (c > clock)
  BY <1>1, <1>2, StageMeans DEF StagesFit, StageFits
<1>6. QED
  BY <1>1, <1>2, <1>3, <1>4, <1>5 DEF c, Contract!Conns, Conns

LEMMA HandleMaps ==
  ASSUME Sound, Sound', NEW w \in Threads, WorkerHandle(w)
  PROVE  Contract!Next
<1> USE ConstantFacts DEF Goto, args, queues, kernel
<1>a. /\ pc \in [Actors -> {"accept", "lock", "admit", "cond_block", "dropping", "enqueue",
                            "check", "cond", "handle", "close", "lock_done", "remove"}]
      /\ client \in [Conns -> {"none", "asks", "silent", "resets", "answered"}]
  BY DEF Sound, Typed, TypeOK
<1>1. InFlight(w) /\ OwnsSocket(w)
  BY DEF WorkerHandle, InFlight, OwnsSocket
<1>2. PICK c \in Conns :
        /\ c = job[w].arrival_time /\ c \in Contract!Conns
        /\ Taken(c) /\ ~ WithMain(c) /\ ~ InQueue(c) /\ ~ (c > clock)
        /\ ~ Answered(c)
  BY <1>1, WorkerHolds DEF WorkerHandle
<1>3. sock[job[w].value] = c
  BY <1>1, <1>2 DEF Sound, Opened, OpenHeld
<1>4. /\ UNCHANGED <<args, wait_queue, toDrop, clock, status, job>> /\ status = "running"
      /\ OwnsSocket(Main)' <=> OwnsSocket(Main)
      /\ \A v \in Threads : InFlight(v)' <=> InFlight(v)
      /\ client' = [client EXCEPT ![c] = "answered"]
  BY <1>a, <1>3 DEF WorkerHandle, OwnsSocket, InFlight
<1>5. \A d \in Conns : /\ (d > clock)' <=> (d > clock)
                       /\ WithMain(d)' <=> WithMain(d)
                       /\ InQueue(d)' <=> InQueue(d)
                       /\ Taken(d)' <=> Taken(d)
  BY <1>4 DEF WithMain, InQueue, Taken
<1>6. \A d \in Conns : Answered(d)' <=> Answered(d) \/ d = c
  BY <1>a, <1>4 DEF Answered
<1>7. Stage(c)' = "leaving"
  BY <1>2, <1>5, <1>6, StageMeansNext DEF StagesFit, StageFits
<1>8. \A d \in Conns : d # c => Stage(d)' = Stage(d)
  BY <1>5, <1>6, StageKept
<1>9. Contract!Move(c, "leaving") /\ toDrop' = toDrop
  BY <1>4, <1>7, <1>8, MovesOne
<1>10. c \in Contract!At({"serving"})
  BY <1>2, StageMeans DEF StagesFit, StageFits, Contract!At, Contract!Conns, Conns
<1>11. QED
  BY <1>2, <1>9, <1>10 DEF Contract!Next, Contract!Answer

LEMMA RemoveMaps ==
  ASSUME Sound, Sound', NEW w \in Threads, WorkerRemove(w)
  PROVE  Contract!Next
<1> USE ConstantFacts DEF Goto, args, queues, kernel
<1>a. /\ pc \in [Actors -> {"accept", "lock", "admit", "cond_block", "dropping", "enqueue",
                            "check", "cond", "handle", "close", "lock_done", "remove"}]
      /\ job \in [Actors -> Jobs \cup {Free}]
  BY DEF Sound, Typed, TypeOK
<1>1. InFlight(w)
  BY DEF WorkerRemove, InFlight
<1>2. PICK c \in Conns :
        /\ c = job[w].arrival_time /\ c \in Contract!Conns
        /\ Taken(c) /\ ~ WithMain(c) /\ ~ InQueue(c) /\ ~ (c > clock)
        /\ Answered(c)
        /\ \A v \in Threads : InFlight(v) /\ v # w => job[v].arrival_time # c
  BY <1>1, WorkerHolds DEF WorkerRemove
<1>3. /\ UNCHANGED <<args, wait_queue, toDrop, clock, client, status>> /\ status = "running"
      /\ OwnsSocket(Main)' <=> OwnsSocket(Main)
      /\ job'[Main] = job[Main]
      /\ ~ InFlight(w)'
      /\ \A v \in Threads : v # w => (InFlight(v)' <=> InFlight(v)) /\ job'[v] = job[v]
  BY <1>a DEF WorkerRemove, OwnsSocket, InFlight
<1>4. \A d \in Conns : /\ (d > clock)' <=> (d > clock)
                       /\ WithMain(d)' <=> WithMain(d)
                       /\ InQueue(d)' <=> InQueue(d)
                       /\ Answered(d)' <=> Answered(d)
  BY <1>3 DEF WithMain, InQueue, Answered
<1>5. /\ ~ Taken(c)'
      /\ \A d \in Conns : d # c => (Taken(d)' <=> Taken(d))
  BY <1>2, <1>3 DEF Taken
<1>6. Stage(c)' = "served"
  BY <1>2, <1>4, <1>5, StageMeansNext DEF StagesFit, StageFits
<1>7. \A d \in Conns : d # c => Stage(d)' = Stage(d)
  BY <1>4, <1>5, StageKept
<1>8. Contract!Move(c, "served") /\ toDrop' = toDrop
  BY <1>3, <1>6, <1>7, MovesOne
<1>9. c \in Contract!At({"leaving"})
  BY <1>2, StageMeans DEF StagesFit, StageFits, Contract!At, Contract!Conns, Conns
<1>10. QED
  BY <1>2, <1>8, <1>9 DEF Contract!Next, Contract!Leave

(* The steps in which no connection changes its stage: the contract does   *)
(* not see mutex, condition variables, worker_queue or descriptors.        *)
LEMMA OthersStutter ==
  ASSUME Sound, Sound',
         \/ MainLock \/ MainHasRoom \/ MainBlock \/ UNCHANGED vars
         \/ \E w \in Threads : WorkerLock(w) \/ WorkerLockDone(w) \/ WorkerSleep(w) \/ WorkerClose(w)
         \/ \E t \in Actors : SpuriousWakeup(t)
  PROVE  UNCHANGED Contract!vars
<1> USE ConstantFacts DEF Goto, args, queues, kernel
<1>a. /\ pc \in [Actors -> {"accept", "lock", "admit", "cond_block", "dropping", "enqueue",
                            "check", "cond", "handle", "close", "lock_done", "remove"}]
      /\ pc[Main] \in {"accept", "lock", "admit", "cond_block", "dropping", "enqueue"}
      /\ \A w \in Threads :
           pc[w] \in {"lock", "check", "cond", "handle", "close", "lock_done", "remove"}
  BY DEF Sound, Typed, TypeOK
<1>1. CASE MainLock \/ MainHasRoom \/ MainBlock \/ UNCHANGED vars
  <2>1. /\ UNCHANGED <<args, wait_queue, client, toDrop, clock, status, job>>
        /\ OwnsSocket(Main)' <=> OwnsSocket(Main)
        /\ \A w \in Threads : InFlight(w)' <=> InFlight(w)
    BY <1>1, <1>a DEF MainLock, Lock, MainHasRoom, MainBlock, AtAdmit, vars, OwnsSocket, InFlight
  <2>2. QED
    BY <2>1, Stutters
<1>2. ASSUME NEW w \in Threads, WorkerLock(w) \/ WorkerLockDone(w) \/ WorkerSleep(w)
      PROVE  UNCHANGED Contract!vars
  <2>1. /\ UNCHANGED <<args, wait_queue, client, toDrop, clock, status, job>>
        /\ OwnsSocket(Main)' <=> OwnsSocket(Main)
        /\ \A v \in Threads : InFlight(v)' <=> InFlight(v)
    BY <1>2, <1>a DEF WorkerLock, WorkerLockDone, Lock, WorkerSleep, OwnsSocket, InFlight
  <2>2. QED
    BY <2>1, Stutters
<1>3. ASSUME NEW w \in Threads, WorkerClose(w) PROVE UNCHANGED Contract!vars
  <2>1. /\ UNCHANGED <<args, wait_queue, client, toDrop, clock, job>>
        /\ OwnsSocket(Main)' <=> OwnsSocket(Main)
        /\ \A v \in Threads : InFlight(v)' <=> InFlight(v)
    BY <1>3, <1>a DEF WorkerClose, OwnsSocket, InFlight
  <2>2. OwnsSocket(w) /\ w \in Actors /\ Close(job[w].value)
    BY <1>3 DEF WorkerClose, OwnsSocket
  <2>3. UNCHANGED status
    BY <2>2, CloseSucceeds
  <2>4. QED
    BY <2>1, <2>3, Stutters
<1>4. ASSUME NEW t \in Actors, SpuriousWakeup(t) PROVE UNCHANGED Contract!vars
  <2>1. /\ UNCHANGED <<args, wait_queue, client, toDrop, clock, status, job>>
        /\ OwnsSocket(Main)' <=> OwnsSocket(Main)
        /\ \A v \in Threads : InFlight(v)' <=> InFlight(v)
    BY <1>4, <1>a DEF SpuriousWakeup, OwnsSocket, InFlight, Actors
  <2>2. QED
    BY <2>1, Stutters
<1>5. QED
  BY <1>1, <1>2, <1>3, <1>4

(* accept without a free descriptor, and a failing Rio_ wrapper, stop the  *)
(* server.                                                                 *)
LEMMA ExitMaps ==
  ASSUME Sound, Sound', MainAcceptFails \/ \E w \in Threads : WorkerIoError(w)
  PROVE  Contract!Next
<1> USE DEF args, queues, kernel
<1>1. /\ UNCHANGED <<args, wait_queue, client, toDrop, clock, pc, job>>
      /\ status = "running" /\ status' = "exited"
  BY DEF MainAcceptFails, WorkerIoError
<1>2. \A d \in Conns : /\ (d > clock)' <=> (d > clock)
                       /\ WithMain(d)' <=> WithMain(d)
                       /\ InQueue(d)' <=> InQueue(d)
                       /\ Taken(d)' <=> Taken(d)
                       /\ Answered(d)' <=> Answered(d)
  BY <1>1 DEF WithMain, InQueue, Taken, Answered, OwnsSocket, InFlight
<1>3. \A d \in Conns : Stage(d)' = Stage(d)
  BY <1>2, StageKept
<1>4. QED
  BY <1>1, <1>3 DEF Contract!Next, Contract!Stop

-----------------------------------------------------------------------------
LEMMA StepMaps == Sound /\ Sound' /\ [Next]_vars => [Contract!Next]_(Contract!vars)
<1> SUFFICES ASSUME Sound, Sound', [Next]_vars
             PROVE  Contract!Next \/ UNCHANGED Contract!vars
  OBVIOUS
<1>1. ~ MainUnknownPolicy
  BY DEF Sound, MainUnknownPolicy
<1>2. ASSUME NEW w \in Threads PROVE ~ WorkerFaults(w)
  BY RemovalFinds DEF Sound, Room, EntriesInv, WorkerFaults, InFlight
<1>3. QED
  BY <1>1, <1>2, AcceptMaps, DropNewMaps, DropHeadMaps, StartRandomMaps, DropRandomMaps,
     EnqueueMaps, TakeMaps, HandleMaps, RemoveMaps, ExitMaps, OthersStutter
     DEF Next, MainSteps, WorkerSteps

LEMMA InitMaps == Init => Contract!Init
<1> SUFFICES ASSUME Init PROVE Contract!Init
  OBVIOUS
<1>1. \A c \in Conns : Stage(c) = "new"
  <2>1. ASSUME NEW c \in Conns PROVE Stage(c) = "new"
    <3>1. wait_queue \in Seq(Jobs) /\ Len(wait_queue) = 0 /\ c > clock
      BY EmptySeq, NumbersAssumption DEF Init, Conns
    <3>2. ~ WithMain(c) /\ ~ InQueue(c) /\ ~ Taken(c)
      BY <3>1, ConstantFacts DEF Init, WithMain, InQueue, Taken, OwnsSocket, InFlight, Actors
    <3>3. QED
      BY <3>1, <3>2, StageDefinition
  <2>2. QED
    BY <2>1
<1>2. QED
  BY <1>1 DEF Init, Contract!Init, Contract!Conns, Conns

(* Started with one of the four policies, the server does only what the    *)
(* contract allows: connections are taken in arrival order, each is        *)
(* answered or refused once, none is refused while there is room, and each *)
(* policy refuses the ones it should (server.c:101-150).                   *)
THEOREM ServerKeepsContract == Spec /\ policy \in KnownPolicies => ImplementsContract
<1>1. Spec /\ policy \in KnownPolicies => []Sound /\ Contract!Init
  BY InitMaps, AlwaysSound, PTL DEF Spec
<1>2. Spec /\ []Sound => [][Contract!Next]_(Contract!vars)
  BY StepMaps, PTL DEF Spec
<1>3. QED
  BY <1>1, <1>2, PTL DEF ImplementsContract, Contract!Spec
=============================================================================
