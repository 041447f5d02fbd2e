--------------------------- MODULE LinkedQueueProofs ---------------------------
(***************************************************************************)
(* Theorems about the linked list of queue.c, for all addresses, values    *)
(* and sizes: the nodes from head on are a chain without repetitions, and  *)
(* the values they hold are the sequence that QueueContract describes.     *)
(***************************************************************************)
EXTENDS LinkedQueue, FiniteSetTheorems, SequenceLemmas

(* The nodes of the list in order: o is what the pointers spell out.       *)
Chain(o) ==
  /\ o \in Seq(Nodes) /\ Len(o) = size
  /\ \A i, j \in 1 .. size : o[i] = o[j] => i = j
  /\ Allocated = {o[i] : i \in 1 .. size} /\ DOMAIN value = Allocated
  /\ head = IF size = 0 THEN NULL ELSE o[1]
  /\ tail = IF size = 0 THEN NULL ELSE o[size]
  /\ \A i \in 1 .. size : /\ next[o[i]] = IF i = size THEN NULL ELSE o[i + 1]
                          /\ value[o[i]] \in Values

Inv ==
  /\ LinkedQueueAssumption
  /\ max_size \in MaxSizes /\ size \in 0 .. max_size
  /\ \E o : Chain(o)

(* Following next from head gives the chain, then NULL, then a fault.      *)
Along(o) ==
  [i \in 0 .. max_size + 1 |->
     IF i < size THEN o[i + 1] ELSE IF i = size THEN NULL ELSE "fault"]

Walked(walk) ==
  [i \in 0 .. max_size + 1 |->
     IF i = 0 THEN head
     ELSE IF walk[i - 1] \in Allocated THEN next[walk[i - 1]] ELSE "fault"]

LEMMA Numbers ==
  ASSUME Inv
  PROVE  /\ size \in Nat /\ max_size \in Nat /\ size <= max_size
         /\ NULL \notin Nodes /\ "fault" \notin Nodes /\ "fault" # NULL /\ -1 \notin Values
<1>1. LinkedQueueAssumption /\ max_size \in MaxSizes /\ size \in 0 .. max_size
  BY DEF Inv
<1>2. max_size \in Nat
  BY <1>1 DEF LinkedQueueAssumption
<1>3. QED
  BY <1>1, <1>2 DEF LinkedQueueAssumption

LEMMA AlongWalks ==
  ASSUME NEW o, Inv, Chain(o)
  PROVE  Walked(Along(o)) = Along(o)
<1>1. /\ size \in Nat /\ max_size \in Nat /\ size <= max_size
      /\ NULL \notin Nodes /\ "fault" \notin Nodes
  BY Numbers
<1>2. ASSUME NEW i \in 0 .. max_size + 1
      PROVE  Walked(Along(o))[i] = Along(o)[i]
  <2>1. CASE i = 0
    <3>1. Walked(Along(o))[i] = head /\ head = IF size = 0 THEN NULL ELSE o[1]
      BY <1>1, <2>1 DEF Walked, Chain
    <3>2. Along(o)[i] = IF size = 0 THEN NULL ELSE o[1]
      BY <1>1, <2>1 DEF Along
    <3>3. QED
      BY <3>1, <3>2
  <2>2. CASE i # 0
    <3>1. PICK k \in 0 .. max_size : k = i - 1 /\ i = k + 1
      BY <1>1, <2>2
    <3>2. Walked(Along(o))[i] = IF Along(o)[k] \in Allocated THEN next[Along(o)[k]] ELSE "fault"
      BY <1>1, <2>2, <3>1 DEF Walked
    <3>3. Along(o)[k] = IF k < size THEN o[i] ELSE IF k = size THEN NULL ELSE "fault"
      BY <1>1, <3>1 DEF Along
    <3>4. CASE k < size
      <4>1. i \in 1 .. size
        BY <1>1, <3>1, <3>4
      <4>2. Along(o)[k] \in Allocated /\ next[o[i]] = IF i = size THEN NULL ELSE o[i + 1]
        BY <3>3, <3>4, <4>1 DEF Chain
      <4>3. Walked(Along(o))[i] = IF i = size THEN NULL ELSE o[i + 1]
        BY <3>2, <3>3, <3>4, <4>2
      <4>4. Along(o)[i] = IF i = size THEN NULL ELSE o[i + 1]
        BY <1>1, <3>1, <4>1 DEF Along
      <4>5. QED
        BY <4>3, <4>4
    <3>5. CASE ~ (k < size)
      <4>1. Along(o)[k] \notin Nodes
        BY <1>1, <3>3, <3>5
      <4>2. Allocated \subseteq Nodes
        BY DEF Chain
      <4>3. Walked(Along(o))[i] = "fault"
        BY <3>2, <4>1, <4>2
      <4>4. Along(o)[i] = "fault"
        BY <1>1, <3>1, <3>5 DEF Along
      <4>5. QED
        BY <4>3, <4>4
    <3>6. QED
      BY <3>4, <3>5
  <2>3. QED
    BY <2>1, <2>2
<1>3. QED
  BY <1>2 DEF Walked, Along

LEMMA WalkIsUnique ==
  ASSUME NEW f, NEW g, max_size \in Nat, f = Walked(f), g = Walked(g)
  PROVE  \A i \in 0 .. max_size + 1 : f[i] = g[i]
<1> DEFINE D == {i \in 0 .. max_size + 1 : f[i] # g[i]}
<1>1. SUFFICES ASSUME D # {}
               PROVE  FALSE
  OBVIOUS
<1>2. PICK i \in 0 .. max_size + 1 : i \in D /\ \A j \in D : i <= j
  <2>1. D \subseteq Nat
    OBVIOUS
  <2>2. QED
    BY <1>1, <2>1, MinProperties
<1>3. CASE i = 0
  BY <1>2, <1>3 DEF Walked
<1>4. CASE i # 0
  <2>1. i - 1 \in 0 .. max_size + 1 /\ ~ (i <= i - 1)
    BY <1>4
  <2>2. f[i - 1] = g[i - 1]
    BY <1>2, <2>1
  <2>3. f[i] = g[i]
    BY <1>4, <2>1, <2>2 DEF Walked
  <2>4. QED
    BY <1>2, <2>3
<1>5. QED
  BY <1>3, <1>4

LEMMA ReachedIs ==
  ASSUME NEW o, Inv, Chain(o)
  PROVE  /\ \A i \in 0 .. size - 1 : Reached[i] = o[i + 1]
         /\ Reached[size] = NULL
         /\ \A i \in size + 1 .. max_size + 1 : Reached[i] = "fault"
<1>1. size \in Nat /\ max_size \in Nat /\ size <= max_size
  BY Numbers
<1> DEFINE walk == CHOOSE f : f = Walked(f)
<1>2. walk = Walked(walk)
  BY AlongWalks
<1>3. Reached = walk
  BY DEF Reached, Walked
<1> HIDE DEF walk
<1>4. \A i \in 0 .. max_size + 1 : walk[i] = Along(o)[i]
  <2>1. PICK f, g : f = walk /\ g = Along(o)
    OBVIOUS
  <2>2. f = Walked(f) /\ g = Walked(g)
    BY <1>2, <2>1, AlongWalks
  <2>3. QED
    BY <1>1, <2>1, <2>2, WalkIsUnique
<1>5. QED
  BY <1>1, <1>3, <1>4 DEF Along

-----------------------------------------------------------------------------
(* What the pointers say of the list, and the values on it.                *)
Items(o) == [i \in 1 .. size |-> value[o[i]]]

LEMMA ChainIsSound ==
  ASSUME NEW o, Inv, Chain(o)
  PROVE  /\ ListShape /\ NoNodeLeaks
         /\ Contents = Items(o) /\ Items(o) \in Seq(Values) /\ Len(Items(o)) = size
<1>1. size \in Nat /\ max_size \in Nat /\ size <= max_size
  BY Numbers
<1>2. /\ \A i \in 0 .. size - 1 : Reached[i] = o[i + 1] /\ i + 1 \in 1 .. size
      /\ \A i \in 1 .. size : i - 1 \in 0 .. size - 1 /\ (i - 1) + 1 = i
      /\ Reached[size] = NULL
  BY <1>1, ReachedIs
<1>3. \A i \in 1 .. size : Reached[i - 1] = o[i]
  BY <1>2
<1>4. {Reached[i] : i \in 0 .. size - 1} = Allocated
  BY <1>2, <1>3 DEF Chain
<1>5. Cardinality(Allocated) = size
  <2>1. o \in [1 .. size -> Allocated]
    BY DEF Chain
  <2>2. o \in Bijection(1 .. size, Allocated)
    BY <2>1 DEF Chain, Bijection, Injection, Surjection, IsInjective
  <2>3. IsFiniteSet(1 .. size) /\ Cardinality(1 .. size) = size
    BY <1>1, FS_Interval
  <2>4. ExistsBijection(1 .. size, Allocated)
    BY <2>2 DEF ExistsBijection
  <2>5. IsFiniteSet(Allocated)
    <3>1. o \in Surjection(1 .. size, Allocated)
      BY <2>2 DEF Bijection
    <3>2. QED
      BY <2>3, <3>1, FS_Surjection
  <2>6. QED
    BY <2>3, <2>4, <2>5, FS_Bijection
<1>6. tail = IF size = 0 THEN NULL ELSE Reached[size - 1]
  <2>1. size # 0 => size \in 1 .. size
    BY <1>1
  <2>2. QED
    BY <1>3, <2>1 DEF Chain
<1>7. ListShape
  BY <1>2, <1>4, <1>5, <1>6 DEF ListShape
<1>8. NoNodeLeaks
  BY <1>4 DEF NoNodeLeaks
<1>9. Contents = Items(o)
  BY <1>3 DEF Contents, Items
<1>10. Items(o) \in [1 .. size -> Values]
  BY DEF Items, Chain
<1>11. QED
  BY <1>1, <1>7, <1>8, <1>9, <1>10

-----------------------------------------------------------------------------
(* A node appended: nodeCreate and enqueue.                                *)
Appended(n, v) ==
  /\ value' = With(value, n, v)
  /\ next' = IF queueEmpty THEN With(next, n, NULL)
             ELSE [With(next, n, NULL) EXCEPT ![tail] = n]
  /\ head' = IF queueEmpty THEN n ELSE head
  /\ tail' = n
  /\ size' = size + 1

LEMMA AppendedChain ==
  ASSUME NEW o, Inv, Chain(o), NEW n \in Nodes \ Allocated, NEW v \in Values, Appended(n, v)
  PROVE  Chain(Append(o, n))' /\ Items(Append(o, n))' = Append(Items(o), v)
<1>0. size \in Nat /\ size' = size + 1
  BY Numbers DEF Appended
<1>1. PICK p : p = Append(o, n)
  OBVIOUS
<1>2. /\ o \in Seq(Nodes) /\ Len(o) = size
      /\ \A i, j \in 1 .. size : o[i] = o[j] => i = j
      /\ Allocated = {o[i] : i \in 1 .. size} /\ DOMAIN value = Allocated /\ DOMAIN next = Allocated
      /\ \A i \in 1 .. size : o[i] \in Allocated /\ value[o[i]] \in Values
  BY DEF Chain, Allocated
<1>3. /\ p \in Seq(Nodes) /\ Len(p) = size + 1
      /\ \A i \in 1 .. size : p[i] = o[i]
      /\ p[size + 1] = n
  BY <1>1, <1>2, AppendProperties
<1>4. \A i \in 1 .. size + 1 : i \in 1 .. size \/ i = size + 1
  BY <1>0
<1>5. \A i, j \in 1 .. size + 1 : p[i] = p[j] => i = j
  BY <1>2, <1>3, <1>4
<1>6. DOMAIN value' = Allocated \cup {n} /\ \A m \in Allocated \cup {n} :
        value'[m] = IF m = n THEN v ELSE value[m]
  BY <1>2 DEF Appended, With
<1>7. DOMAIN next' = Allocated \cup {n}
  BY <1>2 DEF Appended, With, Allocated
<1>8. Allocated \cup {n} = {p[i] : i \in 1 .. size + 1}
  <2>1. \A m : m \in Allocated <=> \E i \in 1 .. size : o[i] = m
    BY <1>2
  <2>2. \A m : m \in Allocated \cup {n} <=> \E i \in 1 .. size + 1 : p[i] = m
    BY <1>0, <1>3, <1>4, <2>1
  <2>3. QED
    BY <2>2
<1>9. head' = p[1]
  BY <1>0, <1>3 DEF Appended, queueEmpty, Chain
<1>10. ASSUME NEW i \in 1 .. size + 1
       PROVE  /\ next'[p[i]] = IF i = size + 1 THEN NULL ELSE p[i + 1]
              /\ value'[p[i]] \in Values
  <2>1. value'[p[i]] \in Values
    BY <1>2, <1>3, <1>4, <1>6
  <2>2. CASE i = size + 1
    <3>1. next'[n] = NULL
      <4>1. CASE size = 0
        BY <4>1 DEF Appended, With, queueEmpty
      <4>2. CASE size # 0
        <5>1. tail = o[size] /\ size \in 1 .. size
          BY <1>0, <4>2 DEF Chain
        <5>2. tail # n
          BY <1>2, <5>1
        <5>3. next' = [With(next, n, NULL) EXCEPT ![tail] = n]
          BY <4>2 DEF Appended, queueEmpty
        <5>4. QED
          BY <5>2, <5>3 DEF With
      <4>3. QED
        BY <4>1, <4>2
    <3>2. QED
      BY <1>3, <2>1, <2>2, <3>1
  <2>3. CASE i # size + 1
    <3>1. i \in 1 .. size /\ size # 0 /\ size \in 1 .. size
      BY <1>0, <2>3
    <3>2. tail = o[size] /\ next' = [With(next, n, NULL) EXCEPT ![tail] = n]
      BY <3>1 DEF Chain, Appended, queueEmpty
    <3>3. p[i] = o[i] /\ o[i] \in Allocated /\ o[i] # n
      BY <1>2, <1>3, <3>1
    <3>4. next'[o[i]] = IF o[i] = o[size] THEN n ELSE next[o[i]]
      BY <1>2, <3>2, <3>3 DEF With
    <3>5. CASE i = size
      BY <1>3, <2>1, <2>3, <3>3, <3>4, <3>5
    <3>6. CASE i # size
      <4>1. o[i] # o[size] /\ i + 1 \in 1 .. size
        BY <1>0, <1>2, <3>1, <3>6
      <4>2. next[o[i]] = o[i + 1]
        BY <3>1, <3>6 DEF Chain
      <4>3. QED
        BY <1>3, <2>1, <2>3, <3>3, <3>4, <4>1, <4>2
    <3>7. QED
      BY <3>5, <3>6
  <2>4. QED
    BY <2>2, <2>3
<1>11. Chain(p)'
  <2>1. size' # 0 /\ tail' = p[size']
    BY <1>0, <1>3 DEF Appended
  <2>2. Allocated' = Allocated \cup {n}
    BY <1>7 DEF Allocated
  <2>3. QED
    BY <1>0, <1>3, <1>5, <1>6, <1>8, <1>9, <1>10, <2>1, <2>2 DEF Chain
<1>12. Items(p)' = Append(Items(o), v)
  <2>1. Items(o) \in Seq(Values) /\ Len(Items(o)) = size
    BY ChainIsSound
  <2>2. PICK items, longer : items = Items(o) /\ longer = Append(items, v)
    OBVIOUS
  <2>3. /\ longer \in Seq(Values) /\ Len(longer) = size + 1
        /\ \A i \in 1 .. size : longer[i] = items[i]
        /\ longer[size + 1] = v
    BY <2>1, <2>2, AppendProperties
  <2>4. \A i \in 1 .. size : items[i] = value[o[i]]
    BY <2>2 DEF Items
  <2>5. \A i \in 1 .. size : value'[p[i]] = longer[i]
    <3>1. \A i \in 1 .. size : p[i] \in Allocated /\ p[i] # n /\ p[i] = o[i]
      BY <1>2, <1>3
    <3>2. \A i \in 1 .. size : value'[p[i]] = value[o[i]]
      BY <1>6, <3>1
    <3>3. QED
      BY <2>3, <2>4, <3>2
  <2>6. value'[p[size + 1]] = longer[size + 1]
    BY <1>3, <1>6, <2>3
  <2>7. \A i \in 1 .. size + 1 : value'[p[i]] = longer[i]
    BY <1>4, <2>5, <2>6
  <2>8. longer = [i \in 1 .. size + 1 |-> longer[i]]
    BY <2>3
  <2>9. longer = [i \in 1 .. size + 1 |-> value'[p[i]]]
    BY <2>7, <2>8
  <2>10. QED
    BY <1>0, <2>2, <2>9 DEF Items
<1>13. QED
  BY <1>1, <1>11, <1>12

-----------------------------------------------------------------------------
(* A node unlinked and freed, the k-th of the list: dequeue and            *)
(* dequeueByIndex.                                                         *)
Removed(o, k) ==
  /\ value' = Without(value, o[k])
  /\ DOMAIN next' = Allocated \ {o[k]}
  /\ \A i \in 1 .. size : i # k =>
       next'[o[i]] = IF i = k - 1 THEN next[o[k]] ELSE next[o[i]]
  /\ head' = IF k = 1 THEN next[o[k]] ELSE head
  /\ tail' = IF size = 1 THEN NULL ELSE IF k = size THEN o[size - 1] ELSE tail
  /\ size' = size - 1

LEMMA RemovedChain ==
  ASSUME NEW o, Inv, Chain(o), NEW k \in 1 .. size, Removed(o, k)
  PROVE  Chain(RemoveAt(o, k))' /\ Items(RemoveAt(o, k))' = RemoveAt(Items(o), k)
<1>0. size \in Nat /\ size' = size - 1 /\ size' \in Nat /\ k \in Int /\ 1 <= k /\ k <= size
  BY Numbers DEF Removed
<1>1. PICK p : p = RemoveAt(o, k)
  OBVIOUS
<1>2. /\ o \in Seq(Nodes) /\ Len(o) = size
      /\ \A i, j \in 1 .. size : o[i] = o[j] => i = j
      /\ Allocated = {o[i] : i \in 1 .. size} /\ DOMAIN value = Allocated /\ DOMAIN next = Allocated
      /\ \A i \in 1 .. size : o[i] \in Allocated /\ value[o[i]] \in Values
  BY DEF Chain, Allocated
<1>3. /\ p \in Seq(Nodes) /\ Len(p) = size - 1
      /\ \A i \in 1 .. size - 1 : p[i] = IF i < k THEN o[i] ELSE o[i + 1]
  <2>1. /\ RemoveAt(o, k) \in Seq(Nodes) /\ Len(RemoveAt(o, k)) = Len(o) - 1
        /\ \A i \in 1 .. Len(o) - 1 :
             RemoveAt(o, k)[i] = IF i < k THEN o[i] ELSE o[i + 1]
    <3>1. o \in Seq(Nodes) /\ k \in 1 .. Len(o)
      BY <1>2
    <3>2. QED
      BY <3>1, RemoveAtProperties
  <2>2. QED
    BY <1>1, <1>2, <2>1
<1> DEFINE from(i) == IF i < k THEN i ELSE i + 1
<1>4. ASSUME NEW i \in 1 .. size - 1
      PROVE  from(i) \in 1 .. size /\ from(i) # k /\ p[i] = o[from(i)]
  BY <1>0, <1>3
<1>5. ASSUME NEW j \in 1 .. size, j # k
      PROVE  \E i \in 1 .. size - 1 : j = from(i)
  <2>1. CASE j < k
    <3>1. j \in 1 .. size - 1
      BY <1>0, <2>1
    <3>2. QED
      BY <2>1, <3>1
  <2>2. CASE ~ (j < k)
    <3>1. j - 1 \in 1 .. size - 1 /\ ~ (j - 1 < k) /\ (j - 1) + 1 = j
      BY <1>0, <1>5, <2>2
    <3>2. QED
      BY <3>1
  <2>3. QED
    BY <2>1, <2>2
<1>6. \A i, j \in 1 .. size - 1 : from(i) = from(j) => i = j
  BY <1>0
<1>7. \A i, j \in 1 .. size - 1 : p[i] = p[j] => i = j
  <2> HIDE DEF from
  <2>1. QED
    BY <1>2, <1>4, <1>6
<1>8. Allocated \ {o[k]} = {p[i] : i \in 1 .. size - 1}
  <2> HIDE DEF from
  <2>1. \A m : m \in Allocated <=> \E j \in 1 .. size : o[j] = m
    BY <1>2
  <2>2. ASSUME NEW m \in Allocated \ {o[k]}
        PROVE  \E i \in 1 .. size - 1 : p[i] = m
    <3>1. PICK j \in 1 .. size : o[j] = m /\ j # k
      BY <2>1, <2>2
    <3>2. QED
      BY <1>4, <1>5, <3>1
  <2>3. ASSUME NEW i \in 1 .. size - 1
        PROVE  p[i] \in Allocated \ {o[k]}
    BY <1>2, <1>4, <2>1
  <2>4. QED
    BY <2>2, <2>3
<1>9. DOMAIN value' = Allocated \ {o[k]} /\ \A m \in Allocated \ {o[k]} : value'[m] = value[m]
  BY <1>2 DEF Removed, Without
<1>10. \A i \in 1 .. size - 1 : p[i] \in Allocated \ {o[k]}
  BY <1>8
<1>11. ASSUME NEW i \in 1 .. size - 1
       PROVE  next'[p[i]] = IF i = size - 1 THEN NULL ELSE p[i + 1]
  <2>1. next'[o[from(i)]] = IF from(i) = k - 1 THEN next[o[k]] ELSE next[o[from(i)]]
    BY <1>4 DEF Removed
  <2>2. \A j \in 1 .. size : next[o[j]] = IF j = size THEN NULL ELSE o[j + 1]
    BY DEF Chain
  <2>3. CASE i = k - 1
    <3>1. from(i) = k - 1 /\ (k = size <=> i = size - 1)
      BY <1>0, <2>3
    <3>2. next'[p[i]] = IF k = size THEN NULL ELSE o[k + 1]
      BY <1>4, <2>1, <2>2, <3>1
    <3>3. CASE i = size - 1
      BY <3>1, <3>2, <3>3
    <3>4. CASE i # size - 1
      <4>1. i + 1 \in 1 .. size - 1 /\ ~ (i + 1 < k) /\ (i + 1) + 1 = k + 1
        BY <1>0, <2>3, <3>4
      <4>2. p[i + 1] = o[k + 1]
        BY <1>3, <4>1
      <4>3. QED
        BY <3>1, <3>2, <3>4, <4>2
    <3>5. QED
      BY <3>3, <3>4
  <2>4. CASE i # k - 1
    <3>1. from(i) # k - 1
      BY <1>0, <2>4
    <3>2. next'[p[i]] = IF from(i) = size THEN NULL ELSE o[from(i) + 1]
      BY <1>4, <2>1, <2>2, <3>1
    <3>3. from(i) = size <=> i = size - 1
      BY <1>0, <2>4
    <3>4. CASE i = size - 1
      BY <3>2, <3>3, <3>4
    <3>5. CASE i # size - 1
      <4>1. i + 1 \in 1 .. size - 1 /\ from(i + 1) = from(i) + 1
        BY <1>0, <2>4, <3>5
      <4>2. PICK j : j = i + 1
        OBVIOUS
      <4>3. p[j] = o[from(j)]
        BY <1>4, <4>1, <4>2
      <4>4. p[i + 1] = o[from(i) + 1]
        BY <4>1, <4>2, <4>3
      <4>5. QED
        BY <3>2, <3>3, <3>5, <4>4
    <3>6. QED
      BY <3>4, <3>5
  <2>5. QED
    BY <2>3, <2>4
<1>12. head' = IF size' = 0 THEN NULL ELSE p[1]
  <2>1. next[o[k]] = IF k = size THEN NULL ELSE o[k + 1]
    BY DEF Chain
  <2>2. CASE size = 1
    <3>1. k = 1 /\ size' = 0
      BY <1>0, <2>2
    <3>2. QED
      BY <2>1, <2>2, <3>1 DEF Removed
  <2>3. CASE size # 1
    <3>1. size' # 0 /\ 1 \in 1 .. size - 1
      BY <1>0, <2>3
    <3>2. p[1] = IF 1 < k THEN o[1] ELSE o[1 + 1]
      BY <1>3, <3>1
    <3>3. head = o[1]
      BY <1>0 DEF Chain
    <3>4. CASE k = 1
      BY <2>1, <2>3, <3>1, <3>2, <3>4 DEF Removed
    <3>5. CASE k # 1
      <4>1. 1 < k
        BY <1>0, <3>5
      <4>2. QED
        BY <3>1, <3>2, <3>3, <3>5, <4>1 DEF Removed
    <3>6. QED
      BY <3>4, <3>5
  <2>4. QED
    BY <2>2, <2>3
<1>13. tail' = IF size' = 0 THEN NULL ELSE p[size']
  <2>1. CASE size = 1
    BY <1>0, <2>1 DEF Removed
  <2>2. CASE size # 1
    <3>1. size - 1 \in 1 .. size - 1 /\ size' # 0 /\ (size - 1) + 1 = size
      BY <1>0, <2>2
    <3>2. p[size'] = IF size - 1 < k THEN o[size - 1] ELSE o[size]
      BY <1>0, <1>3, <3>1
    <3>3. size - 1 < k <=> k = size
      BY <1>0
    <3>4. tail = o[size]
      BY <1>0 DEF Chain
    <3>5. QED
      BY <2>2, <3>1, <3>2, <3>3, <3>4 DEF Removed
  <2>3. QED
    BY <2>1, <2>2
<1>14. Chain(p)'
  <2>1. Allocated' = Allocated \ {o[k]}
    BY DEF Allocated, Removed
  <2>2. ASSUME NEW i \in 1 .. size - 1
        PROVE  value'[p[i]] \in Values
    <3>1. value'[p[i]] = value[o[from(i)]] /\ from(i) \in 1 .. size
      BY <1>4, <1>9, <1>10
    <3>2. QED
      BY <1>2, <3>1
  <2>3. QED
    <3>1. PICK n, a : n = size - 1 /\ a = Allocated \ {o[k]}
      OBVIOUS
    <3>2. size' = n /\ Allocated' = a /\ DOMAIN value' = a
      BY <1>0, <1>9, <2>1, <3>1
    <3>3. /\ p \in Seq(Nodes) /\ Len(p) = n
          /\ \A i, j \in 1 .. n : p[i] = p[j] => i = j
          /\ a = {p[i] : i \in 1 .. n}
      BY <1>3, <1>7, <1>8, <3>1
    <3>4. \A i \in 1 .. n : /\ next'[p[i]] = IF i = n THEN NULL ELSE p[i + 1]
                            /\ value'[p[i]] \in Values
      BY <1>11, <2>2, <3>1
    <3>5. QED
      BY <1>12, <1>13, <3>2, <3>3, <3>4 DEF Chain
<1>15. Items(p)' = RemoveAt(Items(o), k)
  <2>1. PICK items : items = Items(o)
    OBVIOUS
  <2>2. items \in Seq(Values) /\ Len(items) = size
    BY <2>1, ChainIsSound
  <2>3. PICK shorter : shorter = RemoveAt(items, k)
    OBVIOUS
  <2>4. /\ shorter \in Seq(Values) /\ Len(shorter) = size - 1
        /\ \A i \in 1 .. size - 1 : shorter[i] = IF i < k THEN items[i] ELSE items[i + 1]
    BY <2>2, <2>3, RemoveAtProperties
  <2>5. \A i \in 1 .. size : items[i] = value[o[i]]
    BY <2>1 DEF Items
  <2>6. ASSUME NEW i \in 1 .. size - 1
        PROVE  value'[p[i]] = shorter[i]
    <3>1. value'[p[i]] = value[o[from(i)]]
      BY <1>4, <1>9, <1>10
    <3>2. shorter[i] = items[from(i)]
      BY <2>4
    <3>3. QED
      BY <1>4, <2>5, <3>1, <3>2
  <2>7. shorter = [i \in 1 .. size - 1 |-> shorter[i]]
    BY <2>4
  <2>8. shorter = [i \in 1 .. size - 1 |-> value'[p[i]]]
    BY <2>6, <2>7
  <2>9. QED
    BY <1>0, <2>1, <2>3, <2>8 DEF Items
<1>16. QED
  BY <1>1, <1>14, <1>15

LEMMA HeadIsRemoved ==
  ASSUME NEW o, Inv, Chain(o), ~ queueEmpty, RemoveHead
  PROVE  /\ 1 \in 1 .. size /\ Removed(o, 1)
         /\ result' = Items(o)[1]
<1>0. size \in Nat /\ size # 0 /\ 1 \in 1 .. size
  BY Numbers DEF queueEmpty
<1>1. /\ \A i, j \in 1 .. size : o[i] = o[j] => i = j
      /\ Allocated = {o[i] : i \in 1 .. size}
      /\ head = o[1] /\ tail = o[size] /\ NULL \notin Nodes
      /\ next[o[1]] = IF 1 = size THEN NULL ELSE o[1 + 1]
      /\ \A i \in 1 .. size : o[i] \in Nodes
  BY <1>0, Numbers DEF Chain
<1>2. next[head] = NULL <=> size = 1
  <2>1. size # 1 => 2 \in 1 .. size
    BY <1>0
  <2>2. QED
    BY <1>1, <2>1
<1>3. tail' = IF size = 1 THEN NULL ELSE tail
  BY <1>2 DEF RemoveHead
<1>4. \A i \in 1 .. size : i # 1 => next'[o[i]] = next[o[i]] /\ i # 1 - 1
  <2>1. \A i \in 1 .. size : o[i] \in DOMAIN next
    BY <1>1 DEF Allocated
  <2>2. \A m \in DOMAIN next \ {head} : next'[m] = next[m]
    BY DEF RemoveHead, Without
  <2>3. QED
    BY <1>0, <1>1, <2>1, <2>2
<1>5. DOMAIN next' = Allocated \ {o[1]}
  BY <1>1 DEF RemoveHead, Without, Allocated
<1>6. Removed(o, 1)
  BY <1>0, <1>1, <1>3, <1>4, <1>5 DEF Removed, RemoveHead
<1>7. result' = Items(o)[1]
  BY <1>0, <1>1 DEF RemoveHead, Items
<1>8. QED
  BY <1>0, <1>6, <1>7

LEMMA NodeIsUnlinked ==
  ASSUME NEW o, Inv, Chain(o), NEW index \in 1 .. size - 1, Unlink(index)
  PROVE  /\ index + 1 \in 1 .. size /\ Removed(o, index + 1)
         /\ result' = Items(o)[index + 1]
<1>0. size \in Nat /\ size # 0 /\ size # 1
  BY Numbers
<1>1. PICK k \in 1 .. size : k = index + 1 /\ index = k - 1 /\ k # 1 /\ k - 1 \in 1 .. size
  BY <1>0
<1>2. Reached[index] = o[k] /\ Reached[index - 1] = o[k - 1]
  <2>1. index \in 0 .. size - 1 /\ index - 1 \in 0 .. size - 1 /\ (index - 1) + 1 = k - 1
    BY <1>0, <1>1
  <2>2. QED
    BY <1>1, <2>1, ReachedIs
<1>3. /\ \A i, j \in 1 .. size : o[i] = o[j] => i = j
      /\ \A i \in 1 .. size : o[i] \in DOMAIN next /\ o[i] \in Nodes
      /\ tail = o[size]
  BY <1>0 DEF Chain, Allocated
<1>4. /\ value' = Without(value, o[k])
      /\ next' = Without([next EXCEPT ![o[k - 1]] = next[o[k]]], o[k])
      /\ tail' = IF index = size - 1 THEN o[k - 1] ELSE tail
      /\ size' = size - 1
      /\ result' = value[o[k]]
      /\ head' = head
  BY <1>2 DEF Unlink
<1>5. DOMAIN next' = Allocated \ {o[k]}
  BY <1>4 DEF Without, Allocated
<1>6. ASSUME NEW i \in 1 .. size, i # k
      PROVE  next'[o[i]] = IF i = k - 1 THEN next[o[k]] ELSE next[o[i]]
  <2>1. o[i] # o[k] /\ (o[i] = o[k - 1] <=> i = k - 1)
    BY <1>1, <1>3, <1>6
  <2>2. next'[o[i]] = [next EXCEPT ![o[k - 1]] = next[o[k]]][o[i]]
    BY <1>3, <1>4, <2>1 DEF Without
  <2>3. QED
    BY <1>3, <2>1, <2>2
<1>7. tail' = IF k = size THEN o[size - 1] ELSE tail
  BY <1>0, <1>1, <1>4
<1>8. Removed(o, k)
  BY <1>0, <1>1, <1>4, <1>5, <1>6, <1>7 DEF Removed
<1>9. QED
  BY <1>1, <1>4, <1>8 DEF Items

-----------------------------------------------------------------------------
(* The sequence of QueueContract, as nodes and back as values.             *)
NodesOf(items) == [i \in 1 .. Len(items) |-> [value |-> items[i]]]

ValuesOf(q) == [i \in 1 .. Len(q) |-> q[i].value]

LEMMA ValuesOfNodes ==
  ASSUME NEW items \in Seq(Values)
  PROVE  /\ NodesOf(items) \in Seq([value : Values]) /\ Len(NodesOf(items)) = Len(items)
         /\ \A i \in 1 .. Len(items) : NodesOf(items)[i].value = items[i]
         /\ ValuesOf(NodesOf(items)) = items
<1>1. PICK n : n = Len(items)
  OBVIOUS
<1>2. n \in Nat /\ items \in [1 .. n -> Values]
  BY <1>1
<1>3. PICK q : q = NodesOf(items)
  OBVIOUS
<1>4. q = [i \in 1 .. n |-> [value |-> items[i]]]
  BY <1>1, <1>3 DEF NodesOf
<1>5. q \in [1 .. n -> [value : Values]] /\ \A i \in 1 .. n : q[i].value = items[i]
  BY <1>2, <1>4
<1>6. q \in Seq([value : Values]) /\ Len(q) = n
  <2>1. PICK S : S = [value : Values]
    OBVIOUS
  <2>2. q \in [1 .. n -> S]
    BY <1>5, <2>1
  <2>3. q \in Seq(S) /\ Len(q) = n
    BY <1>2, <2>2
  <2>4. QED
    BY <2>1, <2>3
<1>7. ValuesOf(q) = [i \in 1 .. n |-> items[i]]
  BY <1>5, <1>6 DEF ValuesOf
<1>8. ValuesOf(q) = items
  BY <1>2, <1>7
<1>9. QED
  BY <1>1, <1>3, <1>5, <1>6, <1>8

LEMMA ValuesAfterAppend ==
  ASSUME NEW items \in Seq(Values), NEW v \in Values
  PROVE  ValuesOf(Append(NodesOf(items), [value |-> v])) = Append(items, v)
<1>1. PICK S, n, q, node, longer, values :
        /\ S = [value : Values] /\ n = Len(items) /\ q = NodesOf(items)
        /\ node = [value |-> v]
        /\ longer = Append(q, node) /\ values = Append(items, v)
  OBVIOUS
<1>2. /\ n \in Nat /\ q \in Seq(S) /\ Len(q) = n
      /\ \A i \in 1 .. n : q[i].value = items[i]
      /\ node \in S /\ node.value = v
  <2>1. /\ NodesOf(items) \in Seq([value : Values]) /\ Len(NodesOf(items)) = Len(items)
        /\ \A i \in 1 .. Len(items) : NodesOf(items)[i].value = items[i]
    BY ValuesOfNodes
  <2>2. n \in Nat /\ node \in S /\ node.value = v
    BY <1>1
  <2>3. QED
    BY <1>1, <2>1, <2>2
<1>3. /\ longer \in Seq(S) /\ Len(longer) = n + 1
      /\ \A i \in 1 .. n : longer[i] = q[i]
      /\ longer[n + 1] = node
  BY <1>1, <1>2, AppendProperties
<1>4. /\ values \in Seq(Values) /\ Len(values) = n + 1
      /\ \A i \in 1 .. n : values[i] = items[i]
      /\ values[n + 1] = v
  BY <1>1, <1>2, AppendProperties
<1>5. \A i \in 1 .. n + 1 : i \in 1 .. n \/ i = n + 1
  BY <1>2
<1>6. \A i \in 1 .. n + 1 : longer[i].value = values[i]
  BY <1>2, <1>3, <1>4, <1>5
<1>7. values = [i \in 1 .. n + 1 |-> values[i]]
  BY <1>4
<1>8. ValuesOf(longer) = values
  BY <1>3, <1>6, <1>7 DEF ValuesOf
<1>9. QED
  BY <1>1, <1>8

LEMMA ValuesAfterRemoval ==
  ASSUME NEW items \in Seq(Values), NEW k \in 1 .. Len(items)
  PROVE  ValuesOf(RemoveAt(NodesOf(items), k)) = RemoveAt(items, k)
<1>1. PICK S, n, q, shorter, values :
        /\ S = [value : Values] /\ n = Len(items) /\ q = NodesOf(items)
        /\ shorter = RemoveAt(q, k) /\ values = RemoveAt(items, k)
  OBVIOUS
<1>2. /\ n \in Nat /\ k \in 1 .. n /\ q \in Seq(S) /\ Len(q) = n
      /\ \A i \in 1 .. n : q[i].value = items[i]
  <2>1. /\ NodesOf(items) \in Seq([value : Values]) /\ Len(NodesOf(items)) = Len(items)
        /\ \A i \in 1 .. Len(items) : NodesOf(items)[i].value = items[i]
    BY ValuesOfNodes
  <2>2. n \in Nat /\ k \in 1 .. n
    BY <1>1
  <2>3. QED
    BY <1>1, <2>1, <2>2
<1>3. /\ shorter \in Seq(S) /\ Len(shorter) = n - 1
      /\ \A i \in 1 .. n - 1 : shorter[i] = IF i < k THEN q[i] ELSE q[i + 1]
  <2>1. /\ RemoveAt(q, k) \in Seq(S) /\ Len(RemoveAt(q, k)) = Len(q) - 1
        /\ \A i \in 1 .. Len(q) - 1 :
             RemoveAt(q, k)[i] = IF i < k THEN q[i] ELSE q[i + 1]
    <3>1. k \in 1 .. Len(q)
      BY <1>2
    <3>2. QED
      BY <1>2, <3>1, RemoveAtProperties
  <2>2. QED
    BY <1>1, <1>2, <2>1
<1>4. /\ values \in Seq(Values) /\ Len(values) = n - 1
      /\ \A i \in 1 .. n - 1 : values[i] = IF i < k THEN items[i] ELSE items[i + 1]
  BY <1>1, <1>2, RemoveAtProperties
<1>5. \A i \in 1 .. n - 1 : i \in 1 .. n /\ i + 1 \in 1 .. n
  BY <1>2
<1>6. \A i \in 1 .. n - 1 : shorter[i].value = values[i]
  BY <1>2, <1>3, <1>4, <1>5
<1>7. values = [i \in 1 .. n - 1 |-> values[i]]
  BY <1>4
<1>8. ValuesOf(shorter) = values
  BY <1>3, <1>6, <1>7 DEF ValuesOf
<1>9. QED
  BY <1>1, <1>8

LEMMA TailRemovesFirst ==
  ASSUME NEW S, NEW q \in Seq(S), Len(q) # 0
  PROVE  /\ Tail(q) = RemoveAt(q, 1) /\ Head(q) = q[1]
         /\ 1 \in 1 .. Len(q)
<1>1. PICK n, l, r : n = Len(q) /\ l = Tail(q) /\ r = RemoveAt(q, 1)
  OBVIOUS
<1>2. n \in Nat /\ n # 0 /\ 1 \in 1 .. n /\ q # << >>
  BY <1>1
<1>3. /\ l \in Seq(S) /\ Len(l) = n - 1 /\ Head(q) = q[1]
      /\ \A i \in 1 .. n - 1 : l[i] = q[i + 1]
  BY <1>1, <1>2, HeadTailProperties
<1>4. /\ r \in Seq(S) /\ Len(r) = n - 1
      /\ \A i \in 1 .. n - 1 : r[i] = IF i < 1 THEN q[i] ELSE q[i + 1]
  BY <1>1, <1>2, RemoveAtProperties
<1>5. \A i \in 1 .. n - 1 : l[i] = r[i]
  BY <1>2, <1>3, <1>4
<1>6. l = [i \in 1 .. n - 1 |-> l[i]] /\ r = [i \in 1 .. n - 1 |-> r[i]]
  BY <1>3, <1>4
<1>7. l = r
  BY <1>5, <1>6
<1>8. QED
  BY <1>1, <1>2, <1>3, <1>7

-----------------------------------------------------------------------------
(* The operations of QueueContract, spelled out.                           *)
LEMMA SequenceOperators ==
  ASSUME NEW q, NEW m, NEW x
  PROVE  /\ Abstract!nodes = NodesOf(Contents)
         /\ Abstract!ValuesOf(q) = ValuesOf(q)
         /\ Abstract!enqueue(q, m, x) = IF Len(q) = m THEN q ELSE Append(q, x)
         /\ Abstract!dequeue(q) = IF Len(q) = 0 THEN q ELSE Tail(q)
         /\ Abstract!dequeueValue(q) = IF Len(q) = 0 THEN -1 ELSE Head(q).value
         /\ Abstract!indexRejected(q, m, x) <=> Len(q) = 0 \/ x < 0 \/ x >= m
         /\ Abstract!indexFaults(q, m, x) <=>
              ~ (Len(q) = 0 \/ x < 0 \/ x >= m) /\ x >= Len(q)
         /\ Abstract!dequeueByIndex(q, m, x) =
              IF Len(q) = 0 \/ x < 0 \/ x >= m THEN q ELSE RemoveAt(q, x + 1)
<1>1. Abstract!nodes = NodesOf(Contents)
  BY DEF Abstract!nodes, NodesOf
<1>2. Abstract!ValuesOf(q) = ValuesOf(q)
  BY DEF Abstract!ValuesOf, ValuesOf
<1>3. Abstract!queueEmpty(q) <=> Len(q) = 0
  BY DEF Abstract!queueEmpty, Abstract!queueCurrSize
<1>4. Abstract!enqueue(q, m, x) = IF Len(q) = m THEN q ELSE Append(q, x)
  BY DEF Abstract!enqueue, Abstract!queueFull, Abstract!queueCurrSize
<1>5. /\ Abstract!dequeue(q) = IF Len(q) = 0 THEN q ELSE Tail(q)
      /\ Abstract!dequeueValue(q) = IF Len(q) = 0 THEN -1 ELSE Head(q).value
  BY <1>3 DEF Abstract!dequeue, Abstract!dequeueValue
<1>6. Abstract!indexRejected(q, m, x) <=> Len(q) = 0 \/ x < 0 \/ x >= m
  BY <1>3 DEF Abstract!indexRejected
<1>7. Abstract!RemoveAt(q, x + 1) = RemoveAt(q, x + 1)
  BY DEF Abstract!RemoveAt, RemoveAt
<1>8. QED
  BY <1>1, <1>2, <1>4, <1>5, <1>6, <1>7 DEF Abstract!indexFaults, Abstract!dequeueByIndex

(* queueFindIndex: the number of values before the first that equals v.    *)
LEMMA FoundFirst ==
  ASSUME NEW S, NEW q \in Seq(S), NEW v
  PROVE  /\ Abstract!queueFindIndex(q, v) \in 0 .. Len(q)
         /\ \A i \in 1 .. Len(q) :
              i <= Abstract!queueFindIndex(q, v) => q[i].value # v
         /\ Abstract!queueFindIndex(q, v) < Len(q) =>
              q[Abstract!queueFindIndex(q, v) + 1].value = v
<1> DEFINE I == {i \in 1 .. Len(q) : q[i].value = v}
<1>0. Len(q) \in Nat
  BY LenProperties
<1>1. Abstract!Min(I) = Min(I)
  BY DEF Abstract!Min, Min
<1>2. Abstract!queueFindIndex(q, v) = IF (IF I # {} THEN Min(I) ELSE 0) = 0 THEN Len(q)
                                      ELSE (IF I # {} THEN Min(I) ELSE 0) - 1
  BY <1>1, Zenon DEF Abstract!queueFindIndex, Abstract!SelectInSeq
<1>3. CASE I = {}
  BY <1>0, <1>2, <1>3
<1>4. CASE I # {}
  <2>1. PICK m : m = Min(I)
    OBVIOUS
  <2>2. m \in I /\ \A j \in I : m <= j
    <3>1. I \subseteq Nat
      BY <1>0
    <3> HIDE DEF I
    <3>2. QED
      BY <1>4, <2>1, <3>1, MinProperties
  <2>3. m \in 1 .. Len(q) /\ q[m].value = v /\ m # 0
    BY <1>0, <2>2
  <2>4. Abstract!queueFindIndex(q, v) = m - 1
    BY <1>2, <1>4, <2>1, <2>3
  <2>5. m - 1 \in 0 .. Len(q) /\ (m - 1) + 1 = m
    BY <1>0, <2>3
  <2>6. ASSUME NEW i \in 1 .. Len(q), i <= m - 1
        PROVE  q[i].value # v
    <3>1. ~ (m <= i)
      BY <1>0, <2>3, <2>6
    <3>2. QED
      BY <2>2, <3>1
  <2>7. QED
    BY <2>3, <2>4, <2>5, <2>6
<1>5. QED
  BY <1>3, <1>4

-----------------------------------------------------------------------------
(* Each operation keeps the list a chain, and is the operation on values.  *)
LEMMA ContentsOfChain == \A o : Inv /\ Chain(o) => Contents = Items(o)
  BY ChainIsSound

LEMMA ContentsNext == (\A o : Inv /\ Chain(o) => Contents = Items(o))'
  BY ContentsOfChain, PTL

LEMMA OnTheList ==
  ASSUME NEW o, Inv, Chain(o)
  PROVE  /\ Contents \in Seq(Values) /\ Len(Contents) = size
         /\ Len(NodesOf(Contents)) = size /\ ValuesOf(NodesOf(Contents)) = Contents
         /\ NodesOf(Contents) \in Seq([value : Values])
<1>1. PICK items : items = Contents
  OBVIOUS
<1>2. items \in Seq(Values) /\ Len(items) = size
  BY <1>1, ChainIsSound
<1>3. QED
  BY <1>1, <1>2, ValuesOfNodes

LEMMA InvNext ==
  ASSUME Inv, max_size' = max_size, size' \in 0 .. max_size, NEW o, Chain(o)'
  PROVE  Inv' /\ Contents' = Items(o)'
<1>1. Inv'
  BY DEF Inv, LinkedQueueAssumption
<1>2. QED
  BY <1>1, ContentsNext

ListKept == UNCHANGED <<max_size, size, head, tail, fields>>

LEMMA KeptList ==
  ASSUME Inv, ListKept
  PROVE  Inv' /\ Contents' = Contents
<1>1. Inv'
  <2>1. PICK o : Chain(o)
    BY DEF Inv
  <2>2. Chain(o)'
    BY <2>1 DEF Chain, Allocated, ListKept, fields
  <2>3. QED
    BY <2>2 DEF Inv, LinkedQueueAssumption, ListKept
<1>2. Contents' = Contents
  BY DEF Contents, Reached, Allocated, ListKept, fields
<1>3. QED
  BY <1>1, <1>2

LEMMA EnqueueStep ==
  ASSUME Inv, NEW v \in Values, Enqueue(v)
  PROVE  Inv' /\ Abstract!Enqueue(v)
<1>1. PICK o : Chain(o)
  BY DEF Inv
<1>2. /\ ~ fault /\ call' = <<"enqueue", v>> /\ result' = 0
      /\ max_size' = max_size /\ fault' = fault
  BY DEF Enqueue
<1>3. PICK q : q = NodesOf(Contents)
  OBVIOUS
<1>4. Len(q) = size /\ ValuesOf(q) = Contents
  BY <1>1, <1>3, OnTheList
<1>5. Abstract!enqueue(Abstract!nodes, max_size, [value |-> v]) =
        IF size = max_size THEN q ELSE Append(q, [value |-> v])
  BY <1>3, <1>4, SequenceOperators
<1>6. ASSUME Inv' /\ Contents' = ValuesOf(IF size = max_size THEN q ELSE Append(q, [value |-> v]))
      PROVE  Inv' /\ Abstract!Enqueue(v)
  <2>1. Contents' = Abstract!ValuesOf(Abstract!enqueue(Abstract!nodes, max_size, [value |-> v]))
    BY <1>5, <1>6, SequenceOperators
  <2>2. QED
    BY <1>2, <1>6, <2>1 DEF Abstract!Enqueue, Abstract!Call
<1>7. CASE queueFull
  <2>1. ListKept
    BY <1>2, <1>7 DEF Enqueue, ListKept
  <2>2. QED
    BY <1>4, <1>6, <1>7, <2>1, KeptList DEF queueFull
<1>8. CASE ~ queueFull
  <2>1. PICK n \in Nodes \ Allocated : Appended(n, v)
    BY <1>8 DEF Enqueue, Appended
  <2>2. Chain(Append(o, n))' /\ Items(Append(o, n))' = Append(Items(o), v)
    BY <1>1, <2>1, AppendedChain
  <2>3. size' \in 0 .. max_size /\ size # max_size
    BY <1>8, <2>1, Numbers DEF queueFull, Appended
  <2>4. PICK p : p = Append(o, n)
    OBVIOUS
  <2>5. Inv' /\ Contents' = Append(Contents, v)
    <3>1. Chain(p)' /\ Items(p)' = Append(Contents, v)
      BY <1>1, <2>2, <2>4, ContentsOfChain
    <3>2. QED
      BY <1>2, <2>3, <3>1, InvNext
  <2>6. ValuesOf(Append(q, [value |-> v])) = Append(Contents, v)
    <3>1. PICK items : items = Contents
      OBVIOUS
    <3>2. items \in Seq(Values)
      BY <1>1, <3>1, OnTheList
    <3>3. QED
      BY <1>3, <3>1, <3>2, ValuesAfterAppend
  <2>7. QED
    BY <1>6, <2>3, <2>5, <2>6
<1>9. QED
  BY <1>7, <1>8

(* What a removal does to the chain and to the values, at any place.       *)
LEMMA RemovalStep ==
  ASSUME Inv, NEW o, Chain(o), NEW k \in 1 .. size, Removed(o, k), max_size' = max_size
  PROVE  Inv' /\ Contents' = ValuesOf(RemoveAt(NodesOf(Contents), k))
<1>1. PICK p : p = RemoveAt(o, k)
  OBVIOUS
<1>2. Chain(p)' /\ Items(p)' = RemoveAt(Contents, k)
  BY <1>1, RemovedChain, ContentsOfChain
<1>3. size' \in 0 .. max_size
  BY Numbers DEF Removed
<1>4. Inv' /\ Contents' = RemoveAt(Contents, k)
  BY <1>2, <1>3, InvNext
<1>5. ValuesOf(RemoveAt(NodesOf(Contents), k)) = RemoveAt(Contents, k)
  <2>1. PICK items : items = Contents
    OBVIOUS
  <2>2. items \in Seq(Values) /\ k \in 1 .. Len(items)
    BY <2>1, OnTheList
  <2>3. QED
    BY <2>1, <2>2, ValuesAfterRemoval
<1>6. QED
  BY <1>4, <1>5

LEMMA DequeueStep ==
  ASSUME Inv, Dequeue
  PROVE  Inv' /\ Abstract!Dequeue
<1>1. PICK o : Chain(o)
  BY DEF Inv
<1>2. /\ ~ fault /\ call' = <<"dequeue", 0>> /\ max_size' = max_size /\ fault' = fault
  BY DEF Dequeue
<1>3. PICK q, S : q = NodesOf(Contents) /\ S = [value : Values]
  OBVIOUS
<1>4. q \in Seq(S) /\ Len(q) = size /\ ValuesOf(q) = Contents
  BY <1>1, <1>3, OnTheList
<1>5. /\ Abstract!dequeue(Abstract!nodes) = IF size = 0 THEN q ELSE Tail(q)
      /\ Abstract!dequeueValue(Abstract!nodes) = IF size = 0 THEN -1 ELSE Head(q).value
  BY <1>3, <1>4, SequenceOperators
<1>6. ASSUME /\ Inv' /\ Contents' = ValuesOf(IF size = 0 THEN q ELSE Tail(q))
             /\ result' = IF size = 0 THEN -1 ELSE Head(q).value
      PROVE  Inv' /\ Abstract!Dequeue
  <2>1. Contents' = Abstract!ValuesOf(Abstract!dequeue(Abstract!nodes))
    BY <1>5, <1>6, SequenceOperators
  <2>2. QED
    BY <1>2, <1>5, <1>6, <2>1 DEF Abstract!Dequeue, Abstract!Call
<1>7. CASE queueEmpty
  <2>1. ListKept /\ result' = -1
    BY <1>2, <1>7 DEF Dequeue, Return, ListKept
  <2>2. QED
    BY <1>4, <1>6, <1>7, <2>1, KeptList DEF queueEmpty
<1>8. CASE ~ queueEmpty
  <2>1. 1 \in 1 .. size /\ Removed(o, 1) /\ result' = Items(o)[1]
    BY <1>1, <1>8, HeadIsRemoved DEF Dequeue
  <2>2. Inv' /\ Contents' = ValuesOf(RemoveAt(q, 1))
    BY <1>1, <1>2, <1>3, <2>1, RemovalStep
  <2>3. Tail(q) = RemoveAt(q, 1) /\ Head(q) = q[1]
    BY <1>4, <1>8, TailRemovesFirst DEF queueEmpty
  <2>4. result' = q[1].value
    <3>1. PICK items : items = Contents
      OBVIOUS
    <3>2. items \in Seq(Values) /\ Len(items) = size /\ items = Items(o)
      BY <1>1, <3>1, OnTheList, ContentsOfChain
    <3>3. q[1].value = items[1]
      BY <1>3, <2>1, <3>1, <3>2, ValuesOfNodes
    <3>4. QED
      BY <2>1, <3>2, <3>3
  <2>5. QED
    BY <1>6, <1>8, <2>2, <2>3, <2>4 DEF queueEmpty
<1>9. QED
  BY <1>7, <1>8

LEMMA DequeueByIndexStep ==
  ASSUME Inv, NEW index \in -1 .. max_size, DequeueByIndex(index)
  PROVE  Inv' /\ (Abstract!DequeueByIndex(index) \/ Abstract!DequeueFaults(index))
<1>0. size \in Nat /\ max_size \in Nat /\ size <= max_size /\ index \in Int
  BY Numbers
<1>1. PICK o : Chain(o)
  BY DEF Inv
<1>2. /\ ~ fault /\ call' = <<"dequeueByIndex", index>> /\ max_size' = max_size
  BY DEF DequeueByIndex
<1>3. PICK q, items : q = NodesOf(Contents) /\ items = Contents
  OBVIOUS
<1>4. /\ Len(q) = size /\ ValuesOf(q) = items
      /\ items \in Seq(Values) /\ Len(items) = size /\ items = Items(o)
  BY <1>1, <1>3, OnTheList, ContentsOfChain
<1> DEFINE rejected == size = 0 \/ index < 0 \/ index >= max_size
<1>5. /\ Abstract!indexRejected(Abstract!nodes, max_size, index) <=> rejected
      /\ Abstract!indexFaults(Abstract!nodes, max_size, index) <=> ~ rejected /\ index >= size
      /\ Abstract!dequeueByIndex(Abstract!nodes, max_size, index) =
           IF rejected THEN q ELSE RemoveAt(q, index + 1)
  BY <1>3, <1>4, SequenceOperators
<1>6. ASSUME /\ Inv' /\ fault' = fault /\ (rejected \/ index < size)
             /\ Contents' = ValuesOf(IF rejected THEN q ELSE RemoveAt(q, index + 1))
             /\ result' = IF rejected THEN -1 ELSE items[index + 1]
      PROVE  Inv' /\ Abstract!DequeueByIndex(index)
  <2>1. Contents' = Abstract!ValuesOf(Abstract!dequeueByIndex(Abstract!nodes, max_size, index))
    BY <1>5, <1>6, SequenceOperators
  <2>2. ~ Abstract!indexFaults(Abstract!nodes, max_size, index)
    BY <1>0, <1>5, <1>6
  <2>3. result' = IF Abstract!indexRejected(Abstract!nodes, max_size, index) THEN -1
                  ELSE Contents[index + 1]
    BY <1>3, <1>5, <1>6
  <2>4. QED
    BY <1>2, <1>6, <2>1, <2>2, <2>3 DEF Abstract!DequeueByIndex, Abstract!Call
<1>7. ASSUME NEW k \in 1 .. size, k = index + 1, ~ rejected, fault' = fault,
             Removed(o, k), result' = Items(o)[k]
      PROVE  Inv' /\ Abstract!DequeueByIndex(index)
  <2>1. Inv' /\ Contents' = ValuesOf(RemoveAt(q, index + 1))
    BY <1>1, <1>2, <1>3, <1>7, RemovalStep
  <2>2. index < size /\ result' = items[index + 1]
    BY <1>0, <1>4, <1>7
  <2>3. QED
    BY <1>6, <1>7, <2>1, <2>2
<1>8. CASE rejected
  <2>1. ListKept /\ result' = -1 /\ fault' = fault
    BY <1>2, <1>8 DEF DequeueByIndex, Return, ListKept, queueEmpty
  <2>2. QED
    BY <1>3, <1>4, <1>6, <1>8, <2>1, KeptList
<1>9. CASE ~ rejected /\ index = 0
  <2>1. RemoveHead /\ fault' = fault /\ ~ queueEmpty
    BY <1>9 DEF DequeueByIndex, queueEmpty
  <2>2. 1 \in 1 .. size /\ Removed(o, 1) /\ result' = Items(o)[1]
    BY <1>1, <2>1, HeadIsRemoved
  <2>3. PICK k : k = 1 /\ k = index + 1
    BY <1>9
  <2>4. QED
    BY <1>7, <1>9, <2>1, <2>2, <2>3
<1>10. CASE ~ rejected /\ index # 0 /\ index < size
  <2>1. index \in 1 .. size - 1 /\ index + 1 \in 1 .. size /\ index \in 0 .. size - 1
    BY <1>0, <1>10
  <2>2. Reached[index] \in Allocated
    BY <1>1, <2>1, ReachedIs DEF Chain
  <2>3. Unlink(index) /\ fault' = fault
    BY <1>10, <2>2 DEF DequeueByIndex, queueEmpty
  <2>4. Removed(o, index + 1) /\ result' = Items(o)[index + 1]
    BY <1>1, <2>1, <2>3, NodeIsUnlinked
  <2>5. QED
    BY <1>7, <1>10, <2>1, <2>3, <2>4
<1>11. CASE ~ rejected /\ index >= size
  <2>1. index # 0 /\ index \in size .. max_size + 1
    BY <1>0, <1>11
  <2>2. Reached[index] \notin Allocated
    <3>1. index = size \/ index \in size + 1 .. max_size + 1
      BY <1>0, <2>1
    <3>2. Reached[index] \in {NULL, "fault"}
      BY <1>1, <3>1, ReachedIs
    <3>3. QED
      BY <1>1, <3>2, Numbers DEF Chain
  <2>3. fault' = TRUE /\ ListKept /\ result' = result
    BY <1>2, <1>11, <2>1, <2>2 DEF DequeueByIndex, ListKept, queueEmpty
  <2>4. Inv' /\ Contents' = Contents
    BY <2>3, KeptList
  <2>5. Abstract!DequeueFaults(index)
    BY <1>2, <1>5, <1>11, <2>3, <2>4 DEF Abstract!DequeueFaults
  <2>6. QED
    BY <2>4, <2>5
<1>12. QED
  BY <1>0, <1>8, <1>9, <1>10, <1>11

LEMMA QueueFindIndexStep ==
  ASSUME Inv, NEW v, QueueFindIndex(v)
  PROVE  Inv' /\ Abstract!QueueFindIndex(v)
<1>0. size \in Nat /\ max_size \in Nat /\ size <= max_size
  BY Numbers
<1>1. PICK o : Chain(o)
  BY DEF Inv
<1>2. /\ ~ fault /\ call' = <<"queueFindIndex", v>> /\ max_size' = max_size
      /\ fault' = fault /\ ListKept
  BY DEF QueueFindIndex, ListKept
<1>3. PICK q, S, items : q = NodesOf(Contents) /\ S = [value : Values] /\ items = Contents
  OBVIOUS
<1>4. /\ q \in Seq(S) /\ Len(q) = size /\ ValuesOf(q) = items
      /\ items \in Seq(Values) /\ Len(items) = size /\ items = Items(o)
  BY <1>1, <1>3, OnTheList, ContentsOfChain
<1>5. \A i \in 1 .. size : q[i].value = value[o[i]]
  BY <1>3, <1>4, ValuesOfNodes DEF Items
<1>6. PICK f : f = Abstract!queueFindIndex(q, v)
  OBVIOUS
<1>7. /\ f \in 0 .. size
      /\ \A i \in 1 .. size : i <= f => value[o[i]] # v
      /\ f < size => value[o[f + 1]] = v
  <2>1. /\ f \in 0 .. Len(q)
        /\ \A i \in 1 .. Len(q) : i <= f => q[i].value # v
        /\ f < Len(q) => q[f + 1].value = v
    BY <1>4, <1>6, FoundFirst
  <2>2. f < size => f + 1 \in 1 .. size
    BY <1>0, <1>4, <2>1
  <2>3. QED
    BY <1>4, <1>5, <2>1, <2>2
<1> DEFINE stops == {i \in 0 .. max_size :
                       Reached[i] = NULL \/ i >= size \/ value[Reached[i]] = v}
           first == CHOOSE i \in stops : \A j \in stops : i <= j
<1>8. f \in stops
  <2>1. CASE f = size
    BY <1>0, <2>1
  <2>2. CASE f # size
    <3>1. f \in 0 .. size - 1 /\ f < size /\ f \in 0 .. max_size
      BY <1>0, <1>7, <2>2
    <3>2. Reached[f] = o[f + 1]
      BY <1>1, <3>1, ReachedIs
    <3>3. QED
      BY <1>7, <3>1, <3>2
  <2>3. QED
    BY <2>1, <2>2
<1>9. ASSUME NEW i \in stops
      PROVE  f <= i
  <2>1. SUFFICES ASSUME ~ (f <= i)
                 PROVE  FALSE
    OBVIOUS
  <2>2. i \in 0 .. size - 1 /\ i + 1 \in 1 .. size /\ i + 1 <= f /\ ~ (i >= size)
    BY <1>0, <1>7, <2>1
  <2>3. Reached[i] = o[i + 1] /\ o[i + 1] \in Nodes
    BY <1>1, <2>2, ReachedIs DEF Chain
  <2>4. Reached[i] # NULL /\ value[Reached[i]] # v
    BY <1>7, <2>2, <2>3, Numbers
  <2>5. QED
    BY <2>2, <2>4
<1>10. first = f
  <2>1. \A i \in stops : i \in Int
    BY <1>0
  <2> HIDE DEF stops
  <2>2. first \in stops /\ \A j \in stops : first <= j
    BY <1>8, <1>9
  <2>3. first <= f /\ f <= first
    BY <1>8, <1>9, <2>2
  <2>4. first \in Int /\ f \in Int
    BY <1>8, <2>1, <2>2
  <2> HIDE DEF first
  <2>5. QED
    BY <2>3, <2>4
<1>11. result' = IF Reached[first] # NULL /\ value[Reached[first]] # v THEN -1 ELSE first
  BY DEF QueueFindIndex
<1>12. Reached[f] = NULL \/ value[Reached[f]] = v
  <2>1. CASE f = size
    BY <1>1, <2>1, ReachedIs
  <2>2. CASE f # size
    <3>1. f \in 0 .. size - 1 /\ f < size
      BY <1>0, <1>7, <2>2
    <3>2. QED
      BY <1>1, <1>7, <3>1, ReachedIs
  <2>3. QED
    BY <2>1, <2>2
<1>13. result' = f
  <2> HIDE DEF first
  <2>1. QED
    BY <1>10, <1>11, <1>12
<1>14. Inv' /\ Contents' = Contents
  BY <1>2, KeptList
<1>15. /\ Contents' = Abstract!ValuesOf(Abstract!nodes)
       /\ result' = Abstract!queueFindIndex(Abstract!nodes, v)
  BY <1>3, <1>4, <1>6, <1>13, <1>14, SequenceOperators
<1>16. QED
  BY <1>2, <1>14, <1>15 DEF Abstract!QueueFindIndex, Abstract!Call

-----------------------------------------------------------------------------
LEMMA InvHolds == LinkedQueueAssumption /\ Spec => []Inv
<1>1. LinkedQueueAssumption /\ Init => Inv
  <2> SUFFICES ASSUME LinkedQueueAssumption, Init
               PROVE  Inv
    OBVIOUS
  <2>1. size \in 0 .. max_size /\ max_size \in MaxSizes
    BY DEF Init, LinkedQueueAssumption
  <2>2. Chain(<< >>)
    <3>1. << >> \in Seq(Nodes) /\ Len(<< >>) = 0
      OBVIOUS
    <3>2. \A i : i \notin 1 .. 0
      OBVIOUS
    <3>3. DOMAIN next = {} /\ DOMAIN value = {}
      BY DEF Init
    <3>4. QED
      BY <3>1, <3>2, <3>3 DEF Chain, Init, Allocated
  <2>3. QED
    BY <2>1, <2>2 DEF Inv
<1>2. Inv /\ [Next]_vars => Inv'
  <2> SUFFICES ASSUME Inv, [Next]_vars
               PROVE  Inv'
    OBVIOUS
  <2>1. ASSUME NEW v \in Values, Enqueue(v) \/ QueueFindIndex(v)
        PROVE  Inv'
    BY <2>1, EnqueueStep, QueueFindIndexStep
  <2>2. CASE Dequeue
    BY <2>2, DequeueStep
  <2>3. ASSUME NEW index \in -1 .. max_size, DequeueByIndex(index)
        PROVE  Inv'
    BY <2>3, DequeueByIndexStep
  <2>4. CASE UNCHANGED vars
    BY <2>4, KeptList DEF vars, ListKept
  <2>5. QED
    BY <2>1, <2>2, <2>3, <2>4 DEF Next
<1>3. QED
  BY <1>1, <1>2, PTL DEF Spec

(* queue.c:31-96: whatever the calls, size nodes hang from head without a  *)
(* repetition, the last is tail, and no other node is still allocated.     *)
THEOREM ListStaysWhole == LinkedQueueAssumption /\ Spec => [](ListShape /\ NoNodeLeaks)
<1>1. Inv => ListShape /\ NoNodeLeaks
  BY ChainIsSound DEF Inv
<1>2. QED
  BY <1>1, InvHolds, PTL

(* queue.c:31-144: each call leaves, returns and faults as the call of the *)
(* sequence that main and thread_function take the queue for.              *)
THEOREM ListIsSequence == LinkedQueueAssumption /\ Spec => ImplementsSequence
<1>1. Inv /\ Init => Abstract!Init
  <2> SUFFICES ASSUME Inv, Init
               PROVE  Abstract!Init
    OBVIOUS
  <2>1. PICK items : items = Contents
    OBVIOUS
  <2>2. items \in Seq(Values) /\ Len(items) = 0
    BY <2>1, OnTheList DEF Inv, Init
  <2>3. items = << >>
    BY <2>2, EmptySeq
  <2>4. QED
    BY <2>1, <2>3 DEF Abstract!Init, Init
<1>2. Inv /\ [Next]_vars => [Abstract!Next]_Abstract!vars
  <2> SUFFICES ASSUME Inv, [Next]_vars
               PROVE  [Abstract!Next]_Abstract!vars
    OBVIOUS
  <2>1. ASSUME NEW v \in Values, Enqueue(v) \/ QueueFindIndex(v)
        PROVE  Abstract!Next
    <3>1. Abstract!Enqueue(v) \/ Abstract!QueueFindIndex(v)
      BY <2>1, EnqueueStep, QueueFindIndexStep
    <3>2. QED
      BY <3>1 DEF Abstract!Next
  <2>2. CASE Dequeue
    BY <2>2, DequeueStep DEF Abstract!Next
  <2>3. ASSUME NEW index \in -1 .. max_size, DequeueByIndex(index)
        PROVE  Abstract!Next
    <3>1. Abstract!DequeueByIndex(index) \/ Abstract!DequeueFaults(index)
      BY <2>3, DequeueByIndexStep
    <3>2. QED
      BY <3>1 DEF Abstract!Next
  <2>4. CASE UNCHANGED vars
    BY <2>4, KeptList DEF vars, ListKept, Abstract!vars
  <2>5. QED
    BY <2>1, <2>2, <2>3, <2>4 DEF Next
<1>3. QED
  BY <1>1, <1>2, InvHolds, PTL DEF Spec, ImplementsSequence, Abstract!Spec
=============================================================================
