--------------------------- MODULE SmashShellProofs ---------------------------
(***************************************************************************)
(* Theorems about job control of SmashShell, for every set of processes    *)
(* and every set of durations: whatever the user types, whenever ctrl-C,   *)
(* ctrl-Z and SIGALRM come, and whatever the children do.                  *)
(*                                                                         *)
(* First what the operations on the jobs list return, for every list; then *)
(* the inductive invariant, one lemma per action; then the theorems.       *)
(***************************************************************************)
EXTENDS SmashShell, FiniteSetTheorems, SequenceLemmas

Entry == [job_id : JobIds, job_pid : Pids, isStopped : BOOLEAN]

Increasing(jobs) ==
  \A i, j \in 1 .. Len(jobs) : i < j => jobs[i].job_id < jobs[j].job_id

-----------------------------------------------------------------------------
(* Commands.cpp:268-278: the loop that erases entries reaches its end.     *)
LoopStep(jobs, pids, kept, n) ==
  [m \in 0 .. n |->
     IF m = 0 THEN << >>
     ELSE IF jobs[m].job_pid \in pids THEN kept[m - 1]
     ELSE Append(kept[m - 1], jobs[m])]

LEMMA LoopExists ==
  ASSUME NEW jobs \in Seq(Entry), NEW pids, NEW n \in 0 .. Len(jobs)
  PROVE  \E f : f = LoopStep(jobs, pids, f, n)
<1> DEFINE IsLoop(f, k) ==
             /\ f \in [0 .. k -> Seq(Entry)]
             /\ \A m \in 0 .. k :
                  f[m] = IF m = 0 THEN << >>
                         ELSE IF jobs[m].job_pid \in pids THEN f[m - 1]
                         ELSE Append(f[m - 1], jobs[m])
           D == {k \in 0 .. Len(jobs) : ~ \E f : IsLoop(f, k)}
<1>0. Len(jobs) \in Nat /\ \A i \in 1 .. Len(jobs) : jobs[i] \in Entry
  BY LenProperties, ElementOfSeq
<1>1. D = {}
  <2>1. SUFFICES ASSUME D # {}
                 PROVE  FALSE
    OBVIOUS
  <2>2. Min(D) \in D /\ \A k \in D : Min(D) <= k
    <3>1. D \subseteq Nat
      BY <1>0
    <3>2. QED
      BY <2>1, <3>1, MinProperties
  <2>3. PICK k \in 0 .. Len(jobs) : k = Min(D)
    BY <2>2
  <2>4. CASE k = 0
    <3>1. << >> \in Seq(Entry)
      OBVIOUS
    <3>2. IsLoop([m \in 0 .. 0 |-> << >>], 0)
      BY <3>1
    <3>3. QED
      BY <2>2, <2>3, <2>4, <3>2
  <2>5. CASE k # 0
    <3>0. k - 1 \notin D
      <4> HIDE DEF D
      <4>1. k \in Int /\ ~ (k <= k - 1)
        BY <1>0
      <4>2. QED
        BY <2>2, <2>3, <4>1
    <3>1. k - 1 \in 0 .. Len(jobs) /\ k - 1 \notin D /\ k \in 1 .. Len(jobs)
      <4> HIDE DEF D
      <4>1. QED
        BY <1>0, <2>5, <3>0
    <3>2. PICK f : IsLoop(f, k - 1)
      BY <3>1
    <3>3. DEFINE last == IF jobs[k].job_pid \in pids THEN f[k - 1]
                         ELSE Append(f[k - 1], jobs[k])
                 g == [m \in 0 .. k |-> IF m = k THEN last ELSE f[m]]
    <3>4. f \in [0 .. k - 1 -> Seq(Entry)] /\ f[k - 1] \in Seq(Entry)
      BY <3>1, <3>2
    <3>5. last \in Seq(Entry)
      BY <1>0, <3>1, <3>4, AppendProperties
    <3> HIDE DEF last
    <3>6. g \in [0 .. k -> Seq(Entry)]
      BY <3>1, <3>4, <3>5
    <3>7. ASSUME NEW m \in 0 .. k
          PROVE  g[m] = IF m = 0 THEN << >>
                        ELSE IF jobs[m].job_pid \in pids THEN g[m - 1]
                        ELSE Append(g[m - 1], jobs[m])
      <4>1. CASE m = k
        <5>1. g[m] = last /\ g[m - 1] = f[k - 1] /\ m # 0
          BY <3>1, <4>1
        <5>2. QED
          BY <4>1, <5>1 DEF last
      <4>2. CASE m # k
        <5>1. m \in 0 .. k - 1 /\ g[m] = f[m] /\ (m # 0 => g[m - 1] = f[m - 1])
          BY <3>1, <4>2
        <5>2. QED
          BY <3>2, <5>1
      <4>3. QED
        BY <4>1, <4>2
    <3>8. IsLoop(g, k)
      BY <3>6, <3>7
    <3>9. QED
      BY <2>2, <2>3, <3>8
  <2>6. QED
    BY <2>4, <2>5
<1>2. PICK f : IsLoop(f, n)
  BY <1>1
<1>3. f = LoopStep(jobs, pids, f, n)
  BY <1>2 DEF LoopStep
<1>4. QED
  BY <1>3

(* The entries of the other processes remain, in their order.              *)
LEMMA WithoutProperties ==
  ASSUME NEW jobs \in Seq(Entry), NEW pids
  PROVE  /\ Without(jobs, pids) \in Seq(Entry)
         /\ ToSet(Without(jobs, pids)) = {x \in ToSet(jobs) : x.job_pid \notin pids}
         /\ Increasing(jobs) => Increasing(Without(jobs, pids))
<1> DEFINE kept == CHOOSE f : f = LoopStep(jobs, pids, f, Len(jobs))
           Holds(n) ==
             /\ kept[n] \in Seq(Entry)
             /\ \A k \in 1 .. Len(kept[n]) :
                  \E i \in 1 .. n : kept[n][k] = jobs[i] /\ jobs[i].job_pid \notin pids
             /\ \A i \in 1 .. n : jobs[i].job_pid \notin pids =>
                  \E k \in 1 .. Len(kept[n]) : kept[n][k] = jobs[i]
             /\ Increasing(jobs) => Increasing(kept[n])
           D == {n \in 0 .. Len(jobs) : ~ Holds(n)}
<1>0. Len(jobs) \in Nat /\ \A i \in 1 .. Len(jobs) : jobs[i] \in Entry
  BY LenProperties, ElementOfSeq
<1>1. kept = LoopStep(jobs, pids, kept, Len(jobs))
  <2>1. Len(jobs) \in 0 .. Len(jobs)
    BY <1>0
  <2>2. \E f : f = LoopStep(jobs, pids, f, Len(jobs))
    BY <2>1, LoopExists
  <2>3. QED
    BY <2>2
<1>2. Without(jobs, pids) = kept[Len(jobs)]
  BY DEF Without, LoopStep
<1> HIDE DEF kept
<1>3. \A n \in 0 .. Len(jobs) :
        kept[n] = IF n = 0 THEN << >>
                  ELSE IF jobs[n].job_pid \in pids THEN kept[n - 1]
                  ELSE Append(kept[n - 1], jobs[n])
  BY <1>1 DEF LoopStep
<1>4. Holds(0)
  <2>1. kept[0] = << >>
    BY <1>0, <1>3
  <2>2. << >> \in Seq(Entry) /\ Len(<< >>) = 0 /\ Increasing(<< >>)
    BY DEF Increasing
  <2>3. QED
    BY <2>1, <2>2
<1>5. ASSUME NEW n \in 1 .. Len(jobs), Holds(n - 1)
      PROVE  Holds(n)
  <2>0. n \in 0 .. Len(jobs) /\ n # 0
    BY <1>0
  <2>1. CASE jobs[n].job_pid \in pids
    <3>1. kept[n] = kept[n - 1]
      BY <1>0, <1>3, <2>0, <2>1
    <3>2. ASSUME NEW k \in 1 .. Len(kept[n])
          PROVE  \E i \in 1 .. n : kept[n][k] = jobs[i] /\ jobs[i].job_pid \notin pids
      <4>1. PICK i \in 1 .. n - 1 : kept[n - 1][k] = jobs[i] /\ jobs[i].job_pid \notin pids
        BY <1>5, <3>1
      <4>2. i \in 1 .. n
        BY <1>0
      <4>3. QED
        BY <3>1, <4>1, <4>2
    <3>3. ASSUME NEW i \in 1 .. n, jobs[i].job_pid \notin pids
          PROVE  \E k \in 1 .. Len(kept[n]) : kept[n][k] = jobs[i]
      <4>1. i # n
        BY <2>1, <3>3
      <4>2. i \in 1 .. n - 1
        BY <1>0, <4>1
      <4>3. QED
        BY <1>5, <3>1, <3>3, <4>2
    <3>4. QED
      BY <1>5, <3>1, <3>2, <3>3
  <2>2. CASE jobs[n].job_pid \notin pids
    <3>1. kept[n] = Append(kept[n - 1], jobs[n])
      BY <1>0, <1>3, <2>0, <2>2
    <3>2. kept[n - 1] \in Seq(Entry) /\ Len(kept[n - 1]) \in Nat /\ jobs[n] \in Entry
      BY <1>0, <1>5, LenProperties
    <3> DEFINE l == Len(kept[n - 1])
    <3>3. /\ kept[n] \in Seq(Entry)
          /\ Len(kept[n]) = l + 1
          /\ \A k \in 1 .. l : kept[n][k] = kept[n - 1][k]
          /\ kept[n][l + 1] = jobs[n]
      BY <3>1, <3>2, AppendProperties
    <3>4. ASSUME NEW k \in 1 .. Len(kept[n])
          PROVE  \E i \in 1 .. n : kept[n][k] = jobs[i] /\ jobs[i].job_pid \notin pids
      <4>1. CASE k = l + 1
        BY <1>0, <2>2, <3>3, <4>1
      <4>2. CASE k # l + 1
        <5>1. k \in 1 .. l
          BY <3>2, <3>3, <4>2
        <5>2. PICK i \in 1 .. n - 1 :
                kept[n - 1][k] = jobs[i] /\ jobs[i].job_pid \notin pids
          BY <1>5, <5>1
        <5>3. i \in 1 .. n
          BY <1>0
        <5>4. QED
          BY <3>3, <5>1, <5>2, <5>3
      <4>3. QED
        BY <4>1, <4>2
    <3>5. ASSUME NEW i \in 1 .. n, jobs[i].job_pid \notin pids
          PROVE  \E k \in 1 .. Len(kept[n]) : kept[n][k] = jobs[i]
      <4>1. CASE i = n
        BY <3>2, <3>3, <4>1
      <4>2. CASE i # n
        <5>1. i \in 1 .. n - 1
          BY <1>0, <4>2
        <5>2. PICK k \in 1 .. l : kept[n - 1][k] = jobs[i]
          BY <1>5, <3>5, <5>1
        <5>3. k \in 1 .. Len(kept[n])
          BY <3>2, <3>3
        <5>4. QED
          BY <3>3, <5>2, <5>3
      <4>3. QED
        BY <4>1, <4>2
    <3>6. ASSUME Increasing(jobs)
          PROVE  Increasing(kept[n])
      <4>1. SUFFICES ASSUME NEW i \in 1 .. Len(kept[n]), NEW j \in 1 .. Len(kept[n]), i < j
                     PROVE  kept[n][i].job_id < kept[n][j].job_id
        BY DEF Increasing
      <4>2. i \in 1 .. l
        BY <3>2, <3>3, <4>1
      <4>3. CASE j = l + 1
        <5>1. PICK k \in 1 .. n - 1 : kept[n - 1][i] = jobs[k]
          BY <1>5, <4>2
        <5>2. k \in 1 .. Len(jobs) /\ n \in 1 .. Len(jobs) /\ k < n
          BY <1>0
        <5>3. jobs[k].job_id < jobs[n].job_id
          BY <3>6, <5>2 DEF Increasing
        <5>4. QED
          BY <3>3, <4>2, <4>3, <5>1, <5>3
      <4>4. CASE j # l + 1
        <5>1. j \in 1 .. l
          BY <3>2, <3>3, <4>4
        <5>2. Increasing(kept[n - 1])
          BY <1>5, <3>6
        <5>3. QED
          BY <3>3, <4>1, <4>2, <5>1, <5>2 DEF Increasing
      <4>5. QED
        BY <4>3, <4>4
    <3>7. QED
      BY <3>3, <3>4, <3>5, <3>6
  <2>3. QED
    BY <2>1, <2>2
<1>6. D = {}
  <2> HIDE DEF Holds
  <2>1. SUFFICES ASSUME D # {}
                 PROVE  FALSE
    OBVIOUS
  <2>2. Min(D) \in D /\ \A n \in D : Min(D) <= n
    <3>1. D \subseteq Nat
      BY <1>0
    <3>2. QED
      BY <2>1, <3>1, MinProperties
  <2>3. PICK n \in 0 .. Len(jobs) : n = Min(D)
    BY <2>2
  <2>4. n # 0
    BY <1>4, <2>2, <2>3
  <2>5. n \in 1 .. Len(jobs) /\ n - 1 \in 0 .. Len(jobs) /\ ~ (n <= n - 1)
    BY <1>0, <2>4
  <2>6. n - 1 \notin D
    BY <2>2, <2>3, <2>5
  <2>7. Holds(n - 1)
    BY <2>5, <2>6
  <2>8. QED
    BY <1>5, <2>2, <2>3, <2>5, <2>7
<1>7. Holds(Len(jobs))
  <2> HIDE DEF Holds
  <2>1. Len(jobs) \in 0 .. Len(jobs)
    BY <1>0
  <2>2. QED
    BY <1>6, <2>1
<1>8. ToSet(Without(jobs, pids)) = {x \in ToSet(jobs) : x.job_pid \notin pids}
  <2>1. DOMAIN kept[Len(jobs)] = 1 .. Len(kept[Len(jobs)]) /\ DOMAIN jobs = 1 .. Len(jobs)
    BY <1>7, LenProperties
  <2> DEFINE last == kept[Len(jobs)]
  <2>2. /\ ToSet(last) = {last[k] : k \in 1 .. Len(last)}
        /\ ToSet(jobs) = {jobs[i] : i \in 1 .. Len(jobs)}
    BY <2>1 DEF ToSet
  <2>3. ASSUME NEW x \in ToSet(last)
        PROVE  x \in ToSet(jobs) /\ x.job_pid \notin pids
    <3>1. PICK k \in 1 .. Len(last) : x = last[k]
      BY <2>2
    <3>2. PICK i \in 1 .. Len(jobs) : last[k] = jobs[i] /\ jobs[i].job_pid \notin pids
      BY <1>7
    <3>3. QED
      BY <2>2, <3>1, <3>2
  <2>4. ASSUME NEW x \in ToSet(jobs), x.job_pid \notin pids
        PROVE  x \in ToSet(last)
    <3>1. PICK i \in 1 .. Len(jobs) : x = jobs[i]
      BY <2>2
    <3>2. PICK k \in 1 .. Len(last) : last[k] = jobs[i]
      BY <1>7, <2>4, <3>1
    <3>3. QED
      BY <2>2, <3>1, <3>2
  <2> HIDE DEF last
  <2>5. ToSet(last) = {x \in ToSet(jobs) : x.job_pid \notin pids}
    BY <2>3, <2>4
  <2>6. QED
    BY <1>2, <2>5 DEF last
<1>9. QED
  BY <1>2, <1>7, <1>8

(* The elements of a list are at its positions.                            *)
LEMMA Elements ==
  ASSUME NEW jobs \in Seq(Entry)
  PROVE  /\ Len(jobs) \in Nat
         /\ DOMAIN jobs = 1 .. Len(jobs)
         /\ ToSet(jobs) = {jobs[i] : i \in 1 .. Len(jobs)}
         /\ ToSet(jobs) \subseteq Entry
         /\ \A i \in 1 .. Len(jobs) : jobs[i] \in Entry /\ jobs[i] \in ToSet(jobs)
<1>1. Len(jobs) \in Nat /\ DOMAIN jobs = 1 .. Len(jobs)
  BY LenProperties
<1>2. \A i \in 1 .. Len(jobs) : jobs[i] \in Entry
  BY ElementOfSeq
<1>3. ToSet(jobs) = {jobs[i] : i \in 1 .. Len(jobs)}
  BY <1>1 DEF ToSet
<1>4. QED
  BY <1>1, <1>2, <1>3

LEMMA IdsAreIntegers == JobIds \subseteq Int
  BY DEF JobIds

LEMMA EntryFields ==
  ASSUME NEW x \in Entry
  PROVE  /\ x.job_id \in JobIds /\ x.job_id \in Int
         /\ x.job_pid \in Pids /\ x.job_pid # NoProcess
         /\ x.isStopped \in BOOLEAN
  BY PidsAssumption, IdsAreIntegers DEF Entry

LEMMA MakeEntry ==
  ASSUME NEW i \in JobIds, NEW p \in Pids, NEW b \in BOOLEAN
  PROVE  /\ JobEntry(i, p, b) \in Entry
         /\ JobEntry(i, p, b).job_id = i
         /\ JobEntry(i, p, b).job_pid = p
         /\ JobEntry(i, p, b).isStopped = b
  BY DEF JobEntry, Entry

(* In an increasing list, the identifier tells the entry.                  *)
LEMMA IdTellsEntry ==
  ASSUME NEW jobs \in Seq(Entry), Increasing(jobs),
         NEW x \in ToSet(jobs), NEW y \in ToSet(jobs), x.job_id = y.job_id
  PROVE  x = y
<1>1. PICK i \in 1 .. Len(jobs), j \in 1 .. Len(jobs) : x = jobs[i] /\ y = jobs[j]
  BY Elements
<1>2. x.job_id \in Int /\ i \in Int /\ j \in Int
  BY Elements, EntryFields
<1>3. ~ (x.job_id < y.job_id) /\ ~ (y.job_id < x.job_id)
  BY <1>2
<1>4. ~ (i < j) /\ ~ (j < i)
  BY <1>1, <1>3 DEF Increasing
<1>5. QED
  BY <1>1, <1>2, <1>4

(* Commands.cpp:280-286: the next identifier is larger than all others.    *)
LEMMA IdsAreBounded ==
  ASSUME NEW jobs \in Seq(Entry)
  PROVE  \E B \in Nat : \A i \in 1 .. Len(jobs) : jobs[i].job_id <= B
<1> DEFINE Bounded(n) == \E B \in Nat : \A i \in 1 .. n : jobs[i].job_id <= B
           D == {n \in 0 .. Len(jobs) : ~ Bounded(n)}
<1>0. Len(jobs) \in Nat /\ \A i \in 1 .. Len(jobs) : jobs[i].job_id \in Int
  BY Elements, EntryFields
<1>1. Bounded(0)
  <2>1. 0 \in Nat /\ \A i \in 1 .. 0 : FALSE
    OBVIOUS
  <2>2. QED
    BY <2>1
<1>2. ASSUME NEW n \in 1 .. Len(jobs), Bounded(n - 1)
      PROVE  Bounded(n)
  <2>1. PICK B \in Nat : \A i \in 1 .. n - 1 : jobs[i].job_id <= B
    BY <1>2
  <2>2. jobs[n].job_id \in Int
    BY <1>0
  <2>3. PICK C \in Nat : jobs[n].job_id <= C /\ B <= C
    <3>1. CASE jobs[n].job_id <= B
      BY <3>1
    <3>2. CASE ~ (jobs[n].job_id <= B)
      <4>1. jobs[n].job_id \in Nat /\ B <= jobs[n].job_id
        BY <2>2, <3>2
      <4>2. QED
        BY <2>2, <4>1
    <3>3. QED
      BY <3>1, <3>2
  <2>4. ASSUME NEW i \in 1 .. n
        PROVE  jobs[i].job_id <= C
    <3>1. CASE i = n
      BY <2>3, <3>1
    <3>2. CASE i # n
      <4>1. i \in 1 .. n - 1 /\ i \in 1 .. Len(jobs)
        BY <1>0, <3>2
      <4>2. jobs[i].job_id <= B /\ jobs[i].job_id \in Int
        BY <1>0, <2>1, <4>1
      <4>3. QED
        BY <2>3, <4>2
    <3>3. QED
      BY <3>1, <3>2
  <2>5. QED
    BY <2>4
<1> HIDE DEF Bounded
<1>3. D = {}
  <2>1. SUFFICES ASSUME D # {}
                 PROVE  FALSE
    OBVIOUS
  <2>2. Min(D) \in D /\ \A n \in D : Min(D) <= n
    <3>1. D \subseteq Nat
      BY <1>0
    <3>2. QED
      BY <2>1, <3>1, MinProperties
  <2>3. PICK n \in 0 .. Len(jobs) : n = Min(D)
    BY <2>2
  <2>4. n # 0
    BY <1>1, <2>2, <2>3
  <2>5. n \in 1 .. Len(jobs) /\ n - 1 \in 0 .. Len(jobs) /\ ~ (n <= n - 1)
    BY <1>0, <2>4
  <2>6. n - 1 \notin D
    BY <2>2, <2>3, <2>5
  <2>7. Bounded(n - 1)
    BY <2>5, <2>6
  <2>8. QED
    BY <1>2, <2>2, <2>3, <2>5, <2>7
<1>4. Len(jobs) \in 0 .. Len(jobs)
  BY <1>0
<1>5. Bounded(Len(jobs))
  BY <1>3, <1>4
<1>6. QED
  BY <1>5 DEF Bounded

LEMMA NextJobIdProperties ==
  ASSUME NEW jobs \in Seq(Entry)
  PROVE  /\ nextJobId(jobs) \in Nat \ {0}
         /\ nextJobId(jobs) \in JobIds
         /\ \A x \in ToSet(jobs) : x.job_id < nextJobId(jobs)
<1> DEFINE ids == {0} \cup {x.job_id : x \in ToSet(jobs)}
<1>0. \A x \in ToSet(jobs) : x.job_id \in Int
  BY Elements, EntryFields
<1>1. PICK B \in Nat : \A i \in 1 .. Len(jobs) : jobs[i].job_id <= B
  BY IdsAreBounded
<1>2. ids \subseteq Int /\ ids # {} /\ B \in Int
  BY <1>0
<1>3. \A i \in ids : i <= B
  BY <1>1, Elements
<1>4. Max(ids) \in ids /\ \A i \in ids : Max(ids) >= i
  BY <1>2, <1>3, MaxProperties
<1>5. nextJobId(jobs) = Max(ids) + 1
  BY DEF nextJobId
<1>6. Max(ids) \in Int /\ Max(ids) >= 0 /\ \A x \in ToSet(jobs) : Max(ids) >= x.job_id
  BY <1>2, <1>4
<1> HIDE DEF ids
<1>7. nextJobId(jobs) \in Nat \ {0}
  BY <1>5, <1>6
<1>8. ASSUME NEW x \in ToSet(jobs)
      PROVE  x.job_id < nextJobId(jobs)
  BY <1>0, <1>5, <1>6
<1>9. QED
  BY <1>7, <1>8 DEF JobIds

(* Commands.cpp:357-364: a new entry goes to the end.                      *)
LEMMA AppendJob ==
  ASSUME NEW jobs \in Seq(Entry), NEW x \in Entry
  PROVE  /\ Append(jobs, x) \in Seq(Entry)
         /\ ToSet(Append(jobs, x)) = ToSet(jobs) \cup {x}
         /\ Increasing(jobs) /\ (\A y \in ToSet(jobs) : y.job_id < x.job_id)
              => Increasing(Append(jobs, x))
<1> DEFINE new == Append(jobs, x)
           l == Len(jobs)
<1>1. /\ new \in Seq(Entry) /\ Len(new) = l + 1
      /\ \A i \in 1 .. l : new[i] = jobs[i]
      /\ new[l + 1] = x
  BY AppendProperties
<1>2. l \in Nat /\ ToSet(jobs) = {jobs[i] : i \in 1 .. l}
  BY Elements
<1> HIDE DEF new
<1>3. ToSet(new) = {new[i] : i \in 1 .. l + 1}
  BY <1>1, Elements
<1> HIDE DEF l
<1>4. ToSet(new) = ToSet(jobs) \cup {x}
  <2>1. \A i \in 1 .. l + 1 : i \in 1 .. l \/ i = l + 1
    BY <1>2
  <2>2. \A i \in 1 .. l : i \in 1 .. l + 1
    BY <1>2
  <2>3. l + 1 \in 1 .. l + 1
    BY <1>2
  <2>4. QED
    BY <1>1, <1>2, <1>3, <2>1, <2>2, <2>3
<1>5. ASSUME Increasing(jobs), \A y \in ToSet(jobs) : y.job_id < x.job_id
      PROVE  Increasing(new)
  <2>1. SUFFICES ASSUME NEW i \in 1 .. l + 1, NEW j \in 1 .. l + 1, i < j
                 PROVE  new[i].job_id < new[j].job_id
    BY <1>1 DEF Increasing
  <2>2. i \in 1 .. l /\ jobs[i] \in ToSet(jobs)
    BY <1>2, <2>1
  <2>3. CASE j = l + 1
    BY <1>1, <1>5, <2>2, <2>3
  <2>4. CASE j # l + 1
    <3>1. j \in 1 .. l
      BY <1>2, <2>4
    <3>2. QED
      BY <1>1, <1>5, <2>1, <2>2, <3>1 DEF Increasing, l
  <2>5. QED
    BY <2>3, <2>4
<1>6. QED
  BY <1>1, <1>4, <1>5 DEF new

(* Commands.cpp:343-355: an entry that comes back goes before the first    *)
(* one with a larger identifier.                                           *)
LEMMA InsertPosition ==
  ASSUME NEW jobs \in Seq(Entry), NEW x \in Entry
  PROVE  \E k \in 1 .. Len(jobs) + 1 :
           /\ insertById(jobs, x) \in Seq(Entry)
           /\ Len(insertById(jobs, x)) = Len(jobs) + 1
           /\ \A i \in 1 .. Len(jobs) + 1 :
                insertById(jobs, x)[i] = IF i < k THEN jobs[i]
                                         ELSE IF i = k THEN x ELSE jobs[i - 1]
           /\ \A i \in 1 .. k - 1 : ~ (jobs[i].job_id > x.job_id)
           /\ k <= Len(jobs) => jobs[k].job_id > x.job_id
<1> DEFINE I == {i \in 1 .. Len(jobs) : jobs[i].job_id > x.job_id}
           l == Len(jobs)
           new == insertById(jobs, x)
<1>0. l \in Nat
  BY Elements
<1>1. new = IF (IF I # {} THEN Min(I) ELSE 0) = 0 THEN Append(jobs, x)
            ELSE InsertAt(jobs, (IF I # {} THEN Min(I) ELSE 0), x)
  BY Zenon DEF insertById, SelectInSeq
<1>2. CASE I = {}
  <2>1. new = Append(jobs, x)
    BY <1>1, <1>2
  <2>2. /\ new \in Seq(Entry) /\ Len(new) = l + 1
        /\ \A i \in 1 .. l : new[i] = jobs[i]
        /\ new[l + 1] = x
    BY <2>1, AppendProperties
  <2>3. \A i \in 1 .. l + 1 - 1 : ~ (jobs[i].job_id > x.job_id)
    BY <1>0, <1>2
  <2>4. l + 1 \in 1 .. l + 1 /\ ~ (l + 1 <= l)
    BY <1>0
  <2>5. ASSUME NEW i \in 1 .. l + 1
        PROVE  new[i] = IF i < l + 1 THEN jobs[i]
                        ELSE IF i = l + 1 THEN x ELSE jobs[i - 1]
    <3>1. CASE i = l + 1
      BY <1>0, <2>2, <3>1
    <3>2. CASE i # l + 1
      <4>1. i \in 1 .. l /\ i < l + 1
        BY <1>0, <3>2
      <4>2. QED
        BY <2>2, <4>1
    <3>3. QED
      BY <3>1, <3>2
  <2> HIDE DEF new, I
  <2>6. QED
    BY <2>2, <2>3, <2>4, <2>5 DEF new
<1>3. CASE I # {}
  <2> DEFINE k == Min(I)
  <2>1. k \in I /\ \A i \in I : k <= i
    <3>1. I \subseteq Nat
      BY <1>0
    <3> HIDE DEF I
    <3>2. QED
      BY <1>3, <3>1, MinProperties
  <2>2. k \in 1 .. l /\ k # 0 /\ k \in 1 .. l + 1 /\ jobs[k].job_id > x.job_id
    BY <1>0, <2>1
  <2>3. new = InsertAt(jobs, k, x)
    BY <1>1, <1>3, <2>2
  <2> HIDE DEF k
  <2>4. \A i \in 1 .. k - 1 : ~ (jobs[i].job_id > x.job_id)
    <3>1. SUFFICES ASSUME NEW i \in 1 .. k - 1, jobs[i].job_id > x.job_id
                   PROVE  FALSE
      OBVIOUS
    <3>2. i \in 1 .. l /\ ~ (k <= i)
      BY <1>0, <2>2
    <3>3. QED
      BY <2>1, <3>1, <3>2
  <2> HIDE DEF new, I
  <2>5. /\ new \in Seq(Entry) /\ Len(new) = l + 1
        /\ \A i \in 1 .. l + 1 :
             new[i] = IF i < k THEN jobs[i] ELSE IF i = k THEN x ELSE jobs[i - 1]
    <3>1. k \in 1 .. Len(jobs) + 1
      BY <2>2
    <3>2. /\ InsertAt(jobs, k, x) \in Seq(Entry) /\ Len(InsertAt(jobs, k, x)) = Len(jobs) + 1
          /\ \A i \in 1 .. Len(jobs) + 1 :
               InsertAt(jobs, k, x)[i] = IF i < k THEN jobs[i]
                                         ELSE IF i = k THEN x ELSE jobs[i - 1]
      <4>1. PICK n \in 1 .. Len(jobs) + 1 : n = k
        BY <3>1
      <4>2. /\ InsertAt(jobs, n, x) \in Seq(Entry)
            /\ Len(InsertAt(jobs, n, x)) = Len(jobs) + 1
            /\ \A i \in 1 .. Len(jobs) + 1 :
                 InsertAt(jobs, n, x)[i] = IF i < n THEN jobs[i]
                                           ELSE IF i = n THEN x ELSE jobs[i - 1]
        BY ONLY InsertAtProperties
      <4>3. QED
        BY <4>1, <4>2
    <3>3. QED
      BY <2>3, <3>2
  <2>6. QED
    BY <2>2, <2>4, <2>5 DEF new
<1>4. QED
  BY <1>2, <1>3

LEMMA InsertJob ==
  ASSUME NEW jobs \in Seq(Entry), NEW x \in Entry
  PROVE  /\ insertById(jobs, x) \in Seq(Entry)
         /\ ToSet(insertById(jobs, x)) = ToSet(jobs) \cup {x}
         /\ Increasing(jobs) /\ (\A y \in ToSet(jobs) : y.job_id # x.job_id)
              => Increasing(insertById(jobs, x))
<1> DEFINE l == Len(jobs)
           new == insertById(jobs, x)
<1>1. PICK k \in 1 .. l + 1 :
        /\ new \in Seq(Entry)
        /\ Len(new) = l + 1
        /\ \A i \in 1 .. l + 1 :
             new[i] = IF i < k THEN jobs[i] ELSE IF i = k THEN x ELSE jobs[i - 1]
        /\ \A i \in 1 .. k - 1 : ~ (jobs[i].job_id > x.job_id)
        /\ k <= l => jobs[k].job_id > x.job_id
  BY InsertPosition
<1>2. l \in Nat /\ ToSet(jobs) = {jobs[i] : i \in 1 .. l}
  BY Elements
<1> HIDE DEF new
<1>3. ToSet(new) = {new[i] : i \in 1 .. l + 1}
  BY <1>1, Elements
<1>4. \A i \in 1 .. l : jobs[i].job_id \in Int /\ jobs[i] \in ToSet(jobs)
  BY Elements, EntryFields
<1>5. x.job_id \in Int
  BY EntryFields
<1> HIDE DEF l
<1>6. ToSet(new) = ToSet(jobs) \cup {x}
  <2>1. ASSUME NEW i \in 1 .. l + 1
        PROVE  new[i] \in ToSet(jobs) \cup {x}
    <3>1. CASE i < k
      <4>1. i \in 1 .. l
        BY <1>2, <3>1
      <4>2. QED
        BY <1>1, <1>4, <3>1, <4>1
    <3>2. CASE i = k
      BY <1>1, <3>2
    <3>3. CASE i > k
      <4>1. i - 1 \in 1 .. l
        BY <1>2, <3>3
      <4>2. new[i] = jobs[i - 1]
        BY <1>1, <3>3
      <4>3. QED
        BY <1>4, <4>1, <4>2
    <3>4. QED
      BY <1>2, <3>1, <3>2, <3>3
  <2>2. ASSUME NEW i \in 1 .. l
        PROVE  jobs[i] \in ToSet(new)
    <3>1. CASE i < k
      <4>1. i \in 1 .. l + 1 /\ new[i] = jobs[i]
        BY <1>1, <1>2, <3>1
      <4>2. QED
        BY <1>3, <4>1
    <3>2. CASE ~ (i < k)
      <4>1. i + 1 \in 1 .. l + 1 /\ ~ (i + 1 < k) /\ i + 1 # k /\ i + 1 - 1 = i
        BY <1>2, <3>2
      <4>2. new[i + 1] = jobs[i]
        BY <1>1, <4>1
      <4>3. QED
        BY <1>3, <4>1, <4>2
    <3>3. QED
      BY <3>1, <3>2
  <2>3. x \in ToSet(new)
    <3>1. new[k] = x
      BY <1>1, <1>2
    <3>2. QED
      BY <1>3, <3>1
  <2>4. QED
    BY <1>2, <1>3, <2>1, <2>2, <2>3
<1>7. ASSUME Increasing(jobs), \A y \in ToSet(jobs) : y.job_id # x.job_id
      PROVE  Increasing(new)
  <2>1. ASSUME NEW i \in 1 .. k - 1
        PROVE  i \in 1 .. l /\ jobs[i].job_id < x.job_id
    <3>1. i \in 1 .. l
      BY <1>2
    <3>2. ~ (jobs[i].job_id > x.job_id) /\ jobs[i].job_id # x.job_id
      BY <1>1, <1>4, <1>7, <3>1
    <3>3. QED
      BY <1>4, <1>5, <3>1, <3>2
  <2>2. ASSUME NEW i \in k .. l
        PROVE  i \in 1 .. l /\ x.job_id < jobs[i].job_id
    <3>1. i \in 1 .. l /\ k \in 1 .. l /\ k <= l
      BY <1>2
    <3>2. x.job_id < jobs[k].job_id
      BY <1>1, <1>4, <1>5, <3>1
    <3>3. CASE i = k
      BY <3>1, <3>2, <3>3
    <3>4. CASE i # k
      <4>1. k < i
        BY <3>1, <3>4
      <4>2. jobs[k].job_id < jobs[i].job_id
        BY <1>7, <3>1, <4>1 DEF Increasing, l
      <4>3. QED
        BY <1>4, <1>5, <3>1, <3>2, <4>2
    <3>5. QED
      BY <3>3, <3>4
  <2>3. SUFFICES ASSUME NEW i \in 1 .. l + 1, NEW j \in 1 .. l + 1, i < j
                 PROVE  new[i].job_id < new[j].job_id
    BY <1>1 DEF Increasing
  <2>4. CASE j < k
    <3>1. i \in 1 .. l /\ j \in 1 .. l /\ i < k
      BY <1>2, <2>3, <2>4
    <3>2. new[i] = jobs[i] /\ new[j] = jobs[j]
      BY <1>1, <2>4, <3>1
    <3>3. QED
      BY <1>7, <2>3, <3>1, <3>2 DEF Increasing, l
  <2>5. CASE j = k
    <3>1. i \in 1 .. k - 1 /\ i < k
      BY <1>2, <2>3, <2>5
    <3>2. new[i] = jobs[i] /\ new[j] = x
      BY <1>1, <1>2, <2>5, <3>1
    <3>3. QED
      BY <2>1, <3>1, <3>2
  <2>6. CASE j > k
    <3>0. new[j] = jobs[j - 1] /\ j - 1 \in k .. l
      BY <1>1, <1>2, <2>6
    <3>1. CASE i < k
      <4>1. new[i] = jobs[i] /\ i \in 1 .. k - 1
        BY <1>1, <3>1
      <4>2. jobs[i].job_id < x.job_id /\ x.job_id < jobs[j - 1].job_id
        BY <2>1, <2>2, <3>0, <4>1
      <4>3. jobs[i].job_id \in Int /\ jobs[j - 1].job_id \in Int
        BY <1>4, <2>1, <2>2, <3>0, <4>1
      <4>4. QED
        BY <1>5, <3>0, <4>1, <4>2, <4>3
    <3>2. CASE i = k
      <4>1. new[i] = x
        BY <1>1, <3>2
      <4>2. QED
        BY <2>2, <3>0, <4>1
    <3>3. CASE i > k
      <4>1. new[i] = jobs[i - 1] /\ i - 1 \in 1 .. l /\ j - 1 \in 1 .. l /\ i - 1 < j - 1
        BY <1>1, <1>2, <2>3, <2>6, <3>3
      <4>2. QED
        BY <1>7, <3>0, <4>1 DEF Increasing, l
    <3>4. QED
      BY <1>2, <3>1, <3>2, <3>3
  <2>7. QED
    BY <1>2, <2>4, <2>5, <2>6
<1>8. QED
  BY <1>1, <1>6, <1>7 DEF new

(* Commands.cpp:289-296: the position of the first entry with an           *)
(* identifier.                                                             *)
LEMMA FindJob ==
  ASSUME NEW jobs \in Seq(Entry), NEW id
  PROVE  /\ getJobById(jobs, id) \in 0 .. Len(jobs)
         /\ getJobById(jobs, id) = 0 => \A x \in ToSet(jobs) : x.job_id # id
         /\ getJobById(jobs, id) # 0 =>
              /\ getJobById(jobs, id) \in 1 .. Len(jobs)
              /\ jobs[getJobById(jobs, id)].job_id = id
              /\ \A i \in 1 .. Len(jobs) :
                   jobs[i].job_id = id => getJobById(jobs, id) <= i
<1> DEFINE I == {i \in 1 .. Len(jobs) : jobs[i].job_id = id}
<1>0. Len(jobs) \in Nat /\ ToSet(jobs) = {jobs[i] : i \in 1 .. Len(jobs)}
  BY Elements
<1>1. getJobById(jobs, id) = IF I # {} THEN Min(I) ELSE 0
  BY Zenon DEF getJobById, SelectInSeq
<1>2. CASE I = {}
  BY <1>0, <1>1, <1>2
<1>3. CASE I # {}
  <2>1. Min(I) \in I /\ \A i \in I : Min(I) <= i
    <3>1. I \subseteq Nat
      BY <1>0
    <3> HIDE DEF I
    <3>2. QED
      BY <1>3, <3>1, MinProperties
  <2>2. getJobById(jobs, id) = Min(I)
    BY <1>1, <1>3
  <2>3. Min(I) \in 1 .. Len(jobs) /\ Min(I) # 0 /\ Min(I) \in 0 .. Len(jobs)
    BY <1>0, <2>1
  <2>4. QED
    BY <2>1, <2>2, <2>3
<1>4. QED
  BY <1>2, <1>3

(* Commands.cpp:326-334: erasing an entry.                                 *)
LEMMA RemoveJob ==
  ASSUME NEW jobs \in Seq(Entry), NEW id
  PROVE  /\ removeJobById(jobs, id) \in Seq(Entry)
         /\ ToSet(removeJobById(jobs, id)) \subseteq ToSet(jobs)
         /\ Increasing(jobs) =>
              /\ Increasing(removeJobById(jobs, id))
              /\ ToSet(removeJobById(jobs, id)) = {x \in ToSet(jobs) : x.job_id # id}
<1> DEFINE k == getJobById(jobs, id)
           l == Len(jobs)
           new == removeJobById(jobs, id)
<1>0. l \in Nat /\ ToSet(jobs) = {jobs[i] : i \in 1 .. l}
  BY Elements
<1>1. new = IF k = 0 THEN jobs ELSE RemoveAt(jobs, k)
  BY DEF removeJobById
<1>2. CASE k = 0
  <2>1. new = jobs /\ \A x \in ToSet(jobs) : x.job_id # id
    BY <1>1, <1>2, FindJob
  <2>2. QED
    BY <2>1
<1>3. CASE k # 0
  <2>1. k \in 1 .. l /\ jobs[k].job_id = id
    BY <1>3, FindJob
  <2>2. new = RemoveAt(jobs, k)
    BY <1>1, <1>3
  <2> HIDE DEF k
  <2>3. /\ RemoveAt(jobs, k) \in Seq(Entry) /\ Len(RemoveAt(jobs, k)) = l - 1
        /\ \A i \in 1 .. l - 1 :
             RemoveAt(jobs, k)[i] = IF i < k THEN jobs[i] ELSE jobs[i + 1]
    <3>1. k \in 1 .. Len(jobs)
      BY <2>1
    <3>2. QED
      BY <3>1, RemoveAtProperties
  <2>4. /\ new \in Seq(Entry) /\ Len(new) = l - 1
        /\ \A i \in 1 .. l - 1 : new[i] = IF i < k THEN jobs[i] ELSE jobs[i + 1]
    BY <2>2, <2>3
  <2> HIDE DEF new
  <2>5. ToSet(new) = {new[i] : i \in 1 .. l - 1}
    BY <2>4, Elements
  <2> HIDE DEF l
  <2> DEFINE old(i) == IF i < k THEN i ELSE i + 1
  <2>6. ASSUME NEW i \in 1 .. l - 1
        PROVE  old(i) \in 1 .. l /\ old(i) # k /\ new[i] = jobs[old(i)]
    <3>1. CASE i < k
      BY <1>0, <2>1, <2>4, <3>1
    <3>2. CASE ~ (i < k)
      BY <1>0, <2>1, <2>4, <3>2
    <3>3. QED
      BY <3>1, <3>2
  <2>7. ToSet(new) \subseteq ToSet(jobs)
    <3> HIDE DEF old
    <3>1. QED
      BY <1>0, <2>5, <2>6
  <2>8. ASSUME Increasing(jobs)
        PROVE  Increasing(new)
    <3>1. SUFFICES ASSUME NEW i \in 1 .. l - 1, NEW j \in 1 .. l - 1, i < j
                   PROVE  new[i].job_id < new[j].job_id
      BY <2>4 DEF Increasing
    <3>2. old(i) < old(j)
      BY <1>0, <2>1, <3>1
    <3>3. /\ old(i) \in 1 .. l /\ new[i] = jobs[old(i)]
          /\ old(j) \in 1 .. l /\ new[j] = jobs[old(j)]
      BY <2>6
    <3> HIDE DEF old
    <3>4. QED
      BY <2>8, <3>2, <3>3 DEF Increasing, l
  <2>9. ASSUME Increasing(jobs)
        PROVE  ToSet(new) = {x \in ToSet(jobs) : x.job_id # id}
    <3>1. ASSUME NEW i \in 1 .. l, i # k
          PROVE  jobs[i].job_id # id
      <4>1. jobs[i].job_id \in Int /\ jobs[k].job_id \in Int
        BY <2>1, Elements, EntryFields DEF l
      <4>2. jobs[i].job_id < jobs[k].job_id \/ jobs[k].job_id < jobs[i].job_id
        BY <1>0, <2>1, <2>9, <3>1 DEF Increasing, l
      <4>3. QED
        BY <2>1, <4>1, <4>2
    <3>2. ASSUME NEW i \in 1 .. l - 1
          PROVE  new[i] \in ToSet(jobs) /\ new[i].job_id # id
      <4>1. old(i) \in 1 .. l /\ old(i) # k /\ new[i] = jobs[old(i)]
        BY <2>6
      <4> HIDE DEF old
      <4>2. QED
        BY <1>0, <3>1, <4>1
    <3>3. ASSUME NEW i \in 1 .. l, jobs[i].job_id # id
          PROVE  jobs[i] \in ToSet(new)
      <4>1. CASE i < k
        <5>1. i \in 1 .. l - 1 /\ new[i] = jobs[i]
          BY <1>0, <2>1, <2>4, <4>1
        <5>2. QED
          BY <2>5, <5>1
      <4>2. CASE i = k
        BY <2>1, <3>3, <4>2
      <4>3. CASE i > k
        <5>1. i - 1 \in 1 .. l - 1 /\ ~ (i - 1 < k) /\ i - 1 + 1 = i
          BY <1>0, <2>1, <4>3
        <5>2. new[i - 1] = jobs[i]
          BY <2>4, <5>1
        <5>3. QED
          BY <2>5, <5>1, <5>2
      <4>4. QED
        BY <1>0, <2>1, <4>1, <4>2, <4>3
    <3>4. QED
      BY <1>0, <2>5, <3>2, <3>3
  <2>10. QED
    BY <2>4, <2>7, <2>8, <2>9 DEF new
<1>4. QED
  BY <1>2, <1>3

(* ctrl-Z between the two halves of fg (Commands.cpp:546, 547): the entry  *)
(* that comes back is inserted after the old one, and fg removes the old.  *)
LEMMA PutBack ==
  ASSUME NEW jobs \in Seq(Entry), Increasing(jobs), NEW x \in Entry
  PROVE  LET rest == removeJobById(insertById(jobs, x), x.job_id)
         IN  /\ rest \in Seq(Entry)
             /\ Increasing(rest)
             /\ (\A y \in ToSet(jobs) : y.job_id # x.job_id) => ToSet(rest) = ToSet(jobs)
             /\ (\E y \in ToSet(jobs) : y.job_id = x.job_id) =>
                  ToSet(rest) = {y \in ToSet(jobs) : y.job_id # x.job_id} \cup {x}
<1> DEFINE l == Len(jobs)
           ins == insertById(jobs, x)
           rest == removeJobById(ins, x.job_id)
<1>0. /\ l \in Nat /\ ToSet(jobs) = {jobs[i] : i \in 1 .. l}
      /\ \A i \in 1 .. l : jobs[i].job_id \in Int /\ jobs[i] \in Entry
      /\ x.job_id \in Int
  BY Elements, EntryFields
<1>1. ins \in Seq(Entry) /\ ToSet(ins) = ToSet(jobs) \cup {x}
  BY InsertJob
<1>2. rest \in Seq(Entry)
  BY <1>1, RemoveJob
<1>3. ASSUME \A y \in ToSet(jobs) : y.job_id # x.job_id
      PROVE  Increasing(rest) /\ ToSet(rest) = ToSet(jobs)
  <2>1. Increasing(ins)
    BY <1>3, InsertJob
  <2>2. Increasing(rest) /\ ToSet(rest) = {y \in ToSet(ins) : y.job_id # x.job_id}
    BY <1>1, <2>1, RemoveJob
  <2>3. QED
    BY <1>1, <1>3, <2>2
<1>4. ASSUME NEW k \in 1 .. l, jobs[k].job_id = x.job_id
      PROVE  /\ Increasing(rest)
             /\ ToSet(rest) = {y \in ToSet(jobs) : y.job_id # x.job_id} \cup {x}
  <2>1. PICK m \in 1 .. l + 1 :
          /\ Len(ins) = l + 1
          /\ \A i \in 1 .. l + 1 :
               ins[i] = IF i < m THEN jobs[i] ELSE IF i = m THEN x ELSE jobs[i - 1]
          /\ \A i \in 1 .. m - 1 : ~ (jobs[i].job_id > x.job_id)
          /\ m <= l => jobs[m].job_id > x.job_id
    BY InsertPosition
  <2>2. ASSUME NEW i \in 1 .. l
        PROVE  /\ i < k => jobs[i].job_id < x.job_id
               /\ i > k => jobs[i].job_id > x.job_id
               /\ i # k => jobs[i].job_id # x.job_id
    <3>1. i < k => jobs[i].job_id < jobs[k].job_id
      BY <1>4 DEF Increasing
    <3>2. k < i => jobs[k].job_id < jobs[i].job_id
      BY <1>4 DEF Increasing
    <3>3. k \in Int /\ i \in Int /\ jobs[i].job_id \in Int
      BY <1>0
    <3>4. QED
      BY <1>0, <1>4, <3>1, <3>2, <3>3
  <2>3. m = k + 1
    <3>1. ~ (m <= k)
      <4>1. SUFFICES ASSUME m <= k
                     PROVE  FALSE
        OBVIOUS
      <4>2. m \in 1 .. l /\ m <= l
        BY <1>0, <4>1
      <4>3. jobs[m].job_id > x.job_id
        BY <2>1, <4>2
      <4>4. ~ (jobs[m].job_id <= x.job_id)
        BY <1>0, <4>2, <4>3
      <4>5. jobs[m].job_id <= x.job_id
        <5>1. CASE m = k
          BY <1>0, <1>4, <5>1
        <5>2. CASE m # k
          <6>1. m < k
            BY <1>0, <4>1, <5>2
          <6>2. jobs[m].job_id < x.job_id /\ jobs[m].job_id \in Int
            BY <1>0, <2>2, <4>2, <6>1
          <6>3. QED
            BY <1>0, <6>2
        <5>3. QED
          BY <5>1, <5>2
      <4>6. QED
        BY <4>4, <4>5
    <3>2. ~ (m > k + 1)
      <4>1. SUFFICES ASSUME m > k + 1
                     PROVE  FALSE
        OBVIOUS
      <4>2. k + 1 \in 1 .. m - 1 /\ k + 1 \in 1 .. l /\ k + 1 > k
        BY <1>0, <4>1
      <4>3. jobs[k + 1].job_id > x.job_id
        BY <2>2, <4>2
      <4>4. QED
        BY <2>1, <4>2, <4>3
    <3>3. QED
      BY <1>0, <3>1, <3>2
  <2>4. /\ \A i \in 1 .. k : ins[i] = jobs[i]
        /\ ins[k + 1] = x
        /\ \A i \in k + 2 .. l + 1 : ins[i] = jobs[i - 1]
    <3>1. \A i \in 1 .. k : i \in 1 .. l + 1 /\ i < m
      BY <1>0, <2>3
    <3>2. k + 1 \in 1 .. l + 1 /\ k + 1 = m /\ ~ (k + 1 < m)
      BY <1>0, <2>3
    <3>3. \A i \in k + 2 .. l + 1 : i \in 1 .. l + 1 /\ ~ (i < m) /\ i # m
      BY <1>0, <2>3
    <3>4. QED
      BY <2>1, <3>1, <3>2, <3>3
  <2> HIDE DEF ins
  <2> DEFINE f == getJobById(ins, x.job_id)
  <2>5. f = k
    <3>1. k \in 1 .. Len(ins) /\ ins[k].job_id = x.job_id
      BY <1>0, <1>4, <2>1, <2>4
    <3>2. ins[k] \in ToSet(ins)
      BY <1>1, <3>1, Elements
    <3>3. f # 0 /\ f \in 1 .. Len(ins) /\ ins[f].job_id = x.job_id /\ f <= k
      BY <1>1, <3>1, <3>2, FindJob
    <3>4. ~ (f < k)
      <4> HIDE DEF f
      <4>1. SUFFICES ASSUME f < k
                     PROVE  FALSE
        OBVIOUS
      <4>2. f \in 1 .. k /\ f \in 1 .. l /\ f # k
        BY <1>0, <2>1, <3>3, <4>1
      <4>3. QED
        BY <2>2, <2>4, <3>3, <4>2
    <3> HIDE DEF f
    <3>5. QED
      BY <1>0, <2>1, <3>3, <3>4
  <2>6. /\ rest = RemoveAt(ins, k)
        /\ k \in 1 .. Len(ins)
    <3>1. k # 0
      BY <1>0
    <3>2. QED
      BY <1>0, <2>1, <2>5, <3>1 DEF removeJobById
  <2>7. /\ RemoveAt(ins, k) \in Seq(Entry) /\ Len(RemoveAt(ins, k)) = l
        /\ \A i \in 1 .. l : RemoveAt(ins, k)[i] = IF i < k THEN ins[i] ELSE ins[i + 1]
    <3>1. /\ Len(RemoveAt(ins, k)) = Len(ins) - 1
          /\ \A i \in 1 .. Len(ins) - 1 :
               RemoveAt(ins, k)[i] = IF i < k THEN ins[i] ELSE ins[i + 1]
      BY <1>1, <2>6, RemoveAtProperties
    <3>2. Len(ins) - 1 = l
      BY <1>0, <2>1
    <3>3. QED
      BY <1>2, <2>6, <3>1, <3>2
  <2>8. /\ Len(rest) = l
        /\ \A i \in 1 .. l : rest[i] = IF i = k THEN x ELSE jobs[i]
    <3>1. ASSUME NEW i \in 1 .. l
          PROVE  rest[i] = IF i = k THEN x ELSE jobs[i]
      <4>1. CASE i < k
        <5>1. i \in 1 .. k /\ i # k
          BY <4>1
        <5>2. QED
          BY <2>4, <2>6, <2>7, <4>1, <5>1
      <4>2. CASE i = k
        BY <1>0, <2>4, <2>6, <2>7, <4>2
      <4>3. CASE i > k
        <5>1. i + 1 \in k + 2 .. l + 1 /\ i + 1 - 1 = i /\ ~ (i < k) /\ i # k
          BY <1>0, <4>3
        <5>2. ins[i + 1] = jobs[i]
          BY <2>4, <5>1
        <5>3. QED
          BY <2>6, <2>7, <5>1, <5>2
      <4>4. QED
        BY <1>0, <4>1, <4>2, <4>3
    <3>2. QED
      BY <2>6, <2>7, <3>1
  <2> HIDE DEF rest
  <2>9. ToSet(rest) = {rest[i] : i \in 1 .. l}
    BY <1>2, <2>8, Elements
  <2>10. Increasing(rest)
    <3>1. SUFFICES ASSUME NEW i \in 1 .. l, NEW j \in 1 .. l, i < j
                   PROVE  rest[i].job_id < rest[j].job_id
      BY <2>8 DEF Increasing
    <3>2. rest[i].job_id = jobs[i].job_id /\ rest[j].job_id = jobs[j].job_id
      BY <1>4, <2>8
    <3>3. QED
      BY <3>1, <3>2 DEF Increasing
  <2>11. ToSet(rest) = {y \in ToSet(jobs) : y.job_id # x.job_id} \cup {x}
    <3>1. ASSUME NEW i \in 1 .. l
          PROVE  rest[i] \in {y \in ToSet(jobs) : y.job_id # x.job_id} \cup {x}
      BY <1>0, <2>2, <2>8
    <3>2. ASSUME NEW i \in 1 .. l, jobs[i].job_id # x.job_id
          PROVE  jobs[i] \in ToSet(rest)
      BY <1>4, <2>8, <2>9, <3>2
    <3>3. x \in ToSet(rest)
      BY <2>8, <2>9
    <3>4. QED
      BY <1>0, <2>9, <3>1, <3>2, <3>3
  <2>12. QED
    BY <2>10, <2>11
<1>5. Increasing(rest)
  BY <1>0, <1>3, <1>4
<1>6. QED
  BY <1>0, <1>2, <1>3, <1>4, <1>5

(* bg and kill write the mark of an entry.                                 *)
LEMMA MarkJob ==
  ASSUME NEW jobs \in Seq(Entry), NEW i \in 1 .. Len(jobs), NEW b \in BOOLEAN
  PROVE  LET new == [jobs EXCEPT ![i].isStopped = b]
         IN  /\ new \in Seq(Entry)
             /\ Increasing(jobs) =>
                  /\ Increasing(new)
                  /\ ToSet(new) = {y \in ToSet(jobs) : y.job_id # jobs[i].job_id}
                                    \cup {JobEntry(jobs[i].job_id, jobs[i].job_pid, b)}
<1> DEFINE x == JobEntry(jobs[i].job_id, jobs[i].job_pid, b)
           new == [jobs EXCEPT ![i].isStopped = b]
           l == Len(jobs)
<1>0. /\ l \in Nat /\ ToSet(jobs) = {jobs[k] : k \in 1 .. l} /\ DOMAIN jobs = 1 .. l
      /\ jobs[i] \in Entry
  BY Elements
<1>1. [jobs[i] EXCEPT !.isStopped = b] = x
  BY <1>0 DEF Entry, JobEntry
<1>2. new = [jobs EXCEPT ![i] = x]
  BY <1>1
<1>3. x \in Entry /\ x.job_id = jobs[i].job_id
  BY <1>0, EntryFields, MakeEntry
<1>4. new \in Seq(Entry) /\ Len(new) = l
  <2>1. [jobs EXCEPT ![i] = x] \in Seq(Entry) /\ Len([jobs EXCEPT ![i] = x]) = Len(jobs)
    BY <1>3, ExceptSeq
  <2>2. QED
    BY <1>2, <2>1
<1>5. \A k \in 1 .. l : new[k] = IF k = i THEN x ELSE jobs[k]
  BY <1>0, <1>2
<1> HIDE DEF new, x
<1>6. ASSUME Increasing(jobs)
      PROVE  /\ Increasing(new)
             /\ ToSet(new) = {y \in ToSet(jobs) : y.job_id # jobs[i].job_id} \cup {x}
  <2>1. Increasing(new)
    <3>1. SUFFICES ASSUME NEW j \in 1 .. l, NEW k \in 1 .. l, j < k
                   PROVE  new[j].job_id < new[k].job_id
      BY <1>4 DEF Increasing
    <3>2. new[j].job_id = jobs[j].job_id /\ new[k].job_id = jobs[k].job_id
      BY <1>3, <1>5
    <3>3. QED
      BY <1>6, <3>1, <3>2 DEF Increasing
  <2>2. ToSet(new) = {new[k] : k \in 1 .. l}
    BY <1>4, Elements
  <2>3. ASSUME NEW k \in 1 .. l, k # i
        PROVE  jobs[k].job_id # jobs[i].job_id
    <3>1. jobs[k].job_id \in Int /\ jobs[i].job_id \in Int
      BY Elements, EntryFields
    <3>2. jobs[k].job_id < jobs[i].job_id \/ jobs[i].job_id < jobs[k].job_id
      BY <1>6, <2>3 DEF Increasing
    <3>3. QED
      BY <3>1, <3>2
  <2>4. ASSUME NEW k \in 1 .. l
        PROVE  new[k] \in {y \in ToSet(jobs) : y.job_id # jobs[i].job_id} \cup {x}
    BY <1>0, <1>5, <2>3
  <2>5. ASSUME NEW k \in 1 .. l, jobs[k].job_id # jobs[i].job_id
        PROVE  jobs[k] \in ToSet(new)
    BY <1>5, <2>2, <2>5
  <2>6. x \in ToSet(new)
    BY <1>5, <2>2
  <2>7. QED
    BY <1>0, <2>1, <2>2, <2>4, <2>5, <2>6
<1>7. QED
  BY <1>4, <1>6 DEF new, x

(* Commands.cpp:305-314: the entry with the largest identifier, which is   *)
(* the last one of a list in order.                                        *)
LEMMA LastJob ==
  ASSUME NEW jobs \in Seq(Entry), jobs # << >>
  PROVE  /\ getLastJob(jobs) \in 1 .. Len(jobs)
         /\ Increasing(jobs) => getLastJob(jobs) = Len(jobs)
<1> DEFINE I == {i \in 1 .. Len(jobs) : \A y \in ToSet(jobs) : y.job_id <= jobs[i].job_id}
           l == Len(jobs)
<1>0. /\ l \in Nat /\ ToSet(jobs) = {jobs[k] : k \in 1 .. l}
      /\ \A k \in 1 .. l : jobs[k].job_id \in Int
  BY Elements, EntryFields
<1>1. l # 0
  BY EmptySeq, LenProperties
<1>2. getLastJob(jobs) = IF I # {} THEN Min(I) ELSE 0
  BY Zenon DEF getLastJob, SelectInSeq
<1>3. I # {}
  <2> DEFINE ids == {jobs[k].job_id : k \in 1 .. l}
  <2>1. PICK B \in Nat : \A k \in 1 .. l : jobs[k].job_id <= B
    BY IdsAreBounded
  <2>2. ids \subseteq Int /\ ids # {} /\ \A n \in ids : n <= B
    BY <1>0, <1>1, <2>1
  <2>3. Max(ids) \in ids /\ \A n \in ids : Max(ids) >= n
    <3> HIDE DEF ids
    <3>1. B \in Int
      OBVIOUS
    <3>2. QED
      BY <2>2, <3>1, MaxProperties
  <2>4. PICK k \in 1 .. l : Max(ids) = jobs[k].job_id
    BY <2>3
  <2>5. ASSUME NEW j \in 1 .. l
        PROVE  jobs[j].job_id <= jobs[k].job_id
    <3>1. jobs[j].job_id \in ids
      OBVIOUS
    <3>2. jobs[k].job_id >= jobs[j].job_id
      BY <2>3, <2>4, <3>1
    <3>3. QED
      BY <1>0, <3>2
  <2>6. k \in I
    BY <1>0, <2>5
  <2>7. QED
    BY <2>6
<1>4. Min(I) \in I /\ \A i \in I : Min(I) <= i
  <2>1. I \subseteq Nat
    BY <1>0
  <2> HIDE DEF I
  <2>2. QED
    BY <1>3, <2>1, MinProperties
<1>5. getLastJob(jobs) = Min(I)
  BY <1>2, <1>3
<1>6. ASSUME Increasing(jobs)
      PROVE  Min(I) = l
  <2>1. Min(I) \in 1 .. l /\ l \in 1 .. l
    BY <1>0, <1>1, <1>4
  <2>2. jobs[l].job_id <= jobs[Min(I)].job_id
    BY <1>0, <1>4, <2>1
  <2> HIDE DEF I
  <2>3. ~ (Min(I) < l)
    <3>1. SUFFICES ASSUME Min(I) < l
                   PROVE  FALSE
      OBVIOUS
    <3>2. jobs[Min(I)].job_id < jobs[l].job_id
      BY <1>6, <2>1, <3>1 DEF Increasing
    <3>3. jobs[Min(I)].job_id \in Int /\ jobs[l].job_id \in Int
      BY <1>0, <2>1
    <3>4. QED
      BY <2>2, <3>2, <3>3
  <2>4. QED
    BY <1>0, <2>1, <2>3
<1>7. QED
  BY <1>4, <1>5, <1>6

-----------------------------------------------------------------------------
(* The kernel: what waitpid and kill make of the processes.                *)
States == {"none", "running", "stopping", "stopped", "zombie", "reaped"}

Ended(state) == state \in {"zombie", "reaped"}

LEMMA PurgedProperties ==
  ASSUME job_list \in Seq(Entry), proc \in [Pids -> States]
  PROVE  /\ Purged \in Seq(Entry)
         /\ ToSet(Purged) = {x \in ToSet(job_list) : ~ Ended(proc[x.job_pid])}
         /\ Increasing(job_list) => Increasing(Purged)
         /\ nextJobId(Purged) \in Nat \ {0}
         /\ nextJobId(Purged) \in JobIds
         /\ \A x \in ToSet(Purged) : x.job_id < nextJobId(Purged)
<1> DEFINE gone == {p \in DOMAIN proc : proc[p] \in {"zombie", "reaped"}}
<1>1. Purged = Without(job_list, gone)
  BY DEF Purged, unfinished
<1>2. \A x \in ToSet(job_list) : x.job_pid \in gone <=> Ended(proc[x.job_pid])
  BY Elements, EntryFields DEF Ended
<1> HIDE DEF gone
<1>3. /\ Purged \in Seq(Entry)
      /\ ToSet(Purged) = {x \in ToSet(job_list) : x.job_pid \notin gone}
      /\ Increasing(job_list) => Increasing(Purged)
  BY <1>1, WithoutProperties
<1>4. QED
  BY <1>2, <1>3, NextJobIdProperties

LEMMA ReapedProperties ==
  ASSUME proc \in [Pids -> States]
  PROVE  /\ Reaped \in [Pids -> States]
         /\ \A p \in Pids :
              /\ Reaped[p] = proc[p] \/ (proc[p] = "zombie" /\ Reaped[p] = "reaped")
              /\ p \in ListedPids(job_list) => Reaped[p] # "zombie"
  BY DEF Reaped, States

LEMMA SignalProperties ==
  ASSUME NEW procs \in [Pids -> States], NEW receivers, NEW sig
  PROVE  /\ Signalled(procs, receivers, sig) \in [Pids -> States]
         /\ \A p \in Pids :
              Signalled(procs, receivers, sig)[p] =
                IF p \in receivers THEN AfterSignal(procs[p], sig) ELSE procs[p]
         /\ \A p \in Pids : AfterSignal(procs[p], sig) \in
              IF sig = "KILL" THEN {procs[p], "zombie"}
              ELSE IF sig = "STOP" THEN {procs[p], "stopping"}
              ELSE IF sig = "CONT" THEN {procs[p], "running"}
              ELSE {procs[p]}
  BY DEF Signalled, AfterSignal, States

-----------------------------------------------------------------------------
(* Where main is tells which process is in the foreground, and that the    *)
(* handlers run only while there is one; the process that ctrlZHandler has *)
(* read is that one, if ctrl-C did not come first.                         *)
Control ==
  /\ pc \in {"prompt", "timed", "exited", "killed"} =>
       current_process = NoProcess /\ handler = "idle"
  /\ pc \in {"fg_remove", "fg_id", "waiting", "cleanup"} =>
       job.job_pid \in Pids /\ current_process \in {NoProcess, job.job_pid}
  /\ handler # "add" => target = NoProcess
  /\ handler = "add" =>
       target \in {NoProcess, job.job_pid} /\ current_process \in {NoProcess, target}
  /\ handler # "astray"
  /\ pc \in {"fg_remove", "fg_id"} => job.job_id \in JobIds

ListTyped == job_list \in Seq(Entry) /\ max_job_id \in Nat \ {0}

ShellTyped ==
  /\ current_process \in Pids \cup {NoProcess}
  /\ job_id_fg \in JobIds
  /\ last_cmd_fg \in BOOLEAN /\ fg_alarm \in BOOLEAN /\ raced \in BOOLEAN
  /\ current_duration \in Delays \cup {0}
  /\ alarms \subseteq [pid : Pids, left : Nat]
  /\ pc \in {"prompt", "timed", "fg_remove", "fg_id", "waiting", "cleanup", "exited",
             "killed"}
  /\ job \in [job_id : JobIds \cup {0}, job_pid : Pids \cup {NoProcess}, isStopped : BOOLEAN]
  /\ handler \in {"idle", "create", "add", "kill", "astray"}
  /\ handler = "astray" => raced
  /\ target \in Pids \cup {NoProcess}
  /\ timer \in Nat \cup {NoTimer}

KernelTyped ==
  /\ proc \in [Pids -> States]
  /\ firstId \in [Pids -> JobIds \cup {0}]
  /\ timed \subseteq Pids
  /\ hidden \subseteq Pids

Typed == ListTyped /\ ShellTyped /\ KernelTyped /\ Control

(* The list as it is once ctrlZHandler has put an entry of no process      *)
(* there: an entry with a number, whatever it names.                       *)
AnyEntry == [job_id : JobIds, job_pid : Pids \cup {NoProcess}, isStopped : BOOLEAN]

Astray ==
  /\ handler = "astray"
  /\ job_list \in Seq(AnyEntry) /\ max_job_id \in Nat \ {0}
  /\ ShellTyped /\ KernelTyped

LEMMA TypeParts == Typed \/ Astray => TypeOK
<1>1. CASE Typed
  <2>1. Listable = Pids
    BY <1>1 DEF Typed, Control, Listable
  <2>2. QED
    BY <1>1, <2>1 DEF Typed, TypeOK, ListTyped, ShellTyped, KernelTyped, Entry, States
<1>2. CASE Astray
  <2>1. Listable = Pids \cup {NoProcess}
    BY <1>2 DEF Astray, Listable
  <2>2. QED
    BY <1>2, <2>1 DEF Astray, AnyEntry, TypeOK, ShellTyped, KernelTyped, States
<1>3. QED
  BY <1>1, <1>2

LEMMA TypedInit == Init => Typed
<1> SUFFICES ASSUME Init
             PROVE  Typed
  OBVIOUS
<1>1. << >> \in Seq(Entry)
  OBVIOUS
<1>2. NoJob \in [job_id : JobIds \cup {0}, job_pid : Pids \cup {NoProcess}, isStopped : BOOLEAN]
  BY DEF NoJob, JobEntry
<1>3. ListTyped
  BY <1>1 DEF Init, ListTyped
<1>4. ShellTyped
  <2>1. -1 \in JobIds
    BY DEF JobIds
  <2>2. QED
    BY <1>2, <2>1 DEF Init, ShellTyped
<1>5. KernelTyped
  BY DEF Init, KernelTyped, States
<1>6. Control
  BY DEF Init, Control
<1>7. QED
  BY <1>3, <1>4, <1>5, <1>6 DEF Typed

LEMMA TypedNext ==
  ASSUME Typed, [Next]_vars, handler' # "astray"
  PROVE  Typed'
<1> USE DEF Typed
<1>a. /\ Purged \in Seq(Entry)
      /\ nextJobId(Purged) \in Nat \ {0}
      /\ nextJobId(Purged) \in JobIds
      /\ \A i \in DOMAIN Purged : Purged[i] \in Entry
  <2>1. Purged \in Seq(Entry) /\ nextJobId(Purged) \in Nat \ {0} /\ nextJobId(Purged) \in JobIds
    BY PurgedProperties DEF ListTyped, KernelTyped
  <2>2. QED
    BY <2>1, Elements
<1>b. Reaped \in [Pids -> States]
  BY ReapedProperties DEF KernelTyped
<1>c. ASSUME NEW receivers, NEW sig
      PROVE  /\ Signalled(Reaped, receivers, sig) \in [Pids -> States]
             /\ Signalled(proc, receivers, sig) \in [Pids -> States]
  BY <1>b, SignalProperties DEF KernelTyped
<1>d. ASSUME NEW entries \in Seq(Entry), SetList(entries)
      PROVE  ListTyped'
  BY <1>a, <1>d DEF SetList, ListTyped
<1>e. ASSUME NEW p \in Pids, NEW b \in BOOLEAN, addJob(p, b)
      PROVE  ListTyped' /\ firstId' \in [Pids -> JobIds \cup {0}]
  <2>1. JobEntry(nextJobId(Purged), p, b) \in Entry
    BY <1>a, MakeEntry
  <2>2. Append(Purged, JobEntry(nextJobId(Purged), p, b)) \in Seq(Entry)
    BY <1>a, <2>1, AppendJob
  <2>3. nextJobId(Purged) + 1 \in Nat \ {0}
    BY <1>a
  <2>4. ListTyped'
    BY <1>e, <2>2, <2>3 DEF addJob, ListTyped
  <2>5. firstId' \in [Pids -> JobIds \cup {0}]
    BY <1>a, <1>e DEF addJob, KernelTyped
  <2>6. QED
    BY <2>4, <2>5
<1>f. ASSUME NEW x \in Entry
      PROVE  x \in [job_id : JobIds \cup {0}, job_pid : Pids \cup {NoProcess}, isStopped : BOOLEAN]
  BY <1>f DEF Entry
<1>g. ASSUME NEW p \in Pids
      PROVE  /\ JobEntry(0, p, FALSE) \in
                  [job_id : JobIds \cup {0}, job_pid : Pids \cup {NoProcess}, isStopped : BOOLEAN]
             /\ JobEntry(0, p, FALSE).job_pid = p
  BY DEF JobEntry
<1>1. CASE OtherCommand
  <2>1. ListTyped'
    BY <1>a, <1>d, <1>1 DEF OtherCommand
  <2>2. ShellTyped'
    BY <1>1 DEF OtherCommand, AtPrompt, ShellTyped, clocks, history
  <2>3. KernelTyped'
    BY <1>b, <1>1 DEF OtherCommand, KernelTyped, history
  <2>4. Control'
    BY <1>1 DEF OtherCommand, AtPrompt, Control
  <2>5. QED
    BY <2>1, <2>2, <2>3, <2>4
<1>2. CASE RunInBackground
  <2>0. PICK p \in Pids : addJob(p, FALSE) /\ proc' = [Reaped EXCEPT ![p] = "running"]
    BY <1>2 DEF RunInBackground, Unused
  <2>1. ListTyped' /\ firstId' \in [Pids -> JobIds \cup {0}]
    BY <1>e, <2>0
  <2>2. ShellTyped'
    BY <1>2 DEF RunInBackground, AtPrompt, ShellTyped, clocks
  <2>3. KernelTyped'
    BY <1>b, <1>2, <2>0, <2>1 DEF RunInBackground, KernelTyped, States
  <2>4. Control'
    BY <1>2 DEF RunInBackground, AtPrompt, Control
  <2>5. QED
    BY <2>1, <2>2, <2>3, <2>4
<1>3. CASE RunInForeground
  <2>0. PICK p \in Pids : /\ proc' = [Reaped EXCEPT ![p] = "running"]
                          /\ current_process' = p
                          /\ job' = JobEntry(0, p, FALSE)
    BY <1>3 DEF RunInForeground, Unused
  <2>1. ListTyped'
    BY <1>a, <1>d, <1>3 DEF RunInForeground
  <2>2. ShellTyped'
    BY <1>3, <1>g, <2>0 DEF RunInForeground, AtPrompt, ShellTyped, clocks, history
  <2>3. KernelTyped'
    BY <1>b, <1>3, <2>0 DEF RunInForeground, KernelTyped, States, history
  <2>4. Control'
    BY <1>3, <1>g, <2>0 DEF RunInForeground, AtPrompt, Control
  <2>5. QED
    BY <2>1, <2>2, <2>3, <2>4
<1>4. CASE Timeout
  <2>1. ListTyped'
    BY <1>a, <1>d, <1>4 DEF Timeout
  <2>2. ShellTyped'
    BY DelaysAssumption, <1>4 DEF Timeout, AtPrompt, ShellTyped, history
  <2>3. KernelTyped'
    BY <1>b, <1>4 DEF Timeout, KernelTyped, history
  <2>4. Control'
    BY <1>4 DEF Timeout, AtPrompt, Control
  <2>5. QED
    BY <2>1, <2>2, <2>3, <2>4
<1>5. CASE TimedInBackground
  <2>0. PICK p \in Pids : /\ addJob(p, FALSE)
                          /\ proc' = [Reaped EXCEPT ![p] = "running"]
                          /\ alarms' = alarms \cup {[pid |-> p, left |-> current_duration]}
                          /\ timed' = timed \cup {p}
    BY <1>5 DEF TimedInBackground, Unused
  <2>1. ListTyped' /\ firstId' \in [Pids -> JobIds \cup {0}]
    BY <1>e, <2>0
  <2>2. ShellTyped'
    <3>1. current_duration \in Nat
      BY DelaysAssumption DEF ShellTyped
    <3>2. alarms' \subseteq [pid : Pids, left : Nat]
      BY <2>0, <3>1 DEF ShellTyped
    <3>3. QED
      BY <1>5, <3>2 DEF TimedInBackground, ShellTyped
  <2>3. KernelTyped'
    BY <1>b, <1>5, <2>0, <2>1 DEF TimedInBackground, KernelTyped, States
  <2>4. Control'
    BY <1>5 DEF TimedInBackground, AtTimed, Control
  <2>5. QED
    BY <2>1, <2>2, <2>3, <2>4
<1>6. CASE TimedInForeground
  <2>0. PICK p \in Pids : /\ proc' = [Reaped EXCEPT ![p] = "running"]
                          /\ current_process' = p
                          /\ job' = JobEntry(0, p, FALSE)
                          /\ timed' = timed \cup {p}
    BY <1>6 DEF TimedInForeground, Unused
  <2>1. ListTyped'
    BY <1>a, <1>d, <1>6 DEF TimedInForeground
  <2>2. ShellTyped'
    BY <1>6, <1>g, <2>0 DEF TimedInForeground, ShellTyped, clocks
  <2>3. KernelTyped'
    BY <1>b, <1>6, <2>0 DEF TimedInForeground, KernelTyped, States
  <2>4. Control'
    BY <1>6, <1>g, <2>0 DEF TimedInForeground, AtTimed, Control
  <2>5. QED
    BY <2>1, <2>2, <2>3, <2>4
<1>7. CASE ForegroundById
  <2>0. PICK i \in DOMAIN Purged :
          /\ job' = Purged[i]
          /\ job_id_fg' = Purged[i].job_id
          /\ current_process' = Purged[i].job_pid
          /\ proc' = Signalled(Reaped, Resumed(Purged[i]), "CONT")
          /\ hidden' = hidden \ Resumed(Purged[i])
    BY <1>7 DEF ForegroundById
  <2>a. Purged[i] \in Entry
    BY <1>a
  <2>1. ListTyped'
    BY <1>a, <1>d, <1>7 DEF ForegroundById
  <2>2. ShellTyped'
    BY <1>7, <1>f, <2>0, <2>a, EntryFields DEF ForegroundById, AtPrompt, ShellTyped, clocks
  <2>3. KernelTyped'
    BY <1>c, <1>7, <2>0 DEF ForegroundById, KernelTyped
  <2>4. Control'
    BY <1>7, <2>0, <2>a, EntryFields DEF ForegroundById, AtPrompt, Control
  <2>5. QED
    BY <2>1, <2>2, <2>3, <2>4
<1>8. CASE ForegroundRemove
  <2>1. ListTyped'
    BY <1>8, RemoveJob DEF ForegroundRemove, ListTyped
  <2>2. ShellTyped'
    BY <1>8 DEF ForegroundRemove, ShellTyped, shell, clocks, history
  <2>3. KernelTyped'
    BY <1>8 DEF ForegroundRemove, KernelTyped, history
  <2>4. Control'
    BY <1>8 DEF ForegroundRemove, Control, shell
  <2>5. QED
    BY <2>1, <2>2, <2>3, <2>4
<1>9. CASE ForegroundLast
  <2> DEFINE i    == getLastJob(Purged)
             rest == removeJobById(Purged, Purged[i].job_id)
             slot == IF i <= Len(rest) THEN rest[i] ELSE Purged[i]
  <2>0. /\ SetList(rest)
        /\ proc' = Signalled(Reaped, Resumed(Purged[i]), "CONT")
        /\ hidden' = hidden \ Resumed(Purged[i])
        /\ job' = slot
        /\ current_process' = slot.job_pid
    BY <1>9 DEF ForegroundLast
  <2>a. i \in 1 .. Len(Purged) /\ Purged[i] \in Entry
    BY <1>a, <1>9, LastJob, Elements DEF ForegroundLast
  <2>b. rest \in Seq(Entry)
    BY <1>a, RemoveJob
  <2>c. slot \in Entry
    <3>1. CASE i <= Len(rest)
      <4> HIDE DEF rest
      <4>1. i \in 1 .. Len(rest)
        BY <1>a, <2>a, <2>b, <3>1, Elements
      <4>2. QED
        BY <2>b, <3>1, <4>1, Elements
    <3>2. CASE ~ (i <= Len(rest))
      BY <2>a, <3>2
    <3>3. QED
      BY <3>1, <3>2
  <2> HIDE DEF i, rest, slot
  <2>1. ListTyped'
    BY <1>d, <2>0, <2>b
  <2>2. ShellTyped'
    BY <1>9, <1>f, <2>0, <2>c, EntryFields DEF ForegroundLast, AtPrompt, ShellTyped, clocks
  <2>3. KernelTyped'
    BY <1>c, <1>9, <2>0 DEF ForegroundLast, KernelTyped
  <2>4. Control'
    BY <1>9, <2>0, <2>c, EntryFields DEF ForegroundLast, AtPrompt, Control
  <2>5. QED
    BY <2>1, <2>2, <2>3, <2>4
<1>10. CASE ForegroundSetId
  <2>1. ListTyped'
    BY <1>10 DEF ForegroundSetId, ListTyped, list
  <2>2. ShellTyped'
    BY <1>10 DEF ForegroundSetId, ShellTyped, clocks, history, Control
  <2>3. KernelTyped'
    BY <1>10 DEF ForegroundSetId, KernelTyped, history
  <2>4. Control'
    BY <1>10 DEF ForegroundSetId, Control
  <2>5. QED
    BY <2>1, <2>2, <2>3, <2>4
<1>11. CASE WaitReturns
  <2>1. ListTyped'
    BY <1>11 DEF WaitReturns, ListTyped, list
  <2>2. ShellTyped'
    BY <1>11 DEF WaitReturns, ShellTyped, shell, clocks, history
  <2>3. KernelTyped'
    BY <1>11 DEF WaitReturns, KernelTyped, States, history
  <2>4. Control'
    BY <1>11 DEF WaitReturns, Control, shell
  <2>5. QED
    BY <2>1, <2>2, <2>3, <2>4
<1>12. CASE Cleanup
  <2>1. ListTyped'
    BY <1>12 DEF Cleanup, ListTyped, list
  <2>2. ShellTyped'
    BY <1>12 DEF Cleanup, ShellTyped, clocks, history, NoJob, JobEntry
  <2>3. KernelTyped'
    BY <1>12 DEF Cleanup, KernelTyped, history
  <2>4. Control'
    BY <1>12 DEF Cleanup, Control
  <2>5. QED
    BY <2>1, <2>2, <2>3, <2>4
<1>13. CASE Background
  <2>0. PICK i \in DOMAIN Purged :
          /\ SetList([Purged EXCEPT ![i].isStopped = FALSE])
          /\ proc' = Signalled(Reaped, {Purged[i].job_pid}, "CONT")
          /\ hidden' = hidden \ {Purged[i].job_pid}
    BY <1>13 DEF Background
  <2>a. [Purged EXCEPT ![i].isStopped = FALSE] \in Seq(Entry)
    BY <1>a, Elements, MarkJob
  <2>1. ListTyped'
    BY <1>d, <2>0, <2>a
  <2>2. ShellTyped'
    BY <1>13 DEF Background, AtPrompt, ShellTyped, clocks
  <2>3. KernelTyped'
    BY <1>c, <1>13, <2>0 DEF Background, KernelTyped
  <2>4. Control'
    BY <1>13 DEF Background, Control
  <2>5. QED
    BY <2>1, <2>2, <2>3, <2>4
<1>14. CASE Kill
  <2>0. PICK i \in DOMAIN Purged, sig \in {"KILL", "STOP", "TSTP", "CONT"} :
          LET p == Purged[i].job_pid
          IN  /\ proc' = Signalled(Reaped, {p}, IF sig = "TSTP" THEN "STOP" ELSE sig)
              /\ SetList([Purged EXCEPT ![i].isStopped =
                            sig = "TSTP" \/ (@ /\ sig # "CONT")])
              /\ hidden' = IF sig = "STOP" THEN hidden \cup {p}
                           ELSE IF sig = "CONT" THEN hidden \ {p} ELSE hidden
    BY <1>14 DEF Kill
  <2>a. Purged[i] \in Entry /\ i \in 1 .. Len(Purged)
    BY <1>a, Elements
  <2> DEFINE b == sig = "TSTP" \/ (Purged[i].isStopped /\ sig # "CONT")
  <2>b. b \in BOOLEAN /\ SetList([Purged EXCEPT ![i].isStopped = b])
    BY <2>0
  <2> HIDE DEF b
  <2>c. [Purged EXCEPT ![i].isStopped = b] \in Seq(Entry)
    BY <1>a, <2>a, <2>b, MarkJob
  <2>1. ListTyped'
    BY <1>d, <2>b, <2>c
  <2>2. ShellTyped'
    BY <1>14 DEF Kill, AtPrompt, ShellTyped, clocks
  <2>3. KernelTyped'
    BY <1>c, <1>14, <2>0, <2>a, EntryFields DEF Kill, KernelTyped
  <2>4. Control'
    BY <1>14 DEF Kill, Control
  <2>5. QED
    BY <2>1, <2>2, <2>3, <2>4
<1>15. CASE Quit
  <2>1. ListTyped'
    BY <1>a, <1>d, <1>15 DEF Quit
  <2>2. ShellTyped'
    BY <1>15 DEF Quit, AtPrompt, ShellTyped, clocks, history
  <2>3. KernelTyped'
    BY <1>b, <1>c, <1>15 DEF Quit, KernelTyped, history
  <2>4. Control'
    BY <1>15 DEF Quit, AtPrompt, Control
  <2>5. QED
    BY <2>1, <2>2, <2>3, <2>4
<1>16. CASE CtrlZAdd
  <2>a. target \in Pids
    BY <1>16 DEF CtrlZAdd, ShellTyped
  <2>1. ListTyped' /\ firstId' \in [Pids -> JobIds \cup {0}]
    <3>1. CASE last_cmd_fg
      <4>1. addJobAgain(target)
        BY <1>16, <3>1 DEF CtrlZAdd
      <4>2. JobEntry(job_id_fg, target, TRUE) \in Entry
        BY <2>a, MakeEntry DEF ShellTyped
      <4>3. insertById(Purged, JobEntry(job_id_fg, target, TRUE)) \in Seq(Entry)
        BY <1>a, <4>2, InsertJob
      <4>4. firstId' = firstId /\ SetList(insertById(Purged, JobEntry(job_id_fg, target, TRUE)))
        BY <4>1 DEF addJobAgain
      <4>5. ListTyped'
        BY <1>d, <4>3, <4>4
      <4>6. QED
        BY <4>4, <4>5 DEF KernelTyped
    <3>2. CASE ~ last_cmd_fg
      <4>1. addJob(target, TRUE)
        BY <1>16, <3>2 DEF CtrlZAdd
      <4>2. QED
        BY <1>e, <2>a, <4>1
    <3>3. QED
      BY <3>1, <3>2
  <2>2. ShellTyped'
    BY <1>16, <2>a DEF CtrlZAdd, ShellTyped, clocks
  <2>3. KernelTyped'
    BY <1>b, <1>16, <2>1 DEF CtrlZAdd, KernelTyped
  <2>4. Control'
    BY <1>16, <2>a DEF CtrlZAdd, Control, ShellTyped
  <2>5. QED
    BY <2>1, <2>2, <2>3, <2>4
<1>17. CASE CtrlZKill
  <2>1. ListTyped'
    BY <1>17 DEF CtrlZKill, ListTyped, list
  <2>2. ShellTyped'
    BY <1>17 DEF CtrlZKill, ShellTyped, clocks
  <2>3. KernelTyped'
    BY <1>c, <1>17 DEF CtrlZKill, KernelTyped
  <2>4. Control'
    BY <1>17 DEF CtrlZKill, Control
  <2>5. QED
    BY <2>1, <2>2, <2>3, <2>4
<1>18. CASE CtrlC
  <2>1. ListTyped'
    BY <1>18 DEF CtrlC, ListTyped, list
  <2>2. ShellTyped'
    BY <1>18 DEF CtrlC, ShellTyped, clocks, history
  <2>3. KernelTyped'
    BY <1>18 DEF CtrlC, KernelTyped, States, history
  <2>4. Control'
    BY <1>18 DEF CtrlC, Control
  <2>5. QED
    BY <2>1, <2>2, <2>3, <2>4
<1>19. CASE Alarm
  <2>1. ListTyped'
    BY <1>19 DEF Alarm, ListTyped, list
  <2>2. ShellTyped'
    <3>1. /\ timer' = NoTimer /\ alarms' \subseteq alarms
          /\ fg_alarm' \in {fg_alarm, FALSE}
      BY <1>19 DEF Alarm
    <3>2. UNCHANGED <<current_process, job_id_fg, last_cmd_fg, current_duration, pc, job,
                      handler, target, raced>>
      BY <1>19 DEF Alarm, history
    <3>3. /\ alarms' \subseteq [pid : Pids, left : Nat]
          /\ fg_alarm' \in BOOLEAN
      BY <3>1 DEF ShellTyped
    <3>4. /\ current_process \in Pids \cup {NoProcess}
          /\ job_id_fg \in JobIds
          /\ last_cmd_fg \in BOOLEAN /\ raced \in BOOLEAN
          /\ handler \in {"idle", "create", "add", "kill", "astray"}
          /\ handler = "astray" => raced
          /\ target \in Pids \cup {NoProcess}
      BY DEF ShellTyped
    <3>5. QED
      BY <3>1, <3>2, <3>3, <3>4 DEF ShellTyped
  <2>3. KernelTyped'
    <3>1. proc' \in [Pids -> States]
      <4>1. CASE proc' = Signalled(proc, Receivers(current_process), "KILL")
        BY <1>c, <4>1
      <4>2. CASE \E ends : proc' = [p \in Pids |-> IF p \in ends /\ proc[p] = "running"
                                                  THEN "zombie" ELSE proc[p]]
        BY <4>2 DEF KernelTyped, States
      <4>3. QED
        BY <1>19, <4>1, <4>2 DEF Alarm
    <3>2. QED
      BY <1>19, <3>1 DEF Alarm, KernelTyped, history
  <2>4. Control'
    BY <1>19 DEF Alarm, Control
  <2>5. QED
    BY <2>1, <2>2, <2>3, <2>4
<1>20. CASE Tick
  <2>1. ListTyped'
    BY <1>20 DEF Tick, ListTyped, list
  <2>2. ShellTyped'
    <3>1. timer' \in Nat \cup {NoTimer}
      BY DelaysAssumption, <1>20 DEF Tick, ShellTyped
    <3>2. alarms' \subseteq [pid : Pids, left : Nat]
      <4>1. SUFFICES ASSUME NEW old \in alarms
                     PROVE  LET new == [old EXCEPT !.left = IF @ = 0 THEN 0 ELSE @ - 1]
                            IN  new \in [pid : Pids, left : Nat]
        BY <1>20 DEF Tick
      <4>2. old \in [pid : Pids, left : Nat]
        BY DEF ShellTyped
      <4>3. QED
        BY <4>2
    <3>3. QED
      BY <1>20, <3>1, <3>2 DEF Tick, ShellTyped, shell, history
  <2>3. KernelTyped'
    BY <1>20 DEF Tick, KernelTyped, history
  <2>4. Control'
    BY <1>20 DEF Tick, Control, shell
  <2>5. QED
    BY <2>1, <2>2, <2>3, <2>4
<1>21. CASE ChildEnds
  <2>1. ListTyped'
    BY <1>21 DEF ChildEnds, ListTyped, list
  <2>2. ShellTyped'
    BY <1>21 DEF ChildEnds, ShellTyped, shell, clocks, history
  <2>3. KernelTyped'
    BY <1>21 DEF ChildEnds, KernelTyped, States, history
  <2>4. Control'
    BY <1>21 DEF ChildEnds, Control, shell
  <2>5. QED
    BY <2>1, <2>2, <2>3, <2>4
<1>22. CASE ChildStops
  <2>1. ListTyped'
    BY <1>22 DEF ChildStops, ListTyped, list
  <2>2. ShellTyped'
    BY <1>22 DEF ChildStops, ShellTyped, shell, clocks
  <2>3. KernelTyped'
    BY <1>22 DEF ChildStops, KernelTyped, States
  <2>4. Control'
    BY <1>22 DEF ChildStops, Control, shell
  <2>5. QED
    BY <2>1, <2>2, <2>3, <2>4
<1>23. CASE UNCHANGED vars
  BY <1>23 DEF vars, list, shell, clocks, history, ListTyped, ShellTyped, KernelTyped, Control
<1>24. CASE CtrlZ \/ CtrlZRead
  <2>1. ListTyped'
    BY <1>24 DEF CtrlZ, CtrlZRead, ListTyped, list
  <2>2. ShellTyped'
    BY <1>24 DEF CtrlZ, CtrlZRead, ShellTyped, shell, clocks, history
  <2>3. KernelTyped'
    BY <1>24 DEF CtrlZ, CtrlZRead, KernelTyped, history
  <2>4. Control'
    BY <1>24 DEF CtrlZ, CtrlZRead, Control, Running, shell, ShellTyped
  <2>5. QED
    BY <2>1, <2>2, <2>3, <2>4
<1>25. QED
  BY <1>1, <1>2, <1>3, <1>4, <1>5, <1>6, <1>7, <1>8, <1>9, <1>10, <1>11, <1>12, <1>13,
     <1>14, <1>15, <1>16, <1>17, <1>18, <1>19, <1>20, <1>21, <1>22, <1>23, <1>24 DEF Next

(* Inserting an entry of any kind leaves a list of that kind.              *)
LEMMA InsertAny ==
  ASSUME NEW S, NEW jobs \in Seq(S), NEW x \in S
  PROVE  insertById(jobs, x) \in Seq(S)
<1> DEFINE I == {i \in 1 .. Len(jobs) : jobs[i].job_id > x.job_id}
           new == insertById(jobs, x)
<1>1. new = IF (IF I # {} THEN Min(I) ELSE 0) = 0 THEN Append(jobs, x)
            ELSE InsertAt(jobs, (IF I # {} THEN Min(I) ELSE 0), x)
  BY Zenon DEF insertById, SelectInSeq
<1>2. Len(jobs) \in Nat /\ I \subseteq Nat
  OBVIOUS
<1>3. CASE I = {}
  <2>1. new = Append(jobs, x)
    BY <1>1, <1>3
  <2> HIDE DEF new
  <2>2. new \in Seq(S)
    BY <2>1
  <2>3. QED
    BY <2>2 DEF new
<1>4. CASE I # {}
  <2>1. Min(I) \in I
    <3> HIDE DEF I
    <3>1. QED
      BY <1>2, <1>4, MinProperties
  <2>2. Min(I) \in 1 .. Len(jobs)
    BY <2>1
  <2> HIDE DEF I
  <2>3. PICK k \in 1 .. Len(jobs) + 1 : k = Min(I) /\ k # 0
    BY <1>2, <2>2
  <2>4. new = InsertAt(jobs, k, x)
    BY <1>1, <1>4, <2>3
  <2>5. InsertAt(jobs, k, x) \in Seq(S)
    BY InsertAtProperties
  <2>6. QED
    BY <2>4, <2>5
<1>5. QED
  BY <1>3, <1>4

(* Only ctrlZHandler lists no process, and main stands still from then on. *)
LEMMA LeadsAstray ==
  ASSUME Typed, [Next]_vars, handler' = "astray"
  PROVE  Astray' /\ raced'
<1>1. handler # "astray"
  BY DEF Typed, Control
<1>2. CtrlZAdd /\ target = NoProcess
  <2>1. CASE CtrlZAdd
    BY <2>1 DEF CtrlZAdd
  <2>2. CASE CtrlZ \/ CtrlZRead \/ CtrlZKill
    BY <2>2 DEF CtrlZ, CtrlZRead, CtrlZKill
  <2>3. CASE UNCHANGED handler
    BY <1>1, <2>3
  <2>4. \/ CtrlZAdd \/ CtrlZ \/ CtrlZRead \/ CtrlZKill
        \/ UNCHANGED handler
    BY DEF Next, vars, OtherCommand, RunInBackground, RunInForeground, Timeout,
           TimedInBackground, TimedInForeground, ForegroundById, ForegroundRemove,
           ForegroundLast, ForegroundSetId, WaitReturns, Cleanup, Background, Kill, Quit,
           CtrlC, Alarm, Tick, ChildEnds, ChildStops
  <2>5. QED
    BY <2>1, <2>2, <2>3, <2>4
<1>3. /\ Purged \in Seq(Entry) /\ nextJobId(Purged) \in Nat \ {0}
      /\ nextJobId(Purged) \in JobIds
  BY PurgedProperties DEF Typed, ListTyped, KernelTyped
<1>4. Purged \in Seq(AnyEntry)
  <2>1. \A x \in Entry : x \in AnyEntry
    BY DEF Entry, AnyEntry
  <2>2. \A jobs \in Seq(Entry) : jobs \in Seq(AnyEntry)
    BY <2>1
  <2>3. QED
    BY <1>3, <2>2
<1>5. ASSUME NEW n \in JobIds
      PROVE  JobEntry(n, NoProcess, TRUE) \in AnyEntry
  BY DEF JobEntry, AnyEntry
<1>6. /\ job_list' \in Seq(AnyEntry) /\ max_job_id' \in Nat \ {0}
      /\ firstId' \in [Pids -> JobIds \cup {0}]
  <2>1. CASE last_cmd_fg
    <3>1. addJobAgain(NoProcess)
      BY <1>2, <2>1 DEF CtrlZAdd
    <3>2. JobEntry(job_id_fg, NoProcess, TRUE) \in AnyEntry
      BY <1>5 DEF Typed, ShellTyped
    <3>3. insertById(Purged, JobEntry(job_id_fg, NoProcess, TRUE)) \in Seq(AnyEntry)
      BY <1>4, <3>2, InsertAny
    <3>4. QED
      BY <1>3, <3>1, <3>3 DEF addJobAgain, SetList, Typed, KernelTyped
  <2>2. CASE ~ last_cmd_fg
    <3>1. addJob(NoProcess, TRUE)
      BY <1>2, <2>2 DEF CtrlZAdd
    <3>2. JobEntry(nextJobId(Purged), NoProcess, TRUE) \in AnyEntry
      BY <1>3, <1>5
    <3>3. Append(Purged, JobEntry(nextJobId(Purged), NoProcess, TRUE)) \in Seq(AnyEntry)
      BY <1>4, <3>2, AppendProperties
    <3>4. nextJobId(Purged) + 1 \in Nat \ {0}
      BY <1>3
    <3>5. firstId' \in [Pids -> JobIds \cup {0}]
      BY <1>3, <3>1 DEF addJob, Typed, KernelTyped
    <3>6. QED
      BY <3>1, <3>3, <3>4, <3>5 DEF addJob
  <2>3. QED
    BY <2>1, <2>2
<1>7. ShellTyped' /\ raced'
  BY <1>2 DEF CtrlZAdd, Typed, ShellTyped, clocks
<1>8. KernelTyped'
  <2>1. proc' \in [Pids -> States]
    BY <1>2, ReapedProperties DEF CtrlZAdd, Typed, KernelTyped
  <2>2. QED
    BY <1>2, <1>6, <2>1 DEF CtrlZAdd, Typed, KernelTyped
<1>9. QED
  BY <1>6, <1>7, <1>8 DEF Astray

LEMMA AstrayNext ==
  ASSUME Astray, raced, [Next]_vars
  PROVE  Astray' /\ raced'
<1>1. CtrlC \/ Alarm \/ Tick \/ ChildEnds \/ ChildStops \/ UNCHANGED vars
  BY DEF Astray, Next, OtherCommand, RunInBackground, RunInForeground, Timeout,
         TimedInBackground, TimedInForeground, ForegroundById, ForegroundRemove,
         ForegroundLast, ForegroundSetId, WaitReturns, Cleanup, Background, Kill, Quit,
         CtrlZ, CtrlZRead, CtrlZAdd, CtrlZKill, AtPrompt, AtTimed
<1>2. /\ UNCHANGED <<job_list, max_job_id, job_id_fg, last_cmd_fg, current_duration, pc, job,
                     handler, target, firstId, timed, raced>>
      /\ current_process' \in {current_process, NoProcess}
  BY <1>1 DEF CtrlC, Alarm, Tick, ChildEnds, ChildStops, vars, list, shell, history
<1>3. /\ alarms' \subseteq [pid : Pids, left : Nat]
      /\ timer' \in Nat \cup {NoTimer} /\ fg_alarm' \in BOOLEAN
  <2>1. CASE Alarm
    BY <2>1 DEF Alarm, Astray, ShellTyped
  <2>2. CASE Tick
    <3>1. timer' \in Nat \cup {NoTimer} /\ fg_alarm' = fg_alarm
      BY DelaysAssumption, <2>2 DEF Tick, Astray, ShellTyped, shell
    <3>2. SUFFICES ASSUME NEW old \in alarms
                   PROVE  [old EXCEPT !.left = IF @ = 0 THEN 0 ELSE @ - 1]
                            \in [pid : Pids, left : Nat]
      BY <2>2, <3>1 DEF Tick, Astray, ShellTyped
    <3>3. old \in [pid : Pids, left : Nat]
      BY DEF Astray, ShellTyped
    <3>4. QED
      BY <3>3
  <2>3. CASE CtrlC \/ ChildEnds \/ ChildStops \/ UNCHANGED vars
    BY <2>3 DEF CtrlC, ChildEnds, ChildStops, vars, shell, clocks, Astray, ShellTyped
  <2>4. QED
    BY <1>1, <2>1, <2>2, <2>3
<1>4. proc' \in [Pids -> States]
  <2>1. proc \in [Pids -> States]
    BY DEF Astray, KernelTyped
  <2>2. \/ proc' = Signalled(proc, Receivers(current_process), "KILL")
        \/ \E ends : proc' = [p \in Pids |-> IF p \in ends /\ proc[p] = "running"
                                             THEN "zombie" ELSE proc[p]]
        \/ \E p \in Pids : \/ proc' = [proc EXCEPT ![p] = "zombie"]
                            \/ proc' = [proc EXCEPT ![p] = "stopping"]
        \/ proc' = proc
    BY <1>1 DEF CtrlC, Alarm, Tick, ChildEnds, ChildStops, vars
  <2>3. QED
    BY <2>1, <2>2, SignalProperties DEF States
<1>5. hidden' \subseteq Pids
  <2>1. hidden' = hidden \/ \E p \in Pids : hidden' = hidden \cup {p}
    BY <1>1 DEF CtrlC, Alarm, Tick, ChildEnds, ChildStops, vars, history
  <2>2. QED
    BY <2>1 DEF Astray, KernelTyped
<1>6. ShellTyped'
  BY <1>2, <1>3 DEF Astray, ShellTyped
<1>7. QED
  BY <1>2, <1>4, <1>5, <1>6 DEF Astray, KernelTyped

-----------------------------------------------------------------------------
(* What holds between a list, the processes, the identifiers they have,    *)
(* those stopped behind the back of the list, and those in the foreground: *)
(* the list is in order, names a process once, and marks those whose stop  *)
(* has been reported; a process that is stopped is marked or hidden, one   *)
(* that runs is listed or in the foreground.                               *)
Consistent(jobs, procs, stops, shown) ==
  /\ Increasing(jobs)
  /\ \A x, y \in ToSet(jobs) : x.job_pid = y.job_pid => x = y
  /\ \A x \in ToSet(jobs) : procs[x.job_pid] = "stopped" => x.isStopped
  /\ \A p \in Pids : procs[p] \in {"stopping", "stopped"} =>
       p \in stops \/ \E x \in ToSet(jobs) : x.job_pid = p /\ x.isStopped
  /\ \A p \in Pids : procs[p] = "running" =>
       p \in shown \/ \E x \in ToSet(jobs) : x.job_pid = p

Genuine(jobs, procs, ids) ==
  /\ \A x \in ToSet(jobs) : procs[x.job_pid] # "none" /\ x.job_id = ids[x.job_pid]
  /\ \A p \in Pids : procs[p] = "none" => ids[p] = 0

(* removeFinishedJobs keeps both.                                          *)
LEMMA PurgeKeeps ==
  ASSUME ListTyped, KernelTyped, NEW stops, NEW shown,
         Consistent(job_list, proc, stops, shown), Genuine(job_list, proc, firstId)
  PROVE  Consistent(Purged, Reaped, stops, shown) /\ Genuine(Purged, Reaped, firstId)
<1>1. /\ Purged \in Seq(Entry) /\ Increasing(Purged)
      /\ ToSet(Purged) = {x \in ToSet(job_list) : ~ Ended(proc[x.job_pid])}
  BY PurgedProperties DEF ListTyped, KernelTyped, Consistent
<1>2. \A x \in ToSet(job_list) : x.job_pid \in Pids
  BY Elements, EntryFields DEF ListTyped
<1>3. \A p \in Pids : Reaped[p] = proc[p] \/ (proc[p] = "zombie" /\ Reaped[p] = "reaped")
  BY ReapedProperties DEF KernelTyped
<1>4. Consistent(Purged, Reaped, stops, shown)
  <2>1. \A x, y \in ToSet(Purged) : x.job_pid = y.job_pid => x = y
    BY <1>1 DEF Consistent
  <2>2. \A x \in ToSet(Purged) : Reaped[x.job_pid] = "stopped" => x.isStopped
    BY <1>1, <1>2, <1>3 DEF Consistent
  <2>3. ASSUME NEW p \in Pids, Reaped[p] \in {"stopping", "stopped"}
        PROVE  p \in stops \/ \E x \in ToSet(Purged) : x.job_pid = p /\ x.isStopped
    <3>1. proc[p] \in {"stopping", "stopped"}
      BY <1>3, <2>3
    <3>2. QED
      BY <1>1, <3>1 DEF Consistent, Ended
  <2>4. ASSUME NEW p \in Pids, Reaped[p] = "running"
        PROVE  p \in shown \/ \E x \in ToSet(Purged) : x.job_pid = p
    <3>1. proc[p] = "running"
      BY <1>3, <2>4
    <3>2. QED
      BY <1>1, <3>1 DEF Consistent, Ended
  <2>5. QED
    BY <1>1, <2>1, <2>2, <2>3, <2>4 DEF Consistent
<1>5. Genuine(Purged, Reaped, firstId)
  BY <1>1, <1>2, <1>3 DEF Genuine
<1>6. QED
  BY <1>4, <1>5

(* Processes that end.                                                     *)
LEMMA EndKeeps ==
  ASSUME NEW jobs \in Seq(Entry), NEW procs, NEW after, NEW stops, NEW shown, NEW more,
         \A p \in Pids : \/ after[p] = procs[p]
                         \/ after[p] = "zombie" /\ procs[p] \in {"running", "stopping", "stopped"},
         shown \subseteq more,
         Consistent(jobs, procs, stops, shown)
  PROVE  Consistent(jobs, after, stops, more)
<1>1. \A x \in ToSet(jobs) : x.job_pid \in Pids
  BY Elements, EntryFields
<1>2. \A x \in ToSet(jobs) : after[x.job_pid] = "stopped" => x.isStopped
  BY <1>1 DEF Consistent
<1>3. \A p \in Pids : after[p] \in {"stopping", "stopped", "running"} => after[p] = procs[p]
  OBVIOUS
<1>4. QED
  BY <1>2, <1>3 DEF Consistent

(* A process that was not listed gets an entry with the next identifier.   *)
LEMMA AddKeeps ==
  ASSUME NEW jobs \in Seq(Entry), NEW procs, NEW after, NEW stops, NEW shown,
         NEW ids \in [Pids -> JobIds \cup {0}], NEW p \in Pids, NEW b \in BOOLEAN,
         Consistent(jobs, procs, stops, shown), Genuine(jobs, procs, ids),
         \A x \in ToSet(jobs) : x.job_pid # p,
         \A q \in Pids : q # p => after[q] = procs[q],
         after[p] # "none",
         after[p] \in {"stopping", "stopped"} => b
  PROVE  LET x == JobEntry(nextJobId(jobs), p, b)
         IN  /\ Consistent(Append(jobs, x), after, stops, shown)
             /\ Genuine(Append(jobs, x), after, [ids EXCEPT ![p] = nextJobId(jobs)])
<1> DEFINE x == JobEntry(nextJobId(jobs), p, b)
           new == Append(jobs, x)
<1>1. /\ nextJobId(jobs) \in JobIds
      /\ \A y \in ToSet(jobs) : y.job_id < nextJobId(jobs)
  BY NextJobIdProperties
<1>2. /\ x \in Entry /\ x.job_id = nextJobId(jobs) /\ x.job_pid = p /\ x.isStopped = b
  BY <1>1, MakeEntry
<1>3. /\ new \in Seq(Entry) /\ ToSet(new) = ToSet(jobs) \cup {x}
      /\ Increasing(new)
  <2>1. Increasing(jobs) /\ \A y \in ToSet(jobs) : y.job_id < x.job_id
    BY <1>1, <1>2 DEF Consistent
  <2> HIDE DEF x
  <2>2. QED
    BY <1>2, <2>1, AppendJob
<1>4. \A y \in ToSet(jobs) : y.job_pid \in Pids
  BY Elements, EntryFields
<1> HIDE DEF x, new
<1>5. \A y, z \in ToSet(new) : y.job_pid = z.job_pid => y = z
  BY <1>2, <1>3 DEF Consistent
<1>6. \A y \in ToSet(new) : after[y.job_pid] = "stopped" => y.isStopped
  BY <1>2, <1>3, <1>4 DEF Consistent
<1>7. ASSUME NEW q \in Pids, after[q] \in {"stopping", "stopped"}
      PROVE  q \in stops \/ \E y \in ToSet(new) : y.job_pid = q /\ y.isStopped
  <2>1. CASE q = p
    BY <1>2, <1>3, <1>7, <2>1
  <2>2. CASE q # p
    BY <1>3, <1>7, <2>2 DEF Consistent
  <2>3. QED
    BY <2>1, <2>2
<1>8. ASSUME NEW q \in Pids, after[q] = "running"
      PROVE  q \in shown \/ \E y \in ToSet(new) : y.job_pid = q
  <2>1. CASE q = p
    BY <1>2, <1>3, <2>1
  <2>2. CASE q # p
    BY <1>3, <1>8, <2>2 DEF Consistent
  <2>3. QED
    BY <2>1, <2>2
<1>9. Genuine(new, after, [ids EXCEPT ![p] = nextJobId(jobs)])
  <2>1. ASSUME NEW y \in ToSet(new)
        PROVE  after[y.job_pid] # "none" /\ y.job_id = [ids EXCEPT ![p] = nextJobId(jobs)][y.job_pid]
    <3>1. CASE y = x
      BY <1>2, <3>1
    <3>2. CASE y # x
      <4>1. y \in ToSet(jobs) /\ y.job_pid \in Pids /\ y.job_pid # p
        BY <1>3, <1>4, <3>2
      <4>2. QED
        BY <4>1 DEF Genuine
    <3>3. QED
      BY <3>1, <3>2
  <2>2. \A q \in Pids : after[q] = "none" => [ids EXCEPT ![p] = nextJobId(jobs)][q] = 0
    BY DEF Genuine
  <2>3. QED
    BY <2>1, <2>2 DEF Genuine
<1>10. QED
  BY <1>3, <1>5, <1>6, <1>7, <1>8, <1>9 DEF Consistent, new, x

(* A listed process is signalled, and its entry marked.                    *)
Marked(jobs, i, b) == [jobs EXCEPT ![i].isStopped = b]

MarkFits(p, b, procs, after, stops, stopsAfter) ==
  /\ \A q \in Pids : q # p => after[q] = procs[q] /\ (q \in stops => q \in stopsAfter)
  /\ after[p] # "none"
  /\ after[p] = "stopped" => b
  /\ after[p] = "stopping" => b \/ p \in stopsAfter

LEMMA MarkKeeps ==
  ASSUME NEW jobs \in Seq(Entry), NEW procs, NEW after, NEW stops, NEW stopsAfter,
         NEW shown, NEW ids,
         NEW i \in 1 .. Len(jobs), NEW b \in BOOLEAN,
         Consistent(jobs, procs, stops, shown), Genuine(jobs, procs, ids),
         MarkFits(jobs[i].job_pid, b, procs, after, stops, stopsAfter)
  PROVE  /\ Consistent(Marked(jobs, i, b), after, stopsAfter, shown)
         /\ Genuine(Marked(jobs, i, b), after, ids)
<1> DEFINE x == JobEntry(jobs[i].job_id, jobs[i].job_pid, b)
           new == Marked(jobs, i, b)
           p == jobs[i].job_pid
<1>0. /\ \A q \in Pids : q # p => after[q] = procs[q] /\ (q \in stops => q \in stopsAfter)
      /\ after[p] # "none"
      /\ after[p] = "stopped" => b
      /\ after[p] = "stopping" => b \/ p \in stopsAfter
  BY DEF MarkFits
<1>1. jobs[i] \in Entry /\ jobs[i] \in ToSet(jobs) /\ p \in Pids
  BY Elements, EntryFields
<1>2. /\ x.job_id = jobs[i].job_id /\ x.job_pid = p /\ x.isStopped = b
  BY <1>1, EntryFields, MakeEntry
<1>3. Increasing(jobs)
  BY DEF Consistent
<1>4. /\ Increasing(new)
      /\ ToSet(new) = {y \in ToSet(jobs) : y.job_id # jobs[i].job_id} \cup {x}
  BY <1>3, MarkJob DEF Marked
<1>c. p = jobs[i].job_pid
  OBVIOUS
<1> HIDE DEF x, new, p
<1>5. \A y \in ToSet(jobs) : y.job_id = jobs[i].job_id => y = jobs[i]
  BY <1>1, <1>3, IdTellsEntry
<1>6. ToSet(new) = (ToSet(jobs) \ {jobs[i]}) \cup {x}
  BY <1>4, <1>5
<1>7. \A y \in ToSet(jobs) : y # jobs[i] => y.job_pid # p
  BY <1>1, <1>c DEF Consistent
<1>8. \A y \in ToSet(jobs) : y.job_pid \in Pids
  BY Elements, EntryFields
<1>9. \A y, z \in ToSet(new) : y.job_pid = z.job_pid => y = z
  BY <1>2, <1>6, <1>7 DEF Consistent
<1>10. \A y \in ToSet(new) : after[y.job_pid] = "stopped" => y.isStopped
  BY <1>0, <1>2, <1>6, <1>7, <1>8 DEF Consistent
<1>11. ASSUME NEW q \in Pids, after[q] \in {"stopping", "stopped"}
       PROVE  q \in stopsAfter \/ \E y \in ToSet(new) : y.job_pid = q /\ y.isStopped
  <2>1. CASE q = p
    BY <1>0, <1>2, <1>6, <1>11, <2>1
  <2>2. CASE q # p
    <3>1. q \in stops \/ \E y \in ToSet(jobs) : y.job_pid = q /\ y.isStopped
      BY <1>0, <1>11, <2>2 DEF Consistent
    <3>2. QED
      BY <1>0, <1>6, <1>c, <2>2, <3>1
  <2>3. QED
    BY <2>1, <2>2
<1>12. ASSUME NEW q \in Pids, after[q] = "running"
       PROVE  q \in shown \/ \E y \in ToSet(new) : y.job_pid = q
  <2>1. CASE q = p
    BY <1>2, <1>6, <2>1
  <2>2. CASE q # p
    <3>1. q \in shown \/ \E y \in ToSet(jobs) : y.job_pid = q
      BY <1>0, <1>12, <2>2 DEF Consistent
    <3>2. QED
      BY <1>6, <1>c, <2>2, <3>1
  <2>3. QED
    BY <2>1, <2>2
<1>13. Genuine(new, after, ids)
  <2>1. \A y \in ToSet(new) : after[y.job_pid] # "none" /\ y.job_id = ids[y.job_pid]
    BY <1>0, <1>1, <1>2, <1>6, <1>7, <1>8, <1>c DEF Genuine
  <2>2. \A q \in Pids : after[q] = "none" => ids[q] = 0
    BY <1>0 DEF Genuine
  <2>3. QED
    BY <2>1, <2>2 DEF Genuine
<1>14. QED
  BY <1>4, <1>9, <1>10, <1>11, <1>12, <1>13 DEF Consistent, new

(* The entry of the foreground process is taken out of the list.           *)
LEMMA RemoveKeeps ==
  ASSUME NEW jobs \in Seq(Entry), NEW procs, NEW stops, NEW ids,
         NEW x \in ToSet(jobs),
         Consistent(jobs, procs, stops, {x.job_pid}), Genuine(jobs, procs, ids),
         procs[x.job_pid] # "stopped",
         procs[x.job_pid] = "stopping" => x.job_pid \in stops
  PROVE  LET rest == removeJobById(jobs, x.job_id)
         IN  /\ rest \in Seq(Entry)
             /\ Consistent(rest, procs, stops, {x.job_pid}) /\ Genuine(rest, procs, ids)
             /\ \A y \in ToSet(rest) : y.job_id # x.job_id /\ y.job_pid # x.job_pid
<1> DEFINE rest == removeJobById(jobs, x.job_id)
           p == x.job_pid
<1>1. /\ rest \in Seq(Entry) /\ Increasing(rest)
      /\ ToSet(rest) = {y \in ToSet(jobs) : y.job_id # x.job_id}
  BY RemoveJob DEF Consistent
<1> HIDE DEF rest
<1>2. ToSet(rest) = ToSet(jobs) \ {x}
  BY <1>1, IdTellsEntry DEF Consistent
<1>3. \A y \in ToSet(rest) : y.job_id # x.job_id /\ y.job_pid # p
  BY <1>1, <1>2 DEF Consistent
<1>4. ASSUME NEW q \in Pids, procs[q] \in {"stopping", "stopped"}
      PROVE  q \in stops \/ \E y \in ToSet(rest) : y.job_pid = q /\ y.isStopped
  <2>1. CASE q = p
    BY <1>4, <2>1
  <2>2. CASE q # p
    BY <1>2, <1>4, <2>2 DEF Consistent
  <2>3. QED
    BY <2>1, <2>2
<1>5. ASSUME NEW q \in Pids, procs[q] = "running"
      PROVE  q \in {p} \/ \E y \in ToSet(rest) : y.job_pid = q
  BY <1>2, <1>5 DEF Consistent
<1>6. Consistent(rest, procs, stops, {p})
  BY <1>1, <1>2, <1>4, <1>5 DEF Consistent
<1>7. Genuine(rest, procs, ids)
  BY <1>2 DEF Genuine
<1>8. QED
  BY <1>1, <1>3, <1>6, <1>7 DEF rest

(* fg takes an entry out of the list and resumes its process if the entry  *)
(* is marked.                                                              *)
LEMMA TakeKeeps ==
  ASSUME NEW jobs \in Seq(Entry), NEW procs \in [Pids -> States], NEW stops,
         NEW x \in ToSet(jobs), Consistent(jobs, procs, stops, {}), NEW ids,
         Genuine(jobs, procs, ids)
  PROVE  LET after == Signalled(procs, Resumed(x), "CONT")
             left  == stops \ Resumed(x)
             rest  == removeJobById(jobs, x.job_id)
         IN  /\ after[x.job_pid] \notin {"none", "stopped"}
             /\ after[x.job_pid] = "stopping" => x.job_pid \in left
             /\ Consistent(jobs, after, left, {x.job_pid}) /\ Genuine(jobs, after, ids)
             /\ Consistent(rest, after, left, {x.job_pid}) /\ Genuine(rest, after, ids)
             /\ rest \in Seq(Entry)
             /\ \A y \in ToSet(rest) : y.job_id # x.job_id /\ y.job_pid # x.job_pid
<1> DEFINE after == Signalled(procs, Resumed(x), "CONT")
           left  == stops \ Resumed(x)
           rest  == removeJobById(jobs, x.job_id)
           p == x.job_pid
<1>1. x \in Entry /\ p \in Pids /\ x.isStopped \in BOOLEAN /\ \A y \in ToSet(jobs) : y.job_pid \in Pids
  BY Elements, EntryFields
<1>2. \A q \in Pids : q # p => after[q] = procs[q] /\ (q \in stops => q \in left)
  BY SignalProperties DEF Resumed
<1>3. x.isStopped =>
        after[p] = IF procs[p] \in {"stopping", "stopped"} THEN "running" ELSE procs[p]
  BY <1>1, SignalProperties DEF Resumed, AfterSignal
<1>4. ~ x.isStopped => after[p] = procs[p] /\ (p \in stops => p \in left)
  BY <1>1, SignalProperties DEF Resumed
<1>5. procs[p] # "none" /\ (procs[p] = "stopped" => x.isStopped)
  BY DEF Consistent, Genuine
<1> HIDE DEF after, left
<1>6. after[p] \notin {"none", "stopped"}
  BY <1>3, <1>4, <1>5
<1>7. after[p] = "stopping" => p \in left
  <2>1. SUFFICES ASSUME after[p] = "stopping"
                 PROVE  p \in left
    OBVIOUS
  <2>2. ~ x.isStopped /\ procs[p] = "stopping"
    BY <1>3, <1>4, <2>1
  <2>3. p \in stops
    BY <1>1, <2>2 DEF Consistent
  <2>4. QED
    BY <1>4, <2>2, <2>3
<1>8. Consistent(jobs, after, left, {p})
  <2>1. \A y \in ToSet(jobs) : after[y.job_pid] = "stopped" => y.isStopped
    BY <1>1, <1>2, <1>6 DEF Consistent
  <2>2. ASSUME NEW q \in Pids, after[q] \in {"stopping", "stopped"}
        PROVE  q \in left \/ \E y \in ToSet(jobs) : y.job_pid = q /\ y.isStopped
    BY <1>2, <1>6, <1>7, <2>2 DEF Consistent
  <2>3. ASSUME NEW q \in Pids, after[q] = "running"
        PROVE  \E y \in ToSet(jobs) : y.job_pid = q
    BY <1>2, <2>3 DEF Consistent
  <2>4. QED
    BY <2>1, <2>2, <2>3 DEF Consistent
<1>9. Genuine(jobs, after, ids)
  BY <1>1, <1>2, <1>6 DEF Genuine
<1>10. /\ rest \in Seq(Entry)
       /\ Consistent(rest, after, left, {p}) /\ Genuine(rest, after, ids)
       /\ \A y \in ToSet(rest) : y.job_id # x.job_id /\ y.job_pid # p
  BY <1>6, <1>7, <1>8, <1>9, RemoveKeeps
<1>11. QED
  BY <1>6, <1>7, <1>8, <1>9, <1>10 DEF after, left, rest

(* ctrl-Z puts the job that fg has taken out back into its place.          *)
IsMissing(x, jobs, procs, ids) ==
  /\ x.isStopped
  /\ \A y \in ToSet(jobs) : y.job_id # x.job_id /\ y.job_pid # x.job_pid
  /\ procs[x.job_pid] # "none" /\ ids[x.job_pid] = x.job_id

LEMMA InsertKeeps ==
  ASSUME NEW jobs \in Seq(Entry), NEW procs, NEW stops, NEW shown, NEW ids,
         NEW x \in Entry, IsMissing(x, jobs, procs, ids),
         Consistent(jobs, procs, stops, shown), Genuine(jobs, procs, ids)
  PROVE  /\ Consistent(insertById(jobs, x), procs, stops, shown)
         /\ Genuine(insertById(jobs, x), procs, ids)
         /\ ToSet(insertById(jobs, x)) = ToSet(jobs) \cup {x}
<1> DEFINE new == insertById(jobs, x)
<1>0. /\ x.isStopped
      /\ \A y \in ToSet(jobs) : y.job_id # x.job_id /\ y.job_pid # x.job_pid
      /\ procs[x.job_pid] # "none" /\ ids[x.job_pid] = x.job_id
  BY DEF IsMissing
<1>1. /\ new \in Seq(Entry) /\ ToSet(new) = ToSet(jobs) \cup {x}
      /\ Increasing(new)
  BY <1>0, InsertJob DEF Consistent
<1> HIDE DEF new
<1>2. \A y, z \in ToSet(new) : y.job_pid = z.job_pid => y = z
  BY <1>0, <1>1 DEF Consistent
<1>3. Consistent(new, procs, stops, shown)
  BY <1>0, <1>1, <1>2 DEF Consistent
<1>4. Genuine(new, procs, ids)
  BY <1>0, <1>1 DEF Genuine
<1>5. QED
  BY <1>1, <1>3, <1>4 DEF new

(* ctrl-Z puts the job back that fg is about to take out: if its process   *)
(* lives, the entry that remains is the marked one.                        *)
IsPublished(x, jobs, procs, stops, ids) ==
  /\ x.isStopped
  /\ \A y \in ToSet(jobs) : y.job_id = x.job_id <=> y.job_pid = x.job_pid
  /\ procs[x.job_pid] \notin {"none", "stopped"} /\ ids[x.job_pid] = x.job_id
  /\ procs[x.job_pid] = "stopping" => x.job_pid \in stops

LEMMA PutBackKeeps ==
  ASSUME NEW jobs \in Seq(Entry), NEW procs, NEW stops, NEW ids,
         NEW x \in Entry, IsPublished(x, jobs, procs, stops, ids),
         Consistent(jobs, procs, stops, {x.job_pid}), Genuine(jobs, procs, ids)
  PROVE  LET rest == removeJobById(insertById(jobs, x), x.job_id)
         IN  /\ Consistent(rest, procs, stops, {x.job_pid})
             /\ Genuine(insertById(jobs, x), procs, ids)
             /\ \A y \in ToSet(rest) : y.job_pid = x.job_pid => y = x
             /\ (\E y \in ToSet(jobs) : y.job_pid = x.job_pid) => x \in ToSet(rest)
<1> DEFINE rest == removeJobById(insertById(jobs, x), x.job_id)
           p == x.job_pid
<1>0. /\ x.isStopped
      /\ \A y \in ToSet(jobs) : y.job_id = x.job_id <=> y.job_pid = x.job_pid
      /\ procs[p] \notin {"none", "stopped"} /\ ids[p] = x.job_id
      /\ procs[p] = "stopping" => p \in stops
  BY DEF IsPublished
<1>1. Genuine(insertById(jobs, x), procs, ids)
  BY <1>0, InsertJob DEF Genuine
<1>2. /\ Increasing(rest)
      /\ (\A y \in ToSet(jobs) : y.job_id # x.job_id) => ToSet(rest) = ToSet(jobs)
      /\ (\E y \in ToSet(jobs) : y.job_id = x.job_id) =>
           ToSet(rest) = {y \in ToSet(jobs) : y.job_id # x.job_id} \cup {x}
  BY PutBack DEF Consistent
<1> HIDE DEF rest
<1>3. CASE \A y \in ToSet(jobs) : y.job_id # x.job_id
  <2>1. ToSet(rest) = ToSet(jobs) /\ \A y \in ToSet(jobs) : y.job_pid # p
    BY <1>0, <1>2, <1>3
  <2>2. Consistent(rest, procs, stops, {p})
    BY <1>2, <2>1 DEF Consistent
  <2>3. QED
    BY <1>1, <2>1, <2>2 DEF rest
<1>4. CASE \E y \in ToSet(jobs) : y.job_id = x.job_id
  <2>1. /\ ToSet(rest) = {y \in ToSet(jobs) : y.job_id # x.job_id} \cup {x}
        /\ \A y \in ToSet(rest) : y = x \/ (y \in ToSet(jobs) /\ y.job_pid # p)
        /\ x \in ToSet(rest)
        /\ \A y \in ToSet(jobs) : y.job_pid # p => y \in ToSet(rest)
    BY <1>0, <1>2, <1>4
  <2>2. \A y, z \in ToSet(rest) : y.job_pid = z.job_pid => y = z
    BY <2>1 DEF Consistent
  <2>3. \A y \in ToSet(rest) : procs[y.job_pid] = "stopped" => y.isStopped
    BY <1>0, <2>1 DEF Consistent
  <2>4. ASSUME NEW q \in Pids, procs[q] \in {"stopping", "stopped"}
        PROVE  q \in stops \/ \E y \in ToSet(rest) : y.job_pid = q /\ y.isStopped
    <3>1. CASE q = p
      BY <1>0, <2>1, <3>1
    <3>2. CASE q # p
      BY <2>1, <2>4, <3>2 DEF Consistent
    <3>3. QED
      BY <3>1, <3>2
  <2>5. ASSUME NEW q \in Pids, procs[q] = "running"
        PROVE  q \in {p} \/ \E y \in ToSet(rest) : y.job_pid = q
    <3>1. CASE q = p
      BY <3>1
    <3>2. CASE q # p
      <4>1. PICK y \in ToSet(jobs) : y.job_pid = q
        BY <2>5, <3>2 DEF Consistent
      <4>2. QED
        BY <2>1, <3>2, <4>1
    <3>3. QED
      BY <3>1, <3>2
  <2>6. Consistent(rest, procs, stops, {p})
    BY <1>2, <2>2, <2>3, <2>4, <2>5 DEF Consistent
  <2>7. QED
    BY <1>1, <2>1, <2>6 DEF rest
<1>5. QED
  BY <1>3, <1>4

-----------------------------------------------------------------------------
(* The inductive invariant.  View is the list as it is once fg has removed *)
(* the entry it has published, if ctrl-Z has put that job back before.     *)
Back == pc = "fg_remove" /\ ~ last_cmd_fg

View == IF Back THEN removeJobById(job_list, job.job_id) ELSE job_list

Shown == IF pc \in {"fg_remove", "fg_id", "waiting"} THEN {job.job_pid} ELSE {}

CanBeStopped ==
  handler # "kill" /\ (IF handler = "add" THEN target ELSE current_process) # NoProcess

Away == \A x \in ToSet(job_list) : x.job_id # job.job_id /\ x.job_pid # job.job_pid

(* Main waits for a process that exists and is not known to be stopped.    *)
Awaited ==
  /\ pc \in {"fg_remove", "fg_id", "waiting"} => proc[job.job_pid] \notin {"none", "stopped"}
  /\ pc = "cleanup" => proc[job.job_pid] # "none"

(* What fg has published and not yet removed, or removed and not yet       *)
(* published.                                                              *)
HalfTaken ==
  /\ pc = "fg_remove" => job_id_fg = job.job_id
  /\ Back => ~ CanBeStopped
  /\ pc = "fg_remove" /\ last_cmd_fg =>
       job \in ToSet(job_list) /\ (proc[job.job_pid] = "stopping" => job.job_pid \in hidden)
  /\ pc = "fg_id" => last_cmd_fg /\ job.job_id = firstId[job.job_pid] /\ Away

(* A foreground process that ctrl-Z can still stop is not in the list, and *)
(* ctrl-Z knows its identifier if it has one.                              *)
NotYetBack ==
  /\ pc = "timed" \/ handler = "kill" => ~ last_cmd_fg
  /\ pc \in {"waiting", "cleanup"} /\ CanBeStopped =>
       IF last_cmd_fg
       THEN job_id_fg = job.job_id /\ job.job_id = firstId[job.job_pid] /\ Away
       ELSE firstId[job.job_pid] = 0 /\ \A x \in ToSet(job_list) : x.job_pid # job.job_pid

(* One that ctrl-Z has put back is marked, before its process is stopped.  *)
MarkedWhenBack ==
  /\ Back \/ pc = "waiting" =>
       \A x \in ToSet(View) : x.job_pid = job.job_pid => x.isStopped
  /\ handler = "kill" /\ current_process # NoProcess /\ Live(job.job_pid) =>
       \E x \in ToSet(View) : x.job_pid = job.job_pid /\ x.isStopped

KilledAll == pc = "killed" => \A p \in Pids : Live(p) => p \in hidden

Good ==
  /\ Consistent(View, proc, hidden, Shown)
  /\ Genuine(job_list, proc, firstId)
  /\ Awaited /\ HalfTaken /\ NotYetBack /\ MarkedWhenBack /\ KilledAll

Sound == (Typed /\ (~ raced => Good)) \/ (Astray /\ raced)

-----------------------------------------------------------------------------
(* Commands that leave no process in the foreground.                       *)
LEMMA AtStart ==
  ASSUME Typed, Good, pc \in {"prompt", "timed"}
  PROVE  /\ Consistent(Purged, Reaped, hidden, {})
         /\ Genuine(Purged, Reaped, firstId)
         /\ Purged \in Seq(Entry)
         /\ Reaped \in [Pids -> States]
         /\ current_process = NoProcess /\ handler = "idle"
         /\ \A p \in Unused : /\ p \in Pids /\ Reaped[p] = "none" /\ firstId[p] = 0
                              /\ \A x \in ToSet(Purged) : x.job_pid # p
<1>1. View = job_list /\ Shown = {}
  BY DEF View, Back, Shown
<1>2. Consistent(job_list, proc, hidden, {}) /\ Genuine(job_list, proc, firstId)
  BY <1>1 DEF Good
<1>3. Consistent(Purged, Reaped, hidden, {}) /\ Genuine(Purged, Reaped, firstId)
  BY <1>2, PurgeKeeps DEF Typed
<1>4. Purged \in Seq(Entry) /\ Reaped \in [Pids -> States]
  BY PurgedProperties, ReapedProperties DEF Typed, ListTyped, KernelTyped
<1>5. current_process = NoProcess /\ handler = "idle"
  BY DEF Typed, Control
<1>6. ASSUME NEW p \in Unused
      PROVE  /\ p \in Pids /\ Reaped[p] = "none" /\ firstId[p] = 0
             /\ \A x \in ToSet(Purged) : x.job_pid # p
  <2>1. p \in Pids /\ proc[p] = "none"
    BY DEF Unused
  <2>2. Reaped[p] = "none"
    BY <2>1, ReapedProperties DEF Typed, KernelTyped
  <2>3. QED
    BY <1>3, <2>1, <2>2 DEF Genuine
<1>7. QED
  BY <1>3, <1>4, <1>5, <1>6

LEMMA QuietKeeps ==
  ASSUME pc' \in {"prompt", "timed", "exited", "killed"},
         (current_process = NoProcess)',
         (handler = "idle")',
         pc' = "timed" => ~ last_cmd_fg',
         pc' = "killed" => \A p \in Pids : Live(p)' => p \in hidden',
         Consistent(job_list', proc', hidden', {}),
         Genuine(job_list', proc', firstId')
  PROVE  Good'
<1>1. View' = job_list' /\ Shown' = {}
  BY DEF View, Back, Shown
<1>2. Awaited' /\ HalfTaken' /\ NotYetBack' /\ MarkedWhenBack' /\ KilledAll'
  BY DEF Awaited, HalfTaken, NotYetBack, MarkedWhenBack, KilledAll, CanBeStopped, Back
<1>3. QED
  BY <1>1, <1>2 DEF Good

LEMMA OtherCommandGood ==
  ASSUME Typed, Good, OtherCommand
  PROVE  Good'
<1>1. /\ pc = "prompt" /\ pc' = "prompt" /\ job_list' = Purged /\ proc' = Reaped
      /\ hidden' = hidden /\ firstId' = firstId
      /\ current_process' = current_process /\ handler' = handler
  BY DEF OtherCommand, AtPrompt, SetList, history
<1>2. QED
  BY <1>1, AtStart, QuietKeeps

LEMMA TimeoutGood ==
  ASSUME Typed, Good, Timeout
  PROVE  Good'
<1>1. /\ pc = "prompt" /\ pc' = "timed" /\ job_list' = Purged /\ proc' = Reaped
      /\ hidden' = hidden /\ firstId' = firstId /\ last_cmd_fg' = FALSE
      /\ current_process' = current_process /\ handler' = handler
  BY DEF Timeout, AtPrompt, SetList, history
<1>2. QED
  BY <1>1, AtStart, QuietKeeps

(* A new process in the background.                                        *)
LEMMA FirstIdGiven ==
  ASSUME NEW ids \in [Pids -> JobIds \cup {0}], NEW p \in Pids, ids[p] = 0, NEW n
  PROVE  [q \in Pids |-> IF q = p /\ ids[q] = 0 THEN n ELSE ids[q]] = [ids EXCEPT ![p] = n]
  OBVIOUS

LEMMA BackgroundJobGood ==
  ASSUME Typed, Good, NEW p \in Unused,
         pc \in {"prompt", "timed"}, pc' = "prompt",
         addJob(p, FALSE), proc' = [Reaped EXCEPT ![p] = "running"],
         UNCHANGED <<hidden, current_process, handler>>
  PROVE  Good'
<1>1. /\ Consistent(Purged, Reaped, hidden, {}) /\ Genuine(Purged, Reaped, firstId)
      /\ Purged \in Seq(Entry) /\ Reaped \in [Pids -> States]
      /\ current_process = NoProcess /\ handler = "idle"
      /\ p \in Pids /\ Reaped[p] = "none" /\ firstId[p] = 0
      /\ \A x \in ToSet(Purged) : x.job_pid # p
  BY AtStart
<1>2. /\ job_list' = Append(Purged, JobEntry(nextJobId(Purged), p, FALSE))
      /\ firstId' = [firstId EXCEPT ![p] = nextJobId(Purged)]
  BY <1>1, FirstIdGiven DEF addJob, Typed, KernelTyped
<1>3. proc'[p] = "running" /\ \A q \in Pids : q # p => proc'[q] = Reaped[q]
  BY <1>1
<1>4. firstId \in [Pids -> JobIds \cup {0}]
  BY DEF Typed, KernelTyped
<1>5. Consistent(job_list', proc', hidden, {}) /\ Genuine(job_list', proc', firstId')
  BY <1>1, <1>2, <1>3, <1>4, AddKeeps
<1>6. QED
  BY <1>1, <1>5, QuietKeeps

LEMMA RunInBackgroundGood ==
  ASSUME Typed, Good, RunInBackground
  PROVE  Good'
<1>1. PICK p \in Unused : addJob(p, FALSE) /\ proc' = [Reaped EXCEPT ![p] = "running"]
  BY DEF RunInBackground
<1>2. /\ pc = "prompt" /\ pc' = "prompt"
      /\ UNCHANGED <<hidden, current_process, handler>>
  BY DEF RunInBackground, AtPrompt
<1>3. QED
  BY <1>1, <1>2, BackgroundJobGood

LEMMA TimedInBackgroundGood ==
  ASSUME Typed, Good, TimedInBackground
  PROVE  Good'
<1>1. PICK p \in Unused : addJob(p, FALSE) /\ proc' = [Reaped EXCEPT ![p] = "running"]
  BY DEF TimedInBackground
<1>2. /\ pc = "timed" /\ pc' = "prompt"
      /\ UNCHANGED <<hidden, current_process, handler>>
  BY DEF TimedInBackground, AtTimed
<1>3. QED
  BY <1>1, <1>2, BackgroundJobGood

(* bg and kill, for an entry of the list.                                  *)
LEMMA BackgroundGood ==
  ASSUME Typed, Good, Background
  PROVE  Good'
<1>1. PICK i \in DOMAIN Purged :
        /\ SetList([Purged EXCEPT ![i].isStopped = FALSE])
        /\ proc' = Signalled(Reaped, {Purged[i].job_pid}, "CONT")
        /\ hidden' = hidden \ {Purged[i].job_pid}
  BY DEF Background
<1>2. /\ pc = "prompt" /\ pc' = "prompt"
      /\ UNCHANGED <<firstId, current_process, handler>>
      /\ job_list' = [Purged EXCEPT ![i].isStopped = FALSE]
  BY <1>1 DEF Background, AtPrompt, SetList
<1>3. /\ Consistent(Purged, Reaped, hidden, {}) /\ Genuine(Purged, Reaped, firstId)
      /\ Purged \in Seq(Entry) /\ Reaped \in [Pids -> States]
      /\ current_process = NoProcess /\ handler = "idle"
  BY <1>2, AtStart
<1> DEFINE p == Purged[i].job_pid
<1>4. i \in 1 .. Len(Purged) /\ p \in Pids /\ Purged[i] \in ToSet(Purged)
  BY <1>3, Elements, EntryFields
<1>5. proc'[p] = AfterSignal(Reaped[p], "CONT") /\ \A q \in Pids : q # p => proc'[q] = Reaped[q]
  BY <1>1, <1>3, <1>4, SignalProperties
<1>6. Reaped[p] # "none"
  BY <1>3, <1>4 DEF Genuine
<1>7. proc'[p] \notin {"none", "stopping", "stopped"}
  BY <1>3, <1>4, <1>5, <1>6 DEF AfterSignal, States
<1>8. \A q \in Pids : q # p => (q \in hidden => q \in hidden')
  BY <1>1
<1> HIDE DEF p
<1>9. Consistent(job_list', proc', hidden', {}) /\ Genuine(job_list', proc', firstId)
  <2>1. MarkFits(p, FALSE, Reaped, proc', hidden, hidden')
    BY <1>5, <1>7, <1>8 DEF MarkFits
  <2>2. /\ Consistent(Marked(Purged, i, FALSE), proc', hidden', {})
        /\ Genuine(Marked(Purged, i, FALSE), proc', firstId)
    BY <1>3, <1>4, <2>1, MarkKeeps DEF p
  <2>3. QED
    BY <1>2, <2>2 DEF Marked
<1>10. QED
  BY <1>2, <1>3, <1>9, QuietKeeps

LEMMA KillGood ==
  ASSUME Typed, Good, Kill
  PROVE  Good'
<1>1. PICK i \in DOMAIN Purged, sig \in {"KILL", "STOP", "TSTP", "CONT"} :
        LET p == Purged[i].job_pid
        IN  /\ proc' = Signalled(Reaped, {p}, IF sig = "TSTP" THEN "STOP" ELSE sig)
            /\ SetList([Purged EXCEPT ![i].isStopped =
                          sig = "TSTP" \/ (@ /\ sig # "CONT")])
            /\ hidden' = IF sig = "STOP" THEN hidden \cup {p}
                         ELSE IF sig = "CONT" THEN hidden \ {p} ELSE hidden
  BY DEF Kill
<1> DEFINE b == sig = "TSTP" \/ (Purged[i].isStopped /\ sig # "CONT")
           p == Purged[i].job_pid
           sent == IF sig = "TSTP" THEN "STOP" ELSE sig
<1>2. /\ pc = "prompt" /\ pc' = "prompt"
      /\ UNCHANGED <<firstId, current_process, handler>>
      /\ job_list' = [Purged EXCEPT ![i].isStopped = b]
  BY <1>1 DEF Kill, AtPrompt, SetList
<1>3. /\ Consistent(Purged, Reaped, hidden, {}) /\ Genuine(Purged, Reaped, firstId)
      /\ Purged \in Seq(Entry) /\ Reaped \in [Pids -> States]
      /\ current_process = NoProcess /\ handler = "idle"
  BY <1>2, AtStart
<1>4. i \in 1 .. Len(Purged) /\ p \in Pids /\ Purged[i] \in ToSet(Purged) /\ b \in BOOLEAN
  BY <1>3, Elements, EntryFields
<1>5. proc'[p] = AfterSignal(Reaped[p], sent) /\ \A q \in Pids : q # p => proc'[q] = Reaped[q]
  BY <1>1, <1>3, <1>4, SignalProperties
<1>6. /\ Reaped[p] # "none"
      /\ Reaped[p] = "stopped" => Purged[i].isStopped
      /\ Reaped[p] = "stopping" => p \in hidden \/ Purged[i].isStopped
  BY <1>3, <1>4 DEF Genuine, Consistent
<1>7. /\ proc'[p] # "none"
      /\ proc'[p] = "stopped" => b
      /\ proc'[p] = "stopping" => b \/ p \in hidden'
  <2>1. CASE sig = "KILL"
    BY <1>1, <1>5, <1>6, <2>1 DEF AfterSignal
  <2>2. CASE sig = "STOP"
    BY <1>1, <1>5, <1>6, <2>2 DEF AfterSignal
  <2>3. CASE sig = "TSTP"
    BY <1>1, <1>5, <1>6, <2>3 DEF AfterSignal
  <2>4. CASE sig = "CONT"
    BY <1>1, <1>3, <1>4, <1>5, <1>6, <2>4 DEF AfterSignal, States
  <2>5. QED
    BY <2>1, <2>2, <2>3, <2>4
<1>8. \A q \in Pids : q # p => (q \in hidden => q \in hidden')
  BY <1>1
<1> HIDE DEF p, b, sent
<1>9. Consistent(job_list', proc', hidden', {}) /\ Genuine(job_list', proc', firstId)
  <2>1. MarkFits(p, b, Reaped, proc', hidden, hidden')
    BY <1>5, <1>7, <1>8 DEF MarkFits
  <2>2. /\ Consistent(Marked(Purged, i, b), proc', hidden', {})
        /\ Genuine(Marked(Purged, i, b), proc', firstId)
    BY <1>3, <1>4, <2>1, MarkKeeps DEF p
  <2>3. QED
    BY <1>2, <2>2 DEF Marked
<1>10. QED
  BY <1>2, <1>3, <1>9, QuietKeeps

LEMMA QuitGood ==
  ASSUME Typed, Good, Quit
  PROVE  Good'
<1>1. /\ pc = "prompt" /\ job_list' = Purged
      /\ hidden' = hidden /\ firstId' = firstId
      /\ current_process' = current_process /\ handler' = handler
  BY DEF Quit, AtPrompt, SetList, history
<1>2. /\ Consistent(Purged, Reaped, hidden, {}) /\ Genuine(Purged, Reaped, firstId)
      /\ Purged \in Seq(Entry) /\ Reaped \in [Pids -> States]
      /\ current_process = NoProcess /\ handler = "idle"
  BY <1>1, AtStart
<1>3. CASE proc' = Reaped /\ pc' = "exited"
  BY <1>1, <1>2, <1>3, QuietKeeps
<1>4. CASE proc' = Signalled(Reaped, ListedPids(Purged), "KILL") /\ pc' = "killed"
  <2>1. \A p \in Pids : proc'[p] = IF p \in ListedPids(Purged)
                                   THEN AfterSignal(Reaped[p], "KILL") ELSE Reaped[p]
    BY <1>2, <1>4, SignalProperties
  <2>2. \A p \in Pids : \/ proc'[p] = Reaped[p]
                        \/ /\ proc'[p] = "zombie"
                           /\ Reaped[p] \in {"running", "stopping", "stopped"}
    BY <2>1 DEF AfterSignal
  <2>3. Consistent(job_list', proc', hidden', {})
    BY <1>1, <1>2, <2>2, EndKeeps
  <2>4. Genuine(job_list', proc', firstId')
    <3>1. \A x \in ToSet(Purged) : x.job_pid \in Pids
      BY <1>2, Elements, EntryFields
    <3>2. QED
      BY <1>1, <1>2, <2>2, <3>1 DEF Genuine
  <2>5. ASSUME NEW p \in Pids, Live(p)'
        PROVE  p \in hidden'
    <3>1. proc'[p] \in {"running", "stopping", "stopped"}
      BY <2>5 DEF Live
    <3>2. p \notin ListedPids(Purged) /\ Reaped[p] \in {"running", "stopping", "stopped"}
      BY <2>1, <2>2, <3>1 DEF AfterSignal
    <3>3. \A x \in ToSet(Purged) : x.job_pid # p
      BY <3>2 DEF ListedPids
    <3>4. QED
      BY <1>1, <1>2, <3>2, <3>3 DEF Consistent
  <2>6. QED
    BY <1>1, <1>2, <1>4, <2>3, <2>4, <2>5, QuietKeeps
<1>5. QED
  BY <1>3, <1>4 DEF Quit

-----------------------------------------------------------------------------
(* Commands in the foreground.                                             *)
LEMMA ForegroundJobGood ==
  ASSUME Typed, Good, NEW p \in Unused,
         pc \in {"prompt", "timed"}, pc' = "waiting",
         job_list' = Purged, proc' = [Reaped EXCEPT ![p] = "running"],
         job' = JobEntry(0, p, FALSE), last_cmd_fg' = FALSE,
         UNCHANGED <<hidden, firstId, handler>>
  PROVE  Good'
<1>1. /\ Consistent(Purged, Reaped, hidden, {}) /\ Genuine(Purged, Reaped, firstId)
      /\ Purged \in Seq(Entry) /\ Reaped \in [Pids -> States]
      /\ handler = "idle"
      /\ p \in Pids /\ Reaped[p] = "none" /\ firstId[p] = 0
      /\ \A x \in ToSet(Purged) : x.job_pid # p
  BY AtStart
<1>2. proc'[p] = "running" /\ \A q \in Pids : q # p => proc'[q] = Reaped[q]
  BY <1>1
<1>3. job'.job_pid = p
  BY DEF JobEntry
<1>4. View' = Purged /\ Shown' = {p}
  BY <1>3 DEF View, Back, Shown
<1>5. \A x \in ToSet(Purged) : x.job_pid \in Pids
  BY <1>1, Elements, EntryFields
<1>6. Consistent(Purged, proc', hidden, {p})
  <2>1. \A x \in ToSet(Purged) : proc'[x.job_pid] = "stopped" => x.isStopped
    BY <1>1, <1>2, <1>5 DEF Consistent
  <2>2. ASSUME NEW q \in Pids, proc'[q] \in {"stopping", "stopped"}
        PROVE  q \in hidden \/ \E x \in ToSet(Purged) : x.job_pid = q /\ x.isStopped
    BY <1>1, <1>2, <2>2 DEF Consistent
  <2>3. ASSUME NEW q \in Pids, proc'[q] = "running"
        PROVE  q \in {p} \/ \E x \in ToSet(Purged) : x.job_pid = q
    BY <1>1, <1>2, <2>3 DEF Consistent
  <2>4. QED
    BY <1>1, <2>1, <2>2, <2>3 DEF Consistent
<1>7. Genuine(Purged, proc', firstId)
  BY <1>1, <1>2, <1>5 DEF Genuine
<1>8. Awaited' /\ HalfTaken' /\ NotYetBack' /\ KilledAll'
  BY <1>1, <1>2, <1>3 DEF Awaited, HalfTaken, NotYetBack, KilledAll, Back
<1>9. MarkedWhenBack'
  BY <1>1, <1>3, <1>4 DEF MarkedWhenBack
<1>10. QED
  BY <1>4, <1>6, <1>7, <1>8, <1>9 DEF Good

LEMMA RunInForegroundGood ==
  ASSUME Typed, Good, RunInForeground
  PROVE  Good'
<1>1. PICK p \in Unused : /\ proc' = [Reaped EXCEPT ![p] = "running"]
                          /\ job' = JobEntry(0, p, FALSE)
  BY DEF RunInForeground
<1>2. /\ pc = "prompt" /\ pc' = "waiting" /\ job_list' = Purged /\ last_cmd_fg' = FALSE
      /\ UNCHANGED <<hidden, firstId, handler>>
  BY DEF RunInForeground, AtPrompt, SetList, history
<1>3. QED
  BY <1>1, <1>2, ForegroundJobGood

LEMMA TimedInForegroundGood ==
  ASSUME Typed, Good, TimedInForeground
  PROVE  Good'
<1>1. PICK p \in Unused : /\ proc' = [Reaped EXCEPT ![p] = "running"]
                          /\ job' = JobEntry(0, p, FALSE)
  BY DEF TimedInForeground
<1>2. /\ pc = "timed" /\ pc' = "waiting" /\ job_list' = Purged
      /\ last_cmd_fg' = last_cmd_fg
      /\ UNCHANGED <<hidden, firstId, handler>>
  BY DEF TimedInForeground, AtTimed, SetList
<1>3. last_cmd_fg' = FALSE
  BY <1>2 DEF Good, NotYetBack, Typed, ShellTyped
<1>4. QED
  BY <1>1, <1>2, <1>3, ForegroundJobGood

(* fg, of a job with an identifier.                                        *)
LEMMA ForegroundByIdGood ==
  ASSUME Typed, Good, ForegroundById
  PROVE  Good'
<1>1. PICK i \in DOMAIN Purged :
        /\ job' = Purged[i]
        /\ job_id_fg' = Purged[i].job_id
        /\ proc' = Signalled(Reaped, Resumed(Purged[i]), "CONT")
        /\ hidden' = hidden \ Resumed(Purged[i])
  BY DEF ForegroundById
<1>2. /\ pc = "prompt" /\ pc' = "fg_remove" /\ last_cmd_fg' = TRUE
      /\ job_list' = Purged /\ handler' = handler /\ firstId' = firstId
  BY DEF ForegroundById, AtPrompt, SetList
<1>3. /\ Consistent(Purged, Reaped, hidden, {}) /\ Genuine(Purged, Reaped, firstId)
      /\ Purged \in Seq(Entry) /\ Reaped \in [Pids -> States]
      /\ handler = "idle"
  BY <1>2, AtStart
<1>4. PICK x \in ToSet(Purged) : x = Purged[i]
  BY <1>3, Elements
<1>5. /\ proc' = Signalled(Reaped, Resumed(x), "CONT")
      /\ hidden' = hidden \ Resumed(x)
      /\ job' = x /\ job_id_fg' = x.job_id
  BY <1>1, <1>4
<1>6. /\ proc'[x.job_pid] \notin {"none", "stopped"}
      /\ proc'[x.job_pid] = "stopping" => x.job_pid \in hidden'
      /\ Consistent(Purged, proc', hidden', {x.job_pid})
      /\ Genuine(Purged, proc', firstId)
  BY <1>3, <1>5, TakeKeeps
<1>7. View' = Purged /\ Shown' = {x.job_pid}
  BY <1>2, <1>5 DEF View, Back, Shown
<1>8. Awaited' /\ HalfTaken' /\ NotYetBack' /\ MarkedWhenBack' /\ KilledAll'
  BY <1>2, <1>3, <1>5, <1>6
     DEF Awaited, HalfTaken, NotYetBack, MarkedWhenBack, KilledAll, Back
<1>9. QED
  BY <1>2, <1>6, <1>7, <1>8 DEF Good

LEMMA ForegroundRemoveGood ==
  ASSUME Typed, Good, ForegroundRemove
  PROVE  Good'
<1>1. /\ pc = "fg_remove" /\ pc' = "waiting" /\ handler = "idle"
      /\ job_list' = removeJobById(job_list, job.job_id)
      /\ UNCHANGED <<handler, current_process, last_cmd_fg, job_id_fg, job, proc, hidden,
                     firstId>>
  BY DEF ForegroundRemove, shell, history
<1>2. View' = job_list' /\ Shown' = {job.job_pid} /\ Shown = {job.job_pid}
  BY <1>1 DEF View, Back, Shown
<1>3. job_list \in Seq(Entry)
  BY DEF Typed, ListTyped
<1>4. Awaited' /\ HalfTaken' /\ KilledAll'
  BY <1>1 DEF Good, Awaited, HalfTaken, KilledAll, Back
<1>5. CASE last_cmd_fg
  <2>1. /\ job \in ToSet(job_list) /\ job_id_fg = job.job_id
        /\ proc[job.job_pid] # "stopped"
        /\ proc[job.job_pid] = "stopping" => job.job_pid \in hidden
        /\ Genuine(job_list, proc, firstId)
    BY <1>1, <1>5 DEF Good, HalfTaken, Awaited
  <2>2. Consistent(job_list, proc, hidden, {job.job_pid})
    BY <1>2, <1>5 DEF Good, View, Back
  <2>3. /\ Consistent(job_list', proc, hidden, {job.job_pid})
        /\ Genuine(job_list', proc, firstId)
        /\ \A y \in ToSet(job_list') : y.job_id # job.job_id /\ y.job_pid # job.job_pid
    BY <1>1, <1>3, <2>1, <2>2, RemoveKeeps
  <2>4. job.job_id = firstId[job.job_pid]
    BY <2>1 DEF Genuine
  <2>5. NotYetBack'
    BY <1>1, <1>5, <2>1, <2>3, <2>4 DEF NotYetBack, Away
  <2>6. MarkedWhenBack'
    BY <1>1, <1>2, <2>3 DEF MarkedWhenBack
  <2>7. QED
    BY <1>1, <1>2, <1>4, <2>3, <2>5, <2>6 DEF Good
<1>6. CASE ~ last_cmd_fg
  <2>1. Back /\ View = job_list' /\ ~ CanBeStopped
    BY <1>1, <1>6 DEF Good, HalfTaken, View, Back
  <2>2. Consistent(job_list', proc, hidden, {job.job_pid})
    BY <1>2, <2>1 DEF Good
  <2>3. Genuine(job_list', proc, firstId)
    <3>1. ToSet(job_list') \subseteq ToSet(job_list)
      BY <1>1, <1>3, RemoveJob
    <3>2. QED
      BY <3>1 DEF Good, Genuine
  <2>4. NotYetBack'
    BY <1>1, <2>1 DEF NotYetBack, CanBeStopped
  <2>5. MarkedWhenBack'
    BY <1>1, <1>2, <2>1 DEF Good, MarkedWhenBack
  <2>6. QED
    BY <1>1, <1>2, <1>4, <2>2, <2>3, <2>4, <2>5 DEF Good
<1>7. QED
  BY <1>5, <1>6

(* fg, of the last job: the slot it reads through is the one after the     *)
(* last, where the erased entry still is.                                  *)
LEMMA ForegroundLastGood ==
  ASSUME Typed, Good, ForegroundLast
  PROVE  Good'
<1> DEFINE i    == getLastJob(Purged)
           rest == removeJobById(Purged, Purged[i].job_id)
<1>1. /\ job_list' = rest
      /\ proc' = Signalled(Reaped, Resumed(Purged[i]), "CONT")
      /\ hidden' = hidden \ Resumed(Purged[i])
      /\ job' = IF i <= Len(rest) THEN rest[i] ELSE Purged[i]
      /\ Purged # << >>
  BY DEF ForegroundLast, SetList
<1>2. /\ pc = "prompt" /\ pc' = "fg_id" /\ last_cmd_fg' = TRUE
      /\ handler' = handler /\ firstId' = firstId
  BY DEF ForegroundLast, AtPrompt
<1>3. /\ Consistent(Purged, Reaped, hidden, {}) /\ Genuine(Purged, Reaped, firstId)
      /\ Purged \in Seq(Entry) /\ Reaped \in [Pids -> States]
      /\ handler = "idle"
  BY <1>2, AtStart
<1>4. i \in 1 .. Len(Purged) /\ i = Len(Purged)
  BY <1>1, <1>3, LastJob DEF Consistent
<1>5. PICK x \in ToSet(Purged) : x = Purged[i]
  BY <1>3, <1>4, Elements
<1>6. rest = removeJobById(Purged, x.job_id)
  BY <1>5
<1>7. Len(rest) < i
  <2> DEFINE k == getJobById(Purged, x.job_id)
  <2>1. k \in 1 .. Len(Purged)
    <3>1. k \in 0 .. Len(Purged) /\ k # 0
      BY <1>3, FindJob
    <3> HIDE DEF k
    <3>2. QED
      BY <3>1
  <2>2. rest = RemoveAt(Purged, k)
    BY <1>6, <2>1 DEF removeJobById
  <2>3. Len(RemoveAt(Purged, k)) = Len(Purged) - 1
    <3> HIDE DEF k
    <3>1. QED
      BY <1>3, <2>1, RemoveAtProperties
  <2> HIDE DEF i, rest, k
  <2>4. QED
    BY <1>4, <2>2, <2>3
<1>8. /\ proc' = Signalled(Reaped, Resumed(x), "CONT")
      /\ hidden' = hidden \ Resumed(x)
  BY <1>1, <1>5
<1>9. job' = x
  <2> HIDE DEF i, rest
  <2>1. Len(Purged) \in Nat
    BY <1>3, Elements
  <2>2. rest \in Seq(Entry)
    BY <1>3, RemoveJob DEF rest
  <2>3. Len(rest) \in Nat
    BY <2>2, Elements
  <2>4. ~ (i <= Len(rest))
    BY <1>4, <1>7, <2>1, <2>3
  <2>5. QED
    BY <1>1, <1>5, <2>4
<1> HIDE DEF i, rest
<1>10. /\ proc'[x.job_pid] \notin {"none", "stopped"}
       /\ Consistent(rest, proc', hidden', {x.job_pid})
       /\ Genuine(rest, proc', firstId)
       /\ \A y \in ToSet(rest) : y.job_id # x.job_id /\ y.job_pid # x.job_pid
  BY <1>3, <1>6, <1>8, TakeKeeps
<1>11. View' = rest /\ Shown' = {x.job_pid}
  BY <1>1, <1>2, <1>9 DEF View, Back, Shown
<1>12. x.job_id = firstId[x.job_pid]
  BY <1>3 DEF Genuine
<1>13. Awaited' /\ HalfTaken' /\ NotYetBack' /\ MarkedWhenBack' /\ KilledAll'
  BY <1>1, <1>2, <1>3, <1>9, <1>10, <1>12
     DEF Awaited, HalfTaken, NotYetBack, MarkedWhenBack, KilledAll, Back, Away
<1>14. QED
  BY <1>1, <1>2, <1>10, <1>11, <1>13 DEF Good

LEMMA ForegroundSetIdGood ==
  ASSUME Typed, Good, ForegroundSetId
  PROVE  Good'
<1>1. /\ pc = "fg_id" /\ pc' = "waiting" /\ handler = "idle"
      /\ job_id_fg' = job.job_id
      /\ UNCHANGED <<handler, job_list, last_cmd_fg, job, proc, hidden, firstId>>
  BY DEF ForegroundSetId, list, history
<1>2. View' = job_list /\ View = job_list /\ Shown' = Shown
  BY <1>1 DEF View, Back, Shown
<1>3. last_cmd_fg /\ job.job_id = firstId[job.job_pid] /\ Away
  BY <1>1 DEF Good, HalfTaken
<1>4. Awaited' /\ HalfTaken' /\ KilledAll'
  BY <1>1, <1>3 DEF Good, Awaited, HalfTaken, KilledAll, Back
<1>5. NotYetBack'
  BY <1>1, <1>3 DEF NotYetBack, Away
<1>6. MarkedWhenBack'
  BY <1>1, <1>2, <1>3 DEF MarkedWhenBack, Away
<1>7. QED
  BY <1>1, <1>2, <1>4, <1>5, <1>6 DEF Good

(* waitpid returns: a process whose stop it reports is marked.             *)
LEMMA WaitReturnsGood ==
  ASSUME Typed, Good, WaitReturns
  PROVE  Good'
<1> DEFINE p == job.job_pid
<1>1. /\ pc = "waiting" /\ pc' = "cleanup" /\ handler = "idle"
      /\ proc[p] \in {"zombie", "stopping", "reaped"}
      /\ proc' = [proc EXCEPT ![p] = IF @ = "stopping" THEN "stopped" ELSE "reaped"]
      /\ UNCHANGED <<handler, job_list, current_process, last_cmd_fg, job_id_fg, job, hidden,
                     firstId>>
  BY DEF WaitReturns, list, shell, history
<1>2. View' = job_list /\ View = job_list /\ Shown' = {} /\ Shown = {p}
  BY <1>1 DEF View, Back, Shown
<1>3. p \in Pids /\ proc \in [Pids -> States] /\ job_list \in Seq(Entry)
  BY <1>1 DEF Typed, Control, ListTyped, KernelTyped
<1>4. /\ proc'[p] = IF proc[p] = "stopping" THEN "stopped" ELSE "reaped"
      /\ \A q \in Pids : q # p => proc'[q] = proc[q]
  BY <1>1, <1>3
<1>5. /\ Consistent(job_list, proc, hidden, {p}) /\ Genuine(job_list, proc, firstId)
      /\ \A x \in ToSet(job_list) : x.job_pid = p => x.isStopped
  BY <1>1, <1>2 DEF Good, MarkedWhenBack
<1>6. \A x \in ToSet(job_list) : x.job_pid \in Pids
  BY <1>3, Elements, EntryFields
<1>7. Consistent(job_list, proc', hidden, {})
  <2> HIDE DEF p
  <2>1. \A x \in ToSet(job_list) : proc'[x.job_pid] = "stopped" => x.isStopped
    BY <1>4, <1>5, <1>6 DEF Consistent
  <2>2. ASSUME NEW q \in Pids, proc'[q] \in {"stopping", "stopped"}
        PROVE  q \in hidden \/ \E x \in ToSet(job_list) : x.job_pid = q /\ x.isStopped
    <3>1. proc[q] \in {"stopping", "stopped"}
      BY <1>4, <2>2
    <3>2. QED
      BY <1>5, <3>1 DEF Consistent
  <2>3. ASSUME NEW q \in Pids, proc'[q] = "running"
        PROVE  \E x \in ToSet(job_list) : x.job_pid = q
    <3>1. proc[q] = "running" /\ q # p
      BY <1>4, <2>3
    <3>2. QED
      BY <1>5, <3>1 DEF Consistent
  <2>4. QED
    BY <1>5, <2>1, <2>2, <2>3 DEF Consistent
<1>8. Genuine(job_list, proc', firstId)
  BY <1>1, <1>4, <1>5, <1>6 DEF Genuine
<1>9. Awaited' /\ HalfTaken' /\ KilledAll' /\ MarkedWhenBack'
  BY <1>1, <1>4 DEF Awaited, HalfTaken, KilledAll, MarkedWhenBack, Back
<1>10. NotYetBack'
  BY <1>1 DEF Good, NotYetBack, CanBeStopped, Away
<1>11. QED
  BY <1>1, <1>2, <1>7, <1>8, <1>9, <1>10 DEF Good

LEMMA CleanupGood ==
  ASSUME Typed, Good, Cleanup
  PROVE  Good'
<1>1. /\ pc = "cleanup" /\ pc' = "prompt" /\ handler = "idle" /\ handler' = handler
      /\ current_process' = NoProcess
      /\ UNCHANGED <<job_list, proc, hidden, firstId>>
  BY DEF Cleanup, list, history
<1>2. View = job_list /\ Shown = {}
  BY <1>1 DEF View, Back, Shown
<1>3. Consistent(job_list, proc, hidden, {}) /\ Genuine(job_list, proc, firstId)
  BY <1>2 DEF Good
<1>4. QED
  BY <1>1, <1>3, QuietKeeps

-----------------------------------------------------------------------------
(* The handler of ctrl-Z, up to its kill, for each of the ways in which it *)
(* puts the foreground process into the list.                              *)
LEMMA CtrlZFacts ==
  ASSUME Typed, Good, CtrlZAdd, ~ raced'
  PROVE  /\ pc \in {"fg_remove", "waiting", "cleanup"} /\ CanBeStopped
         /\ target = job.job_pid /\ job.job_pid \in Pids
         /\ last_cmd_fg' = FALSE /\ handler' = "kill" /\ proc' = Reaped
         /\ UNCHANGED <<pc, job, job_id_fg, hidden>>
         /\ Shown' = Shown
         /\ Purged \in Seq(Entry) /\ Reaped \in [Pids -> States]
         /\ Awaited' /\ NotYetBack' /\ KilledAll'
<1>1. /\ handler = "add" /\ target # NoProcess /\ pc # "fg_id"
      /\ last_cmd_fg' = FALSE /\ handler' = "kill" /\ proc' = Reaped
      /\ UNCHANGED <<pc, job, job_id_fg, hidden, current_process>>
  BY DEF CtrlZAdd
<1>2. pc \in {"fg_remove", "waiting", "cleanup"}
  BY <1>1 DEF Typed, Control, ShellTyped
<1>3. target = job.job_pid /\ job.job_pid \in Pids
  BY <1>1, <1>2 DEF Typed, Control
<1>4. Purged \in Seq(Entry) /\ Reaped \in [Pids -> States]
  BY PurgedProperties, ReapedProperties DEF Typed, ListTyped, KernelTyped
<1>5. \A p \in Pids : Reaped[p] = proc[p] \/ (proc[p] = "zombie" /\ Reaped[p] = "reaped")
  BY ReapedProperties DEF Typed, KernelTyped
<1>6. Awaited'
  BY <1>1, <1>3, <1>5 DEF Good, Awaited
<1>7. NotYetBack' /\ KilledAll'
  BY <1>1, <1>2 DEF NotYetBack, KilledAll, CanBeStopped
<1>8. Shown' = Shown
  BY <1>1 DEF Shown
<1>9. QED
  BY <1>1, <1>2, <1>3, <1>4, <1>6, <1>7, <1>8 DEF CanBeStopped

LEMMA CtrlZBeforeRemoveGood ==
  ASSUME Typed, Good, CtrlZAdd, ~ raced', pc = "fg_remove"
  PROVE  Good'
<1> DEFINE p == job.job_pid
           x == JobEntry(job.job_id, p, TRUE)
<1>1. /\ CanBeStopped /\ target = p /\ p \in Pids
      /\ last_cmd_fg' = FALSE /\ handler' = "kill" /\ proc' = Reaped
      /\ UNCHANGED <<pc, job, job_id_fg, hidden>>
      /\ Shown' = Shown
      /\ Purged \in Seq(Entry) /\ Reaped \in [Pids -> States]
      /\ Awaited' /\ NotYetBack' /\ KilledAll'
  BY CtrlZFacts
<1>2. last_cmd_fg /\ job_id_fg = job.job_id /\ ~ Back
  BY <1>1 DEF Good, HalfTaken, Back
<1>3. /\ job \in ToSet(job_list) /\ proc[p] \notin {"none", "stopped"}
      /\ proc[p] = "stopping" => p \in hidden
      /\ View = job_list /\ Shown = {p}
  BY <1>2 DEF Good, HalfTaken, Awaited, View, Shown
<1>4. Consistent(job_list, proc, hidden, {p}) /\ Genuine(job_list, proc, firstId)
  BY <1>3 DEF Good
<1>5. Consistent(Purged, Reaped, hidden, {p}) /\ Genuine(Purged, Reaped, firstId)
  BY <1>4, PurgeKeeps DEF Typed
<1>6. job_list' = insertById(Purged, x) /\ firstId' = firstId
  BY <1>1, <1>2 DEF CtrlZAdd, addJobAgain, SetList
<1>7. /\ x \in Entry /\ x.job_id = job.job_id /\ x.job_pid = p /\ x.isStopped
  BY <1>1, <1>2, MakeEntry DEF Typed, ShellTyped
<1>8. /\ job_list \in Seq(Entry)
      /\ ToSet(Purged) = {y \in ToSet(job_list) : ~ Ended(proc[y.job_pid])}
  BY PurgedProperties DEF Typed, ListTyped, KernelTyped
<1>9. Reaped[p] = proc[p] \/ (proc[p] = "zombie" /\ Reaped[p] = "reaped")
  BY <1>1, ReapedProperties DEF Typed, KernelTyped
<1> HIDE DEF x
<1>10. \A y \in ToSet(Purged) : y.job_id = x.job_id <=> y.job_pid = x.job_pid
  <2>1. \A y \in ToSet(Purged) : y.job_id = job.job_id => y = job
    BY <1>3, <1>4, <1>8, IdTellsEntry DEF Consistent
  <2>2. \A y \in ToSet(Purged) : y.job_pid = p => y = job
    BY <1>3, <1>4, <1>8 DEF Consistent
  <2>3. QED
    BY <1>7, <2>1, <2>2
<1>11. firstId[p] = job.job_id
  BY <1>3, <1>4 DEF Genuine
<1>12. /\ Consistent(removeJobById(job_list', x.job_id), Reaped, hidden, {p})
       /\ Genuine(job_list', Reaped, firstId)
       /\ \A y \in ToSet(removeJobById(job_list', x.job_id)) : y.job_pid = p => y = x
       /\ (\E y \in ToSet(Purged) : y.job_pid = p) =>
            x \in ToSet(removeJobById(job_list', x.job_id))
  <2>1. Reaped[p] \notin {"none", "stopped"} /\ (Reaped[p] = "stopping" => p \in hidden)
    BY <1>3, <1>9
  <2>2. IsPublished(x, Purged, Reaped, hidden, firstId)
    BY <1>7, <1>10, <1>11, <2>1 DEF IsPublished
  <2>3. x \in Entry /\ Consistent(Purged, Reaped, hidden, {x.job_pid})
    BY <1>5, <1>7
  <2> DEFINE rest == removeJobById(insertById(Purged, x), x.job_id)
  <2>4. /\ Consistent(rest, Reaped, hidden, {x.job_pid})
        /\ Genuine(insertById(Purged, x), Reaped, firstId)
        /\ \A y \in ToSet(rest) : y.job_pid = x.job_pid => y = x
        /\ (\E y \in ToSet(Purged) : y.job_pid = x.job_pid) => x \in ToSet(rest)
    BY <1>1, <1>5, <2>2, <2>3, PutBackKeeps
  <2>5. rest = removeJobById(job_list', x.job_id)
    BY <1>6
  <2> HIDE DEF rest
  <2>6. QED
    BY <1>6, <1>7, <2>4, <2>5
<1>13. Back' /\ View' = removeJobById(job_list', x.job_id)
  BY <1>1, <1>7 DEF View, Back
<1>14. HalfTaken'
  BY <1>1, <1>2 DEF HalfTaken, CanBeStopped
<1>15. MarkedWhenBack'
  <2>1. ASSUME Live(p)'
        PROVE  \E y \in ToSet(Purged) : y.job_pid = p
    <3>1. ~ Ended(proc[p])
      BY <1>1, <1>9, <2>1 DEF Live, Ended
    <3>2. QED
      BY <1>3, <1>8, <3>1
  <2>2. \A y \in ToSet(View') : y.job_pid = p => y.isStopped
    BY <1>7, <1>12, <1>13
  <2>3. Live(p)' => \E y \in ToSet(View') : y.job_pid = p /\ y.isStopped
    BY <1>7, <1>12, <1>13, <2>1
  <2>4. QED
    BY <1>1, <2>2, <2>3 DEF MarkedWhenBack
<1>16. QED
  BY <1>1, <1>3, <1>6, <1>12, <1>13, <1>14, <1>15 DEF Good

LEMMA CtrlZOnResumedGood ==
  ASSUME Typed, Good, CtrlZAdd, ~ raced', pc # "fg_remove", last_cmd_fg
  PROVE  Good'
<1> DEFINE p == job.job_pid
           x == JobEntry(job.job_id, p, TRUE)
<1>1. /\ CanBeStopped /\ target = p /\ p \in Pids
      /\ pc \in {"waiting", "cleanup"}
      /\ last_cmd_fg' = FALSE /\ handler' = "kill" /\ proc' = Reaped
      /\ UNCHANGED <<pc, job, job_id_fg, hidden>>
      /\ Shown' = Shown
      /\ Purged \in Seq(Entry) /\ Reaped \in [Pids -> States]
      /\ Awaited' /\ NotYetBack' /\ KilledAll'
  BY CtrlZFacts
<1>2. /\ job_id_fg = job.job_id /\ job.job_id = firstId[p] /\ Away
  BY <1>1 DEF Good, NotYetBack
<1>3. View = job_list /\ proc[p] # "none"
  BY <1>1 DEF Good, Awaited, View, Back
<1>4. Consistent(job_list, proc, hidden, Shown) /\ Genuine(job_list, proc, firstId)
  BY <1>3 DEF Good
<1>5. Consistent(Purged, Reaped, hidden, Shown) /\ Genuine(Purged, Reaped, firstId)
  BY <1>4, PurgeKeeps DEF Typed
<1>6. job_list' = insertById(Purged, x) /\ firstId' = firstId
  BY <1>1, <1>2 DEF CtrlZAdd, addJobAgain, SetList
<1>7. /\ x \in Entry /\ x.job_id = job.job_id /\ x.job_pid = p /\ x.isStopped
  BY <1>1, <1>2, MakeEntry DEF Typed, ShellTyped
<1>8. \A y \in ToSet(Purged) : y.job_id # job.job_id /\ y.job_pid # p
  BY <1>2, PurgedProperties DEF Away, Typed, ListTyped, KernelTyped
<1>9. Reaped[p] # "none"
  BY <1>1, <1>3, ReapedProperties DEF Typed, KernelTyped
<1> HIDE DEF x
<1>10. /\ Consistent(job_list', Reaped, hidden, Shown)
       /\ Genuine(job_list', Reaped, firstId)
       /\ ToSet(job_list') = ToSet(Purged) \cup {x}
  <2>1. IsMissing(x, Purged, Reaped, firstId)
    BY <1>2, <1>7, <1>8, <1>9 DEF IsMissing
  <2>2. x \in Entry
    BY <1>7
  <2>3. /\ Consistent(insertById(Purged, x), Reaped, hidden, Shown)
        /\ Genuine(insertById(Purged, x), Reaped, firstId)
        /\ ToSet(insertById(Purged, x)) = ToSet(Purged) \cup {x}
    BY <1>1, <1>5, <2>1, <2>2, InsertKeeps
  <2>4. QED
    BY <1>6, <2>3
<1>11. View' = job_list'
  BY <1>1 DEF View, Back
<1>12. HalfTaken'
  BY <1>1 DEF HalfTaken, Back
<1>13. MarkedWhenBack'
  <2>1. \A y \in ToSet(View') : y.job_pid = p => y.isStopped
    BY <1>7, <1>8, <1>10, <1>11
  <2>2. \E y \in ToSet(View') : y.job_pid = p /\ y.isStopped
    BY <1>7, <1>10, <1>11
  <2>3. QED
    BY <1>1, <2>1, <2>2 DEF MarkedWhenBack
<1>14. QED
  BY <1>1, <1>6, <1>10, <1>11, <1>12, <1>13 DEF Good

LEMMA CtrlZOnNewGood ==
  ASSUME Typed, Good, CtrlZAdd, ~ raced', pc # "fg_remove", ~ last_cmd_fg
  PROVE  Good'
<1> DEFINE p == job.job_pid
           x == JobEntry(nextJobId(Purged), p, TRUE)
<1>1. /\ CanBeStopped /\ target = p /\ p \in Pids
      /\ pc \in {"waiting", "cleanup"}
      /\ last_cmd_fg' = FALSE /\ handler' = "kill" /\ proc' = Reaped
      /\ UNCHANGED <<pc, job, job_id_fg, hidden>>
      /\ Shown' = Shown
      /\ Purged \in Seq(Entry) /\ Reaped \in [Pids -> States]
      /\ Awaited' /\ NotYetBack' /\ KilledAll'
  BY CtrlZFacts
<1>2. firstId[p] = 0 /\ \A y \in ToSet(job_list) : y.job_pid # p
  BY <1>1 DEF Good, NotYetBack
<1>3. View = job_list /\ proc[p] # "none"
  BY <1>1 DEF Good, Awaited, View, Back
<1>4. Consistent(job_list, proc, hidden, Shown) /\ Genuine(job_list, proc, firstId)
  BY <1>3 DEF Good
<1>5. Consistent(Purged, Reaped, hidden, Shown) /\ Genuine(Purged, Reaped, firstId)
  BY <1>4, PurgeKeeps DEF Typed
<1>6. firstId \in [Pids -> JobIds \cup {0}]
  BY DEF Typed, KernelTyped
<1>7. /\ job_list' = Append(Purged, x)
      /\ firstId' = [firstId EXCEPT ![p] = nextJobId(Purged)]
  <2>1. addJob(p, TRUE)
    BY <1>1 DEF CtrlZAdd
  <2>2. QED
    BY <1>1, <1>2, <1>6, <2>1, FirstIdGiven DEF addJob
<1>8. /\ x \in Entry /\ x.job_pid = p /\ x.isStopped
  <2>1. nextJobId(Purged) \in JobIds
    BY <1>1, NextJobIdProperties
  <2>2. QED
    BY <1>1, <2>1, MakeEntry
<1>9. \A y \in ToSet(Purged) : y.job_pid # p
  BY <1>2, PurgedProperties DEF Typed, ListTyped, KernelTyped
<1>10. Reaped[p] # "none"
  BY <1>1, <1>3, ReapedProperties DEF Typed, KernelTyped
<1>11. /\ Consistent(job_list', Reaped, hidden, Shown)
       /\ Genuine(job_list', Reaped, firstId')
  BY <1>1, <1>5, <1>6, <1>7, <1>9, <1>10, AddKeeps
<1> HIDE DEF x
<1>12. ToSet(job_list') = ToSet(Purged) \cup {x}
  BY <1>1, <1>7, <1>8, AppendJob
<1>13. View' = job_list'
  BY <1>1 DEF View, Back
<1>14. HalfTaken'
  BY <1>1 DEF HalfTaken, Back
<1>15. MarkedWhenBack'
  <2>1. \A y \in ToSet(View') : y.job_pid = p => y.isStopped
    BY <1>8, <1>9, <1>12, <1>13
  <2>2. \E y \in ToSet(View') : y.job_pid = p /\ y.isStopped
    BY <1>8, <1>12, <1>13
  <2>3. QED
    BY <1>1, <2>1, <2>2 DEF MarkedWhenBack
<1>16. QED
  BY <1>1, <1>11, <1>13, <1>14, <1>15 DEF Good

-----------------------------------------------------------------------------
(* Steps that leave the list and main alone: a process ends, stops behind  *)
(* the back of the list, or is stopped by the handler that has marked it.  *)
LEMMA StillGood ==
  ASSUME Typed, Good,
         UNCHANGED <<job_list, pc, job, firstId, last_cmd_fg, job_id_fg>>,
         current_process' \in {current_process, NoProcess},
         \/ handler' = handler /\ target' = target
         \/ handler' = "idle" /\ current_process' = NoProcess,
         Consistent(View, proc', hidden', Shown),
         hidden \subseteq hidden',
         \A p \in Pids :
           /\ proc'[p] = "none" <=> proc[p] = "none"
           /\ proc'[p] = "stopped" => proc[p] = "stopped"
           /\ proc'[p] = "stopping" => proc[p] = "stopping" \/ p \in hidden' \/ ~ last_cmd_fg
           /\ Live(p)' => Live(p)
  PROVE  Good'
<1>1. View' = View /\ Shown' = Shown /\ (Back' <=> Back) /\ (CanBeStopped' => CanBeStopped)
  BY DEF View, Back, Shown, CanBeStopped
<1>2. \A x \in ToSet(job_list) : x.job_pid \in Pids
  BY Elements, EntryFields DEF Typed, ListTyped
<1>3. Genuine(job_list, proc', firstId)
  BY <1>2 DEF Good, Genuine
<1>4. pc \in {"fg_remove", "fg_id", "waiting", "cleanup"} => job.job_pid \in Pids
  BY DEF Typed, Control
<1>5. Awaited'
  BY <1>4 DEF Good, Awaited
<1>6. HalfTaken'
  <2>1. pc = "fg_remove" /\ last_cmd_fg => (proc'[job.job_pid] = "stopping" => job.job_pid \in hidden')
    BY <1>4 DEF Good, HalfTaken
  <2>2. QED
    BY <1>1, <2>1 DEF Good, HalfTaken, Away
<1>7. NotYetBack'
  BY <1>1 DEF Good, NotYetBack, Away
<1>8. MarkedWhenBack'
  <2>1. ASSUME handler' = "kill", current_process' # NoProcess, Live(job.job_pid)'
        PROVE  \E x \in ToSet(View) : x.job_pid = job.job_pid /\ x.isStopped
    <3>1. handler = "kill" /\ current_process # NoProcess
      BY <2>1
    <3>2. job.job_pid \in Pids
      BY <1>4, <3>1 DEF Typed, Control, ShellTyped
    <3>3. Live(job.job_pid)
      BY <2>1, <3>2
    <3>4. QED
      BY <3>1, <3>3 DEF Good, MarkedWhenBack
  <2>2. Back' \/ pc' = "waiting" =>
          \A x \in ToSet(View') : x.job_pid = job'.job_pid => x.isStopped
    BY <1>1 DEF Good, MarkedWhenBack
  <2>3. QED
    BY <1>1, <2>1, <2>2 DEF MarkedWhenBack, Live
<1>9. KilledAll'
  BY DEF Good, KilledAll
<1>10. QED
  BY <1>1, <1>3, <1>5, <1>6, <1>7, <1>8, <1>9 DEF Good

(* The list as it will be is a list.                                       *)
LEMMA ViewTyped ==
  ASSUME Typed
  PROVE  View \in Seq(Entry)
  BY RemoveJob DEF View, Typed, ListTyped

LEMMA EndsGood ==
  ASSUME Typed, Good,
         UNCHANGED <<job_list, pc, job, firstId, last_cmd_fg, job_id_fg, hidden, handler,
                     target>>,
         current_process' \in {current_process, NoProcess},
         \A p \in Pids : \/ proc'[p] = proc[p]
                         \/ /\ proc'[p] = "zombie"
                            /\ proc[p] \in {"running", "stopping", "stopped"}
  PROVE  Good'
<1>1. Consistent(View, proc', hidden, Shown)
  BY ViewTyped, EndKeeps DEF Good
<1>2. \A p \in Pids :
        /\ proc'[p] = "none" <=> proc[p] = "none"
        /\ proc'[p] = "stopped" => proc[p] = "stopped"
        /\ proc'[p] = "stopping" => proc[p] = "stopping"
        /\ Live(p)' => Live(p)
  BY DEF Live
<1>3. QED
  BY <1>1, <1>2, StillGood

LEMMA CtrlCGood ==
  ASSUME Typed, Good, CtrlC
  PROVE  Good'
<1>1. PICK ends \in SUBSET {current_process} :
        proc' = [p \in Pids |-> IF p \in ends /\ proc[p] = "running" THEN "zombie"
                                ELSE proc[p]]
  BY DEF CtrlC
<1>2. \A p \in Pids : \/ proc'[p] = proc[p]
                      \/ /\ proc'[p] = "zombie"
                         /\ proc[p] \in {"running", "stopping", "stopped"}
  BY <1>1
<1>3. /\ UNCHANGED <<job_list, pc, job, firstId, last_cmd_fg, job_id_fg, hidden, handler,
                     target>>
      /\ current_process' = NoProcess
  BY DEF CtrlC, list, history
<1>4. QED
  BY <1>2, <1>3, EndsGood

LEMMA AlarmGood ==
  ASSUME Typed, Good, Alarm
  PROVE  Good'
<1>1. \A p \in Pids : \/ proc'[p] = proc[p]
                      \/ /\ proc'[p] = "zombie"
                         /\ proc[p] \in {"running", "stopping", "stopped"}
  <2>1. CASE proc' = Signalled(proc, Receivers(current_process), "KILL")
    BY <2>1, SignalProperties DEF AfterSignal, Typed, KernelTyped
  <2>2. CASE \E ends : proc' = [p \in Pids |-> IF p \in ends /\ proc[p] = "running"
                                              THEN "zombie" ELSE proc[p]]
    BY <2>2
  <2>3. QED
    BY <2>1, <2>2 DEF Alarm
<1>2. UNCHANGED <<job_list, pc, job, firstId, last_cmd_fg, job_id_fg, hidden, handler,
                  target, current_process>>
  BY DEF Alarm, list, history
<1>3. QED
  BY <1>1, <1>2, EndsGood

LEMMA ChildEndsGood ==
  ASSUME Typed, Good, ChildEnds
  PROVE  Good'
<1>1. PICK p \in Pids : proc[p] = "running" /\ proc' = [proc EXCEPT ![p] = "zombie"]
  BY DEF ChildEnds
<1>2. \A q \in Pids : \/ proc'[q] = proc[q]
                      \/ /\ proc'[q] = "zombie"
                         /\ proc[q] \in {"running", "stopping", "stopped"}
  BY <1>1 DEF Typed, KernelTyped
<1>3. UNCHANGED <<job_list, pc, job, firstId, last_cmd_fg, job_id_fg, hidden, handler,
                  target, current_process>>
  BY DEF ChildEnds, list, shell, history
<1>4. QED
  BY <1>2, <1>3, EndsGood

LEMMA ChildStopsGood ==
  ASSUME Typed, Good, ChildStops
  PROVE  Good'
<1>1. PICK p \in Pids : /\ proc[p] = "running"
                        /\ proc' = [proc EXCEPT ![p] = "stopping"]
                        /\ hidden' = hidden \cup {p}
  BY DEF ChildStops
<1>2. UNCHANGED <<job_list, pc, job, firstId, last_cmd_fg, job_id_fg, handler,
                  target, current_process>>
  BY DEF ChildStops, list, shell
<1>3. proc'[p] = "stopping" /\ \A q \in Pids : q # p => proc'[q] = proc[q]
  BY <1>1 DEF Typed, KernelTyped
<1>4. Consistent(View, proc', hidden', Shown)
  <2>1. Consistent(View, proc, hidden, Shown)
    BY DEF Good
  <2>2. \A x \in ToSet(View) : x.job_pid \in Pids
    BY ViewTyped, Elements, EntryFields
  <2>3. \A x \in ToSet(View) : proc'[x.job_pid] = "stopped" => x.isStopped
    BY <1>3, <2>1, <2>2 DEF Consistent
  <2>4. ASSUME NEW q \in Pids, proc'[q] \in {"stopping", "stopped"}
        PROVE  q \in hidden' \/ \E x \in ToSet(View) : x.job_pid = q /\ x.isStopped
    BY <1>1, <1>3, <2>1, <2>4 DEF Consistent
  <2>5. ASSUME NEW q \in Pids, proc'[q] = "running"
        PROVE  q \in Shown \/ \E x \in ToSet(View) : x.job_pid = q
    BY <1>3, <2>1, <2>5 DEF Consistent
  <2>6. QED
    BY <2>1, <2>3, <2>4, <2>5 DEF Consistent
<1>5. \A q \in Pids :
        /\ proc'[q] = "none" <=> proc[q] = "none"
        /\ proc'[q] = "stopped" => proc[q] = "stopped"
        /\ proc'[q] = "stopping" => proc[q] = "stopping" \/ q \in hidden'
        /\ Live(q)' => Live(q)
  BY <1>1, <1>3 DEF Live
<1>6. QED
  BY <1>1, <1>2, <1>4, <1>5, StillGood

(* The handler of ctrl-Z checks and reads current_process: what it can     *)
(* stop then is what it could stop before.                                 *)
LEMMA CtrlZReadsGood ==
  ASSUME Typed, Good, CtrlZ \/ CtrlZRead
  PROVE  Good'
<1>1. UNCHANGED <<job_list, pc, job, firstId, last_cmd_fg, job_id_fg, hidden, proc>>
  BY DEF CtrlZ, CtrlZRead, list, shell, history
<1>2. handler # "kill" /\ handler' # "kill" /\ pc # "timed" /\ (CanBeStopped' => CanBeStopped)
  BY DEF CtrlZ, CtrlZRead, CanBeStopped, shell, Typed, Control
<1>3. View' = View /\ Shown' = Shown /\ (Back' <=> Back)
  BY <1>1 DEF View, Back, Shown
<1>4. Awaited' /\ HalfTaken' /\ KilledAll'
  BY <1>1, <1>2, <1>3 DEF Good, Awaited, HalfTaken, KilledAll, Away, Live
<1>5. NotYetBack'
  BY <1>1, <1>2 DEF Good, NotYetBack, Away
<1>6. MarkedWhenBack'
  BY <1>1, <1>2, <1>3 DEF Good, MarkedWhenBack
<1>7. QED
  BY <1>1, <1>3, <1>4, <1>5, <1>6 DEF Good

(* The kill of the handler of ctrl-Z.                                      *)
LEMMA CtrlZKillGood ==
  ASSUME Typed, Good, CtrlZKill
  PROVE  Good'
<1>1. /\ handler = "kill" /\ handler' = "idle" /\ current_process' = NoProcess
      /\ proc' = Signalled(proc, Receivers(current_process), "STOP")
      /\ hidden' = hidden \cup
           {p \in Pids : current_process = NoProcess /\ proc[p] = "running"}
      /\ UNCHANGED <<job_list, pc, job, firstId, last_cmd_fg, job_id_fg>>
  BY DEF CtrlZKill, list
<1>2. ~ last_cmd_fg
  BY <1>1 DEF Good, NotYetBack
<1>3. \A p \in Pids : proc'[p] = IF p \in Receivers(current_process) /\ proc[p] = "running"
                                 THEN "stopping" ELSE proc[p]
  BY <1>1, SignalProperties DEF AfterSignal, Typed, KernelTyped
<1>4. \A p \in Pids : p \in Receivers(current_process) /\ proc[p] = "running" =>
        p \in hidden' \/ \E x \in ToSet(View) : x.job_pid = p /\ x.isStopped
  <2>1. CASE current_process = NoProcess
    BY <1>1, <2>1
  <2>2. CASE current_process # NoProcess
    <3>1. current_process = job.job_pid
      BY <1>1, <2>2 DEF Typed, Control, ShellTyped
    <3>2. Receivers(current_process) = {job.job_pid}
      BY <2>2, <3>1 DEF Receivers
    <3>3. Live(job.job_pid) => \E x \in ToSet(View) : x.job_pid = job.job_pid /\ x.isStopped
      BY <1>1, <2>2 DEF Good, MarkedWhenBack
    <3>4. QED
      BY <3>2, <3>3 DEF Live
  <2>3. QED
    BY <2>1, <2>2
<1>5. Consistent(View, proc', hidden', Shown)
  <2>1. Consistent(View, proc, hidden, Shown)
    BY DEF Good
  <2>2. \A x \in ToSet(View) : x.job_pid \in Pids
    BY ViewTyped, Elements, EntryFields
  <2>3. \A x \in ToSet(View) : proc'[x.job_pid] = "stopped" => x.isStopped
    BY <1>3, <2>1, <2>2 DEF Consistent
  <2>4. ASSUME NEW q \in Pids, proc'[q] \in {"stopping", "stopped"}
        PROVE  q \in hidden' \/ \E x \in ToSet(View) : x.job_pid = q /\ x.isStopped
    <3>1. CASE proc'[q] = proc[q]
      BY <1>1, <2>1, <2>4, <3>1 DEF Consistent
    <3>2. CASE proc'[q] # proc[q]
      BY <1>3, <1>4, <3>2
    <3>3. QED
      BY <3>1, <3>2
  <2>5. ASSUME NEW q \in Pids, proc'[q] = "running"
        PROVE  q \in Shown \/ \E x \in ToSet(View) : x.job_pid = q
    BY <1>3, <2>1, <2>5 DEF Consistent
  <2>6. QED
    BY <2>1, <2>3, <2>4, <2>5 DEF Consistent
<1>6. \A q \in Pids :
        /\ proc'[q] = "none" <=> proc[q] = "none"
        /\ proc'[q] = "stopped" => proc[q] = "stopped"
        /\ Live(q)' => Live(q)
  BY <1>3 DEF Live
<1>7. hidden \subseteq hidden'
  BY <1>1
<1>8. QED
  BY <1>1, <1>2, <1>5, <1>6, <1>7, StillGood

-----------------------------------------------------------------------------
(* The invariant holds in every state.                                     *)
LEMMA SoundInit == Init => Sound
<1> SUFFICES ASSUME Init
             PROVE  Sound
  OBVIOUS
<1>1. /\ job_list = << >> /\ pc = "prompt" /\ handler = "idle"
      /\ current_process = NoProcess
      /\ proc = [p \in Pids |-> "none"] /\ firstId = [p \in Pids |-> 0]
  BY DEF Init
<1>2. ToSet(job_list) = {} /\ Increasing(job_list)
  <2>1. << >> \in Seq(Entry) /\ Len(<< >>) = 0
    OBVIOUS
  <2>2. ASSUME NEW empty \in Seq(Entry), Len(empty) = 0
        PROVE  ToSet(empty) = {}
    <3>1. ToSet(empty) = {empty[i] : i \in 1 .. 0}
      BY <2>2, Elements
    <3>2. 1 .. 0 = {}
      OBVIOUS
    <3>3. QED
      BY <3>1, <3>2
  <2>3. Increasing(<< >>)
    BY <2>1 DEF Increasing
  <2>4. QED
    BY <1>1, <2>1, <2>2, <2>3
<1>3. View = job_list
  BY <1>1 DEF View, Back
<1>4. Consistent(View, proc, hidden, Shown) /\ Genuine(job_list, proc, firstId)
  BY <1>1, <1>2, <1>3 DEF Consistent, Genuine
<1>5. Awaited /\ HalfTaken /\ NotYetBack /\ MarkedWhenBack /\ KilledAll
  BY <1>1 DEF Awaited, HalfTaken, NotYetBack, MarkedWhenBack, KilledAll, Back
<1>6. QED
  BY <1>4, <1>5, TypedInit DEF Sound, Good

LEMMA RaceStays ==
  ASSUME [Next]_vars, Typed, raced
  PROVE  raced'
<1>1. raced' = raced \/ raced' = (raced \/ pc = "fg_id" \/ target = NoProcess)
  BY DEF Next, vars, history, OtherCommand, RunInBackground, RunInForeground, Timeout,
         TimedInBackground, TimedInForeground, ForegroundById, ForegroundRemove,
         ForegroundLast, ForegroundSetId, WaitReturns, Cleanup, Background, Kill, Quit,
         CtrlZ, CtrlZRead, CtrlZAdd, CtrlZKill, CtrlC, Alarm, Tick, ChildEnds, ChildStops
<1>2. QED
  BY <1>1

LEMMA SoundNext ==
  ASSUME Sound, [Next]_vars
  PROVE  Sound'
<1>1. CASE Astray /\ raced
  BY <1>1, AstrayNext DEF Sound
<1>2. CASE Typed /\ (~ raced => Good) /\ handler' = "astray"
  BY <1>2, LeadsAstray DEF Sound
<1>3. CASE Typed /\ (~ raced => Good) /\ handler' # "astray"
  <2>1. Typed /\ Typed'
    BY <1>3, TypedNext
  <2>2. SUFFICES ASSUME ~ raced'
                 PROVE  Good'
    BY <2>1 DEF Sound
  <2>3. Good
    BY <1>3, <2>1, <2>2, RaceStays
  <2>4. CASE OtherCommand
    BY <2>1, <2>3, <2>4, OtherCommandGood
  <2>5. CASE RunInBackground
    BY <2>1, <2>3, <2>5, RunInBackgroundGood
  <2>6. CASE RunInForeground
    BY <2>1, <2>3, <2>6, RunInForegroundGood
  <2>7. CASE Timeout
    BY <2>1, <2>3, <2>7, TimeoutGood
  <2>8. CASE TimedInBackground
    BY <2>1, <2>3, <2>8, TimedInBackgroundGood
  <2>9. CASE TimedInForeground
    BY <2>1, <2>3, <2>9, TimedInForegroundGood
  <2>10. CASE ForegroundById
    BY <2>1, <2>3, <2>10, ForegroundByIdGood
  <2>11. CASE ForegroundRemove
    BY <2>1, <2>3, <2>11, ForegroundRemoveGood
  <2>12. CASE ForegroundLast
    BY <2>1, <2>3, <2>12, ForegroundLastGood
  <2>13. CASE ForegroundSetId
    BY <2>1, <2>3, <2>13, ForegroundSetIdGood
  <2>14. CASE WaitReturns
    BY <2>1, <2>3, <2>14, WaitReturnsGood
  <2>15. CASE Cleanup
    BY <2>1, <2>3, <2>15, CleanupGood
  <2>16. CASE Background
    BY <2>1, <2>3, <2>16, BackgroundGood
  <2>17. CASE Kill
    BY <2>1, <2>3, <2>17, KillGood
  <2>18. CASE Quit
    BY <2>1, <2>3, <2>18, QuitGood
  <2>19. CASE CtrlZAdd
    BY <2>1, <2>2, <2>3, <2>19, CtrlZBeforeRemoveGood, CtrlZOnResumedGood, CtrlZOnNewGood
  <2>20. CASE CtrlZKill
    BY <2>1, <2>3, <2>20, CtrlZKillGood
  <2>21. CASE CtrlC
    BY <2>1, <2>3, <2>21, CtrlCGood
  <2>22. CASE Alarm
    BY <2>1, <2>3, <2>22, AlarmGood
  <2>23. CASE ChildEnds
    BY <2>1, <2>3, <2>23, ChildEndsGood
  <2>24. CASE ChildStops
    BY <2>1, <2>3, <2>24, ChildStopsGood
  <2>25. CASE Tick \/ UNCHANGED vars
    <3>1. UNCHANGED <<job_list, pc, job, firstId, last_cmd_fg, job_id_fg, hidden, handler,
                      target, current_process, proc>>
      BY <2>25 DEF Tick, vars, list, shell, history
    <3>2. QED
      BY <2>1, <2>3, <3>1, EndsGood
  <2>26. CASE CtrlZ \/ CtrlZRead
    BY <2>1, <2>3, <2>26, CtrlZReadsGood
  <2>27. QED
    BY <2>4, <2>5, <2>6, <2>7, <2>8, <2>9, <2>10, <2>11, <2>12, <2>13, <2>14, <2>15, <2>16,
       <2>17, <2>18, <2>19, <2>20, <2>21, <2>22, <2>23, <2>24, <2>25, <2>26 DEF Next
<1>4. QED
  BY <1>1, <1>2, <1>3 DEF Sound

LEMMA AlwaysSound == Spec => []Sound
  BY SoundInit, SoundNext, PTL DEF Spec

-----------------------------------------------------------------------------
(* The list keeps its types and the order of its identifiers, although fg  *)
(* takes entries out of the middle and ctrl-Z puts them back at any time,  *)
(* up to a race: ctrl-Z between lines 574 and 575 (the order is lost), or  *)
(* ctrl-C inside ctrlZHandler before it reads its process (an entry of no  *)
(* process, whose identifier is typed all the same).                       *)
THEOREM JobsStayInOrder == Spec => []ListInOrder
<1>1. Sound => ListInOrder
  <2> SUFFICES ASSUME Sound
               PROVE  ListInOrder
    OBVIOUS
  <2>1. TypeOK
    BY TypeParts DEF Sound
  <2>2. ASSUME pc # "fg_remove", ~ raced
        PROVE  \A i, j \in DOMAIN job_list : i < j => job_list[i].job_id < job_list[j].job_id
    <3>1. job_list \in Seq(Entry) /\ Increasing(job_list)
      BY <2>2 DEF Sound, Typed, ListTyped, Good, View, Back, Consistent
    <3>2. QED
      BY <3>1, Elements DEF Increasing
  <2>3. QED
    BY <2>1, <2>2 DEF ListInOrder, JobIdsIncreasing
<1>2. QED
  BY <1>1, AlwaysSound, PTL

(* A job has the identifier its process got first, however often it goes   *)
(* to the foreground and comes back.                                       *)
THEOREM IdsAreKept == Spec => []JobKeepsItsId
<1>1. Sound => JobKeepsItsId
  BY DEF Sound, Good, Genuine, JobKeepsItsId, JobIdNeverChanges
<1>2. QED
  BY <1>1, AlwaysSound, PTL

(* In a list that names no process twice, there are as many processes as   *)
(* entries.                                                                *)
LEMMA ListedOnce ==
  ASSUME NEW jobs \in Seq(Entry), Increasing(jobs),
         \A x, y \in ToSet(jobs) : x.job_pid = y.job_pid => x = y
  PROVE  Cardinality(ListedPids(jobs)) = Len(jobs)
<1> DEFINE l == Len(jobs)
           pids == ListedPids(jobs)
           f == [i \in 1 .. l |-> jobs[i].job_pid]
<1>1. /\ l \in Nat /\ ToSet(jobs) = {jobs[i] : i \in 1 .. l}
      /\ \A i \in 1 .. l : jobs[i] \in ToSet(jobs) /\ jobs[i].job_id \in Int
  BY Elements, EntryFields
<1>2. pids = {jobs[i].job_pid : i \in 1 .. l}
  BY <1>1 DEF ListedPids
<1>3. f \in [1 .. l -> pids]
  BY <1>2
<1>4. \A i, j \in 1 .. l : f[i] = f[j] => i = j
  <2>1. SUFFICES ASSUME NEW i \in 1 .. l, NEW j \in 1 .. l, f[i] = f[j]
                 PROVE  i = j
    OBVIOUS
  <2>2. jobs[i] = jobs[j]
    BY <1>1, <2>1
  <2>3. ~ (i < j) /\ ~ (j < i)
    BY <1>1, <2>2 DEF Increasing
  <2> HIDE DEF f, pids
  <2>4. QED
    BY <1>1, <2>3
<1>5. \A p \in pids : \E i \in 1 .. l : f[i] = p
  BY <1>2
<1> HIDE DEF f, pids
<1>6. f \in Bijection(1 .. l, pids)
  BY <1>3, <1>4, <1>5 DEF Bijection, Injection, Surjection, IsInjective
<1>7. ExistsBijection(1 .. l, pids)
  BY <1>6 DEF ExistsBijection
<1>8. QED
  BY <1>1, <1>7, FS_CountingElements DEF pids

(* A process that the keyboard can stop or kill is not in the list, and    *)
(* the list names no process twice.                                        *)
THEOREM OneHandOnAProcess == Spec => []ForegroundIsNotListed
<1>1. Sound => ForegroundIsNotListed
  <2> SUFFICES ASSUME Sound, pc # "fg_remove", handler # "kill", ~ raced
               PROVE  /\ current_process \notin ListedPids(job_list)
                      /\ Cardinality(ListedPids(job_list)) = Len(job_list)
    BY DEF ForegroundIsNotListed
  <2>1. Typed /\ Good /\ job_list \in Seq(Entry)
    BY DEF Sound, Typed, ListTyped
  <2>2. Consistent(job_list, proc, hidden, Shown)
    BY <2>1 DEF Good, View, Back
  <2>3. Cardinality(ListedPids(job_list)) = Len(job_list)
    BY <2>1, <2>2, ListedOnce DEF Consistent
  <2>4. ASSUME NEW x \in ToSet(job_list)
        PROVE  x.job_pid # current_process
    <3>1. x.job_pid \in Pids /\ x.job_pid # NoProcess
      BY <2>1, Elements, EntryFields
    <3>2. CASE current_process = NoProcess
      BY <3>1, <3>2
    <3>3. CASE current_process # NoProcess
      <4>1. pc \in {"fg_id", "waiting", "cleanup"} /\ current_process = job.job_pid
        BY <2>1, <3>3 DEF Typed, Control, ShellTyped
      <4>2. CanBeStopped
        BY <2>1, <3>3 DEF CanBeStopped, Typed, Control
      <4>3. x.job_pid # job.job_pid
        BY <2>1, <4>1, <4>2 DEF Good, HalfTaken, NotYetBack, Away
      <4>4. QED
        BY <4>1, <4>3
    <3>4. QED
      BY <3>2, <3>3
  <2>5. QED
    BY <2>3, <2>4 DEF ListedPids
<1>2. QED
  BY <1>1, AlwaysSound, PTL

(* At the prompt every live child is in the list, and quit kill leaves     *)
(* none alive, except those that were stopped behind the back of the list. *)
THEOREM JobsAreKept == Spec => []NoJobLost
<1>1. Sound => NoJobLost
  <2> SUFFICES ASSUME Sound, ~ raced
               PROVE  /\ pc = "prompt" =>
                           \A p \in Pids : Live(p) => p \in ListedPids(job_list) \cup hidden
                      /\ pc = "killed" => \A p \in Pids : Live(p) => p \in hidden
    BY DEF NoJobLost
  <2>1. Good
    BY DEF Sound
  <2>2. ASSUME pc = "prompt", NEW p \in Pids, Live(p)
        PROVE  p \in ListedPids(job_list) \cup hidden
    <3>1. View = job_list /\ Shown = {}
      BY <2>2 DEF View, Back, Shown
    <3>2. Consistent(job_list, proc, hidden, {})
      BY <2>1, <3>1 DEF Good
    <3>3. p \in hidden \/ \E x \in ToSet(job_list) : x.job_pid = p
      BY <2>2, <3>2 DEF Consistent, Live
    <3>4. QED
      BY <3>3 DEF ListedPids
  <2>3. QED
    BY <2>1, <2>2 DEF Good, KilledAll
<1>2. QED
  BY <1>1, AlwaysSound, PTL

(* Main never waits for a process whose stop has been reported already, so *)
(* fg has resumed each stopped job it waits for.                           *)
THEOREM WaitsEnd == Spec => []WaitCanEnd
<1>1. Sound => WaitCanEnd
  BY DEF Sound, Good, Awaited, WaitCanEnd
<1>2. QED
  BY <1>1, AlwaysSound, PTL
=============================================================================
