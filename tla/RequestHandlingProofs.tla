------------------------ MODULE RequestHandlingProofs ------------------------
(***************************************************************************)
(* Theorems about the workers of the web server at work on their requests, *)
(* for any number of workers, descriptors and connections.                 *)
(***************************************************************************)
EXTENDS RequestHandling, FiniteSetTheorems, SequenceLemmas

Counts  == [total : Nat, static : Nat, dynamic : Nat]
Headers == [by : Threads, count : Counts]
Parts   == Headers \cup {"content"}
Conns   == [asks : Requests, got : Seq(Parts)]
Places  == {"idle", "handle", "content", "fork", "wait", "close"}

Typed ==
  /\ RequestAssumption
  /\ conns \in Seq(Conns)
  /\ sock \in [Descriptors -> 0 .. Len(conns)]
  /\ waiting \in Seq(Descriptors)
  /\ worker \in [Threads -> [at : Places, fd : Descriptors \cup {0}]]
  /\ counts \in [Threads -> Counts]
  /\ children \subseteq [parent : Threads, out : Nat, holds : SUBSET Nat, wrote : BOOLEAN]

Busy(w) == worker[w].at # "idle"

(* Each open descriptor is in the queue, or a worker's.                    *)
Owned ==
  /\ \A fd, other \in Descriptors : sock[fd] # 0 /\ sock[fd] = sock[other] => fd = other
  /\ \A i \in 1 .. Len(waiting) : sock[waiting[i]] # 0
  /\ \A i, j \in 1 .. Len(waiting) : waiting[i] = waiting[j] => i = j
  /\ \A w \in Threads : Busy(w) =>
       /\ worker[w].fd \in Descriptors /\ sock[worker[w].fd] # 0
       /\ \A i \in 1 .. Len(waiting) : waiting[i] # worker[w].fd
       /\ \A v \in Threads : Busy(v) /\ worker[v].fd = worker[w].fd => v = w
  /\ \A fd \in Descriptors : sock[fd] # 0 =>
       \/ \E i \in 1 .. Len(waiting) : waiting[i] = fd
       \/ \E w \in Threads : Busy(w) /\ worker[w].fd = fd

Writing(w) == \E child \in children : child.parent = w /\ ~ child.wrote

(* The connection of a worker, and how much of its answer it has.          *)
At(w) == sock[worker[w].fd]

Due(w) ==
  IF worker[w].at = "handle" THEN 0
  ELSE IF worker[w].at \in {"content", "fork"} THEN 1
  ELSE IF worker[w].at = "wait" /\ Writing(w) THEN 1 ELSE 2

(* A child's parent waits for it, and for no other.                        *)
Waited ==
  /\ \A child \in children :
       /\ worker[child.parent].at = "wait"
       /\ child.out = At(child.parent)
  /\ \A child, other \in children : child.parent = other.parent => child = other

(* Connections that nobody owns have their whole answer.                   *)
Progress ==
  /\ \A c \in 1 .. Len(conns) : c \notin Open => Len(conns[c].got) = 2
  /\ \A i \in 1 .. Len(waiting) : Len(conns[sock[waiting[i]]].got) = 0
  /\ \A w \in Threads : Busy(w) => Len(conns[At(w)].got) = Due(w)
  /\ \A c \in 1 .. Len(conns) :
       /\ Len(conns[c].got) >= 1 => conns[c].got[1] \in Headers
       /\ Len(conns[c].got) >= 2 => conns[c].got[2] = "content"

AnsweredBy(w) == {d \in Answered : Header(d).by = w}

Good(S, cgi) == {d \in S : ~ Refused(conns[d].asks) /\ conns[d].asks.cgi = cgi}

CountOf(S) == [total   |-> Cardinality(S),
               static  |-> Cardinality(Good(S, FALSE)),
               dynamic |-> Cardinality(Good(S, TRUE))]

(* A thread's counts are those of its answers, the last header's included. *)
CountsKept ==
  /\ \A w \in Threads : counts[w] = CountOf(AnsweredBy(w))
  /\ \A c \in Answered : /\ Header(c).count.total <= counts[Header(c).by].total
                         /\ Header(c).count = CountOf(UpTo(c))

Inv == Typed /\ Owned /\ Waited /\ Progress /\ CountsKept

-----------------------------------------------------------------------------
(* What sending a part of an answer does, and moving a worker on.          *)
LEMMA Sent ==
  ASSUME conns \in Seq(Conns), NEW c \in 1 .. Len(conns), NEW part \in Parts, Send(c, part)
  PROVE  /\ conns' \in Seq(Conns) /\ Len(conns') = Len(conns)
         /\ \A d \in 1 .. Len(conns) :
              /\ conns'[d].asks = conns[d].asks
              /\ d # c => conns'[d].got = conns[d].got
         /\ Len(conns'[c].got) = Len(conns[c].got) + 1
         /\ \A i \in 1 .. Len(conns[c].got) : conns'[c].got[i] = conns[c].got[i]
         /\ conns'[c].got[Len(conns[c].got) + 1] = part
<1>1. PICK got, longer : got = conns[c].got /\ longer = Append(got, part)
  OBVIOUS
<1>2. conns[c] \in Conns /\ got \in Seq(Parts)
  <2>1. PICK S : S = Conns
    OBVIOUS
  <2>2. conns[c] \in S
    BY <2>1
  <2>3. QED
    BY <1>1, <2>1, <2>2 DEF Conns
<1>3. /\ longer \in Seq(Parts) /\ Len(longer) = Len(got) + 1
      /\ \A i \in 1 .. Len(got) : longer[i] = got[i]
      /\ longer[Len(got) + 1] = part
  BY <1>1, <1>2, AppendProperties
<1>4. conns' = [conns EXCEPT ![c] = [conns[c] EXCEPT !.got = longer]]
  BY <1>1 DEF Send
<1>5. [conns[c] EXCEPT !.got = longer] \in Conns
  BY <1>2, <1>3 DEF Conns
<1>6. PICK rest, n : rest = [conns[c] EXCEPT !.got = longer] /\ n = Len(conns)
  OBVIOUS
<1>7. n \in Nat /\ conns \in [1 .. n -> Conns] /\ c \in 1 .. n
  BY <1>6
<1>8. conns' \in [1 .. n -> Conns]
  BY <1>4, <1>5, <1>6, <1>7
<1>9. conns' \in Seq(Conns) /\ Len(conns') = n
  <2>1. PICK s, S : s = conns' /\ S = Conns
    OBVIOUS
  <2>2. s \in [1 .. n -> S]
    BY <1>8, <2>1
  <2>3. s \in Seq(S) /\ Len(s) = n
    BY <1>7, <2>2
  <2>4. QED
    BY <2>1, <2>3
<1>10. conns'[c].got = longer /\ conns'[c].asks = conns[c].asks
  BY <1>2, <1>4, <1>7 DEF Conns
<1>11. \A d \in 1 .. n : d # c => conns'[d] = conns[d]
  BY <1>4, <1>7
<1>12. QED
  BY <1>1, <1>3, <1>6, <1>9, <1>10, <1>11

LEMMA Moved ==
  ASSUME worker \in [Threads -> [at : Places, fd : Descriptors \cup {0}]],
         NEW w \in Threads, NEW place \in Places, GoTo(w, place)
  PROVE  /\ worker' \in [Threads -> [at : Places, fd : Descriptors \cup {0}]]
         /\ \A v \in Threads : /\ worker'[v].fd = worker[v].fd
                               /\ worker'[v].at = IF v = w THEN place ELSE worker[v].at
<1>1. worker[w] \in [at : Places, fd : Descriptors \cup {0}]
  OBVIOUS
<1>2. [worker[w] EXCEPT !.at = place] \in [at : Places, fd : Descriptors \cup {0}]
  BY <1>1
<1>3. QED
  BY <1>1, <1>2 DEF GoTo

LEMMA OwnedKept ==
  ASSUME Owned, sock' = sock, waiting' = waiting,
         \A v \in Threads : (Busy(v)' <=> Busy(v)) /\ worker'[v].fd = worker[v].fd
  PROVE  Owned'
BY DEF Owned

(* Headers and requests that stay as they are keep the counts true.        *)
LEMMA CountsSame ==
  ASSUME CountsKept, counts' = counts, Answered' = Answered,
         \A c \in Answered : Header(c)' = Header(c) /\ conns'[c].asks = conns[c].asks
  PROVE  CountsKept'
<1>1. ASSUME NEW w \in Threads
      PROVE  AnsweredBy(w)' = AnsweredBy(w) /\ AnsweredBy(w) \subseteq Answered
  BY DEF AnsweredBy
<1>2. ASSUME NEW c \in Answered
      PROVE  UpTo(c)' = UpTo(c) /\ UpTo(c) \subseteq Answered
  BY DEF UpTo
<1>3. ASSUME NEW S, S \subseteq Answered
      PROVE  CountOf(S)' = CountOf(S)
  <2>1. \A d \in S : conns'[d].asks = conns[d].asks
    BY <1>3
  <2>2. \A cgi : Good(S, cgi)' = Good(S, cgi)
    BY <2>1 DEF Good
  <2>3. QED
    BY <2>2 DEF CountOf
<1>4. ASSUME NEW w \in Threads
      PROVE  CountOf(AnsweredBy(w))' = CountOf(AnsweredBy(w))
  <2>1. PICK S : S = AnsweredBy(w)
    OBVIOUS
  <2>2. S = AnsweredBy(w)' /\ CountOf(S)' = CountOf(S)
    BY <1>1, <1>3, <2>1
  <2>3. QED
    BY <2>1, <2>2 DEF CountOf, Good
<1>5. ASSUME NEW c \in Answered
      PROVE  CountOf(UpTo(c))' = CountOf(UpTo(c))
  <2>1. PICK S : S = UpTo(c)
    OBVIOUS
  <2>2. S = UpTo(c)' /\ CountOf(S)' = CountOf(S)
    BY <1>2, <1>3, <2>1
  <2>3. QED
    BY <2>1, <2>2 DEF CountOf, Good
<1>6. QED
  BY <1>4, <1>5 DEF CountsKept

(* One more answer adds one to the counts of its kind.                     *)
LEMMA OneMore ==
  ASSUME RequestAssumption, NEW S, IsFiniteSet(S), NEW c, c \notin S, conns[c].asks \in Requests
  PROVE  CountOf(S \cup {c}) = Counted(CountOf(S), conns[c].asks)
<1>1. PICK r : r = conns[c].asks /\ r.cgi \in BOOLEAN
  BY DEF RequestAssumption
<1>2. Cardinality(S \cup {c}) = Cardinality(S) + 1 /\ Cardinality(S) \in Nat
  BY FS_AddElement, FS_CardinalityType
<1>3. ASSUME NEW cgi \in BOOLEAN
      PROVE  Cardinality(Good(S \cup {c}, cgi)) =
               Cardinality(Good(S, cgi)) + (IF ~ Refused(r) /\ r.cgi = cgi THEN 1 ELSE 0)
  <2>1. Good(S, cgi) \subseteq S /\ c \notin Good(S, cgi)
    BY DEF Good
  <2>2. IsFiniteSet(Good(S, cgi)) /\ Cardinality(Good(S, cgi)) \in Nat
    BY <2>1, FS_Subset, FS_CardinalityType
  <2>3. CASE ~ Refused(r) /\ r.cgi = cgi
    <3>1. Good(S \cup {c}, cgi) = Good(S, cgi) \cup {c}
      BY <1>1, <2>3 DEF Good
    <3>2. Cardinality(Good(S, cgi) \cup {c}) = Cardinality(Good(S, cgi)) + 1
      BY <2>1, <2>2, FS_AddElement
    <3>3. QED
      BY <2>3, <3>1, <3>2
  <2>4. CASE ~ (~ Refused(r) /\ r.cgi = cgi)
    <3>1. Good(S \cup {c}, cgi) = Good(S, cgi)
      BY <1>1, <2>4 DEF Good
    <3>2. QED
      BY <2>2, <2>4, <3>1
  <2>5. QED
    BY <2>3, <2>4
<1>4. /\ (r.cgi = FALSE) <=> ~ r.cgi
      /\ (r.cgi = TRUE) <=> r.cgi
  BY <1>1
<1>5. /\ Cardinality(Good(S \cup {c}, FALSE)) =
           Cardinality(Good(S, FALSE)) + (IF ~ Refused(r) /\ ~ r.cgi THEN 1 ELSE 0)
      /\ Cardinality(Good(S \cup {c}, TRUE)) =
           Cardinality(Good(S, TRUE)) + (IF ~ Refused(r) /\ r.cgi THEN 1 ELSE 0)
  BY <1>3, <1>4
<1>6. QED
  BY <1>1, <1>2, <1>5 DEF CountOf, Counted

(* Handle: the header of a new answer.                                     *)
LEMMA HeaderSent ==
  ASSUME Typed, CountsKept, NEW w \in Threads, NEW c \in 1 .. Len(conns), c \notin Answered,
         counts' = [counts EXCEPT ![w] = Counted(@, conns[c].asks)],
         Answered' = Answered \cup {c},
         Header(c)' = [by |-> w, count |-> counts'[w]],
         \A d \in Answered : Header(d)' = Header(d) /\ Header(d) \in Headers,
         \A d \in 1 .. Len(conns) : conns'[d].asks = conns[d].asks
  PROVE  CountsKept'
<1>1. /\ IsFiniteSet(Answered) /\ Answered \subseteq 1 .. Len(conns)
      /\ \A d \in 1 .. Len(conns) : conns[d].asks \in Requests
  <2>1. Len(conns) \in Nat
    BY DEF Typed
  <2>2. Answered \subseteq 1 .. Len(conns)
    BY <2>1 DEF Typed, Answered
  <2>3. IsFiniteSet(1 .. Len(conns))
    <3>1. PICK n : n = Len(conns)
      OBVIOUS
    <3>2. n \in Nat /\ 1 \in Int
      BY <2>1, <3>1
    <3>3. IsFiniteSet(1 .. n)
      BY <3>2, FS_Interval
    <3>4. QED
      BY <3>1, <3>3
  <2>4. \A d \in 1 .. Len(conns) : conns[d] \in Conns
    BY DEF Typed
  <2>5. QED
    BY <2>2, <2>3, <2>4, FS_Subset DEF Conns
<1>2. \A v \in Threads : IsFiniteSet(AnsweredBy(v)) /\ AnsweredBy(v) \subseteq Answered
  BY <1>1, FS_Subset DEF AnsweredBy
<1>3. ASSUME NEW S, S \subseteq 1 .. Len(conns)
      PROVE  CountOf(S)' = CountOf(S)
  <2>1. \A d \in S : conns'[d].asks = conns[d].asks
    BY <1>3
  <2>2. \A cgi : Good(S, cgi)' = Good(S, cgi)
    BY <2>1 DEF Good
  <2>3. QED
    BY <2>2 DEF CountOf
<1>4. /\ counts[w] \in Counts /\ \A v \in Threads : counts'[v] = IF v = w THEN counts'[w] ELSE counts[v]
      /\ counts'[w] = Counted(counts[w], conns[c].asks)
      /\ counts[w].total \in Nat /\ counts'[w].total = counts[w].total + 1
  BY DEF Typed, Counts, Counted
<1>5. AnsweredBy(w)' = AnsweredBy(w) \cup {c}
  BY DEF AnsweredBy
<1>6. \A v \in Threads \ {w} : AnsweredBy(v)' = AnsweredBy(v)
  BY DEF AnsweredBy
<1>7. CountOf(AnsweredBy(w) \cup {c}) = counts'[w]
  <2>1. PICK S : S = AnsweredBy(w)
    OBVIOUS
  <2>2. IsFiniteSet(S) /\ c \notin S /\ conns[c].asks \in Requests /\ RequestAssumption
    BY <1>1, <1>2, <2>1 DEF Typed
  <2>3. CountOf(S \cup {c}) = Counted(CountOf(S), conns[c].asks)
    BY <2>2, OneMore
  <2>4. QED
    BY <1>4, <2>1, <2>3 DEF CountsKept
<1>8. ASSUME NEW v \in Threads
      PROVE  counts'[v] = CountOf(AnsweredBy(v))'
  <2>1. PICK S : S = AnsweredBy(v)'
    OBVIOUS
  <2>2. S \subseteq 1 .. Len(conns)
    <3>1. CASE v = w
      BY <1>1, <1>2, <1>5, <2>1, <3>1
    <3>2. CASE v # w
      BY <1>1, <1>2, <1>6, <2>1, <3>2
    <3>3. QED
      BY <3>1, <3>2
  <2>3. CountOf(AnsweredBy(v))' = CountOf(S)'
    BY <2>1 DEF CountOf, Good
  <2>4. CountOf(S) = counts'[v]
    <3>1. CASE v = w
      BY <1>5, <1>7, <2>1, <3>1
    <3>2. CASE v # w
      BY <1>4, <1>6, <2>1, <3>2 DEF CountsKept
    <3>3. QED
      BY <3>1, <3>2
  <2>5. QED
    BY <1>3, <2>2, <2>3, <2>4
<1>9. \A d \in Answered : /\ Header(d).by \in Threads /\ Header(d).count.total \in Nat
                          /\ Header(d).count.total <= counts[Header(d).by].total
  BY DEF CountsKept, Headers, Counts
<1>10. Header(c)'.by = w /\ Header(c)'.count = counts'[w]
  OBVIOUS
<1>11. UpTo(c)' = AnsweredBy(w) \cup {c}
  <2>1. \A d \in Answered : Header(d).by = w => Header(d)'.count.total <= counts'[w].total
    BY <1>4, <1>9
  <2>2. \A d : d \in UpTo(c)' <=>
               /\ d \in Answered \cup {c} /\ Header(d)'.by = w
               /\ Header(d)'.count.total <= counts'[w].total
    BY <1>10 DEF UpTo
  <2>3. c \in UpTo(c)'
    BY <1>4, <1>10, <2>2
  <2>4. \A d \in Answered : d \in UpTo(c)' <=> Header(d).by = w
    BY <2>1, <2>2
  <2>5. \A d : d \in UpTo(c)' => d \in Answered \cup {c}
    BY <2>2
  <2>6. QED
    BY <2>3, <2>4, <2>5 DEF AnsweredBy
<1>12. ASSUME NEW e \in Answered
       PROVE  UpTo(e)' = UpTo(e)
  <2>1. \A d : d \in UpTo(e)' <=>
               /\ d \in Answered \cup {c} /\ Header(d)'.by = Header(e).by
               /\ Header(d)'.count.total <= Header(e).count.total
    BY DEF UpTo
  <2>2. c \notin UpTo(e)'
    <3>1. SUFFICES ASSUME Header(e).by = w, counts'[w].total <= Header(e).count.total
                   PROVE  FALSE
      BY <1>10, <2>1
    <3>2. Header(e).count.total <= counts[w].total
      BY <1>9, <3>1
    <3>3. QED
      BY <1>4, <1>9, <3>1, <3>2
  <2>3. \A d \in Answered : d \in UpTo(e)' <=> d \in UpTo(e)
    BY <2>1 DEF UpTo
  <2>4. UpTo(e) \subseteq Answered
    BY DEF UpTo
  <2>5. QED
    BY <2>1, <2>2, <2>3, <2>4
<1>13. ASSUME NEW e \in Answered'
       PROVE  Header(e)'.count = CountOf(UpTo(e))'
  <2>1. PICK S : S = UpTo(e)'
    OBVIOUS
  <2>2. CountOf(UpTo(e))' = CountOf(S)'
    BY <2>1 DEF CountOf, Good
  <2>3. CASE e = c
    <3>1. S \subseteq 1 .. Len(conns) /\ CountOf(S) = counts'[w]
      BY <1>1, <1>2, <1>7, <1>11, <2>1, <2>3
    <3>2. QED
      BY <1>3, <1>10, <2>2, <2>3, <3>1
  <2>4. CASE e # c
    <3>1. e \in Answered /\ S = UpTo(e)
      BY <1>12, <2>1, <2>4
    <3>2. S \subseteq 1 .. Len(conns)
      BY <1>1, <3>1 DEF UpTo
    <3>3. CountOf(S) = Header(e).count
      BY <3>1 DEF CountsKept
    <3>4. QED
      BY <1>3, <2>2, <3>1, <3>2, <3>3
  <2>5. QED
    BY <2>3, <2>4
<1>14. ASSUME NEW e \in Answered'
       PROVE  Header(e)'.count.total <= counts'[Header(e)'.by].total
  <2>1. CASE e = c
    BY <1>4, <1>10, <2>1
  <2>2. CASE e # c
    <3>1. e \in Answered /\ Header(e)' = Header(e)
      BY <2>2
    <3>2. CASE Header(e).by = w
      BY <1>4, <1>9, <3>1, <3>2
    <3>3. CASE Header(e).by # w
      BY <1>4, <1>9, <3>1, <3>3
    <3>4. QED
      BY <3>2, <3>3
  <2>3. QED
    BY <2>1, <2>2
<1>15. QED
  BY <1>8, <1>13, <1>14 DEF CountsKept

-----------------------------------------------------------------------------
(* Each connection is in one place.                                        *)
LEMMA InOnePlace ==
  ASSUME Typed, Owned
  PROVE  /\ Len(conns) \in Nat
         /\ \A w \in Threads : Busy(w) =>
              /\ At(w) \in 1 .. Len(conns) /\ worker[w].fd \in Descriptors
              /\ \A v \in Threads : Busy(v) /\ At(v) = At(w) => v = w
              /\ \A i \in 1 .. Len(waiting) : sock[waiting[i]] # At(w)
         /\ \A i \in 1 .. Len(waiting) :
              waiting[i] \in Descriptors /\ sock[waiting[i]] \in 1 .. Len(conns)
         /\ Open \subseteq 1 .. Len(conns)
<1>1. Len(conns) \in Nat /\ Len(waiting) \in Nat
  BY DEF Typed
<1>2. \A fd \in Descriptors : sock[fd] \in 0 .. Len(conns) /\ (sock[fd] # 0 => sock[fd] \in 1 .. Len(conns))
  BY <1>1 DEF Typed
<1>3. \A i \in 1 .. Len(waiting) : waiting[i] \in Descriptors
  BY DEF Typed
<1>4. \A i \in 1 .. Len(waiting) : sock[waiting[i]] \in 1 .. Len(conns)
  BY <1>2, <1>3 DEF Owned
<1>5. ASSUME NEW w \in Threads, Busy(w)
      PROVE  /\ At(w) \in 1 .. Len(conns) /\ worker[w].fd \in Descriptors
             /\ \A v \in Threads : Busy(v) /\ At(v) = At(w) => v = w
             /\ \A i \in 1 .. Len(waiting) : sock[waiting[i]] # At(w)
  <2>1. worker[w].fd \in Descriptors /\ At(w) # 0
    BY <1>5 DEF Owned, At
  <2>2. At(w) \in 1 .. Len(conns)
    BY <1>2, <2>1 DEF At
  <2>3. ASSUME NEW v \in Threads, Busy(v), At(v) = At(w)
        PROVE  v = w
    BY <1>5, <2>1, <2>3 DEF Owned, At
  <2>4. \A i \in 1 .. Len(waiting) : sock[waiting[i]] # At(w)
    BY <1>3, <1>5, <2>1 DEF Owned, At
  <2>5. QED
    BY <2>1, <2>2, <2>3, <2>4
<1>6. Open \subseteq 1 .. Len(conns)
  BY <1>2 DEF Open
<1>7. QED
  BY <1>1, <1>3, <1>4, <1>5, <1>6

(* A step of worker w, or of its child, on its own connection.             *)
LEMMA ProgressAfter ==
  ASSUME Typed, Owned, Progress, NEW w \in Threads, Busy(w),
         sock' = sock, waiting' = waiting, worker'[w].fd = worker[w].fd,
         \A v \in Threads \ {w} : worker'[v] = worker[v] /\ (Writing(v)' <=> Writing(v)),
         Len(conns') = Len(conns),
         \A d \in 1 .. Len(conns) : d # At(w) => conns'[d].got = conns[d].got,
         Len(conns'[At(w)].got) = Due(w)',
         Len(conns'[At(w)].got) >= 1 => conns'[At(w)].got[1] \in Headers,
         Len(conns'[At(w)].got) >= 2 => conns'[At(w)].got[2] = "content"
  PROVE  Progress'
<1>1. At(w) \in 1 .. Len(conns) /\ At(w)' = At(w) /\ At(w) \in Open
  <2>1. At(w) \in 1 .. Len(conns) /\ worker[w].fd \in Descriptors /\ Len(conns) \in Nat
    BY InOnePlace
  <2>2. QED
    BY <2>1 DEF At, Open
<1>2. Open' = Open
  BY DEF Open
<1>3. \A i \in 1 .. Len(waiting) :
        sock[waiting[i]] \in 1 .. Len(conns) /\ sock[waiting[i]] # At(w)
  BY InOnePlace
<1>4. ASSUME NEW v \in Threads \ {w}
      PROVE  /\ Busy(v)' <=> Busy(v)
             /\ At(v)' = At(v) /\ Due(v)' = Due(v)
             /\ Busy(v) => At(v) \in 1 .. Len(conns) /\ At(v) # At(w)
  <2>1. (Busy(v)' <=> Busy(v)) /\ At(v)' = At(v) /\ Due(v)' = Due(v)
    BY DEF Busy, At, Due
  <2>2. Busy(v) => At(v) \in 1 .. Len(conns) /\ At(v) # At(w)
    BY InOnePlace
  <2>3. QED
    BY <2>1, <2>2
<1>5. \A c \in 1 .. Len(conns) : c \notin Open => Len(conns'[c].got) = 2
  BY <1>1 DEF Progress
<1>6. \A i \in 1 .. Len(waiting) : Len(conns'[sock[waiting[i]]].got) = 0
  BY <1>3 DEF Progress
<1>7. \A v \in Threads : Busy(v)' => Len(conns'[At(v)'].got) = Due(v)'
  BY <1>1, <1>4 DEF Progress
<1>8. \A c \in 1 .. Len(conns) :
        /\ Len(conns'[c].got) >= 1 => conns'[c].got[1] \in Headers
        /\ Len(conns'[c].got) >= 2 => conns'[c].got[2] = "content"
  BY DEF Progress
<1>9. QED
  BY <1>2, <1>5, <1>6, <1>7, <1>8 DEF Progress

LEMMA AnsweredIs ==
  ASSUME Typed
  PROVE  /\ Answered = {c \in 1 .. Len(conns) : Len(conns[c].got) # 0}
         /\ Len(conns) \in Nat
         /\ \A c \in 1 .. Len(conns) : /\ conns[c].asks \in Requests
                                       /\ conns[c].got \in Seq(Parts)
                                       /\ Len(conns[c].got) \in Nat
<1>1. Len(conns) \in Nat /\ DOMAIN conns = 1 .. Len(conns)
  BY DEF Typed
<1>2. ASSUME NEW c \in 1 .. Len(conns)
      PROVE  /\ conns[c].asks \in Requests /\ conns[c].got \in Seq(Parts)
             /\ Len(conns[c].got) \in Nat
             /\ conns[c].got # << >> <=> Len(conns[c].got) # 0
  <2>1. PICK S, P : S = Conns /\ P = Parts
    OBVIOUS
  <2>2. conns[c] \in S
    BY <2>1 DEF Typed
  <2>3. conns[c].asks \in Requests /\ conns[c].got \in Seq(P)
    BY <2>1, <2>2 DEF Conns
  <2>4. QED
    BY <2>1, <2>3, EmptySeq
<1>3. QED
  BY <1>1, <1>2 DEF Answered

LEMMA AnsweredAre == Typed => Answered = {c \in 1 .. Len(conns) : Len(conns[c].got) # 0}
  BY AnsweredIs

LEMMA AnsweredNext == (Typed => Answered = {c \in 1 .. Len(conns) : Len(conns[c].got) # 0})'
  BY AnsweredAre, PTL

(* A content sent after the header changes no count.                       *)
LEMMA CountsAfter ==
  ASSUME Typed, Typed', CountsKept, counts' = counts,
         Len(conns') >= Len(conns),
         \A d \in 1 .. Len(conns) : /\ conns'[d].asks = conns[d].asks
                                    /\ Len(conns'[d].got) = 0 <=> Len(conns[d].got) = 0
                                    /\ Len(conns[d].got) # 0 => conns'[d].got[1] = conns[d].got[1],
         \A d \in 1 .. Len(conns') : d > Len(conns) => Len(conns'[d].got) = 0
  PROVE  CountsKept'
<1>1. Len(conns) \in Nat /\ Len(conns') \in Nat
  BY DEF Typed
<1>2. Answered' = Answered
  <2>1. \A d : d \in Answered <=> d \in 1 .. Len(conns) /\ Len(conns[d].got) # 0
    BY AnsweredAre
  <2>2. \A d : d \in Answered' <=> d \in 1 .. Len(conns') /\ Len(conns'[d].got) # 0
    BY AnsweredNext
  <2>3. \A d : d \in 1 .. Len(conns) <=> d \in 1 .. Len(conns') /\ ~ (d > Len(conns))
    BY <1>1
  <2>4. \A d : d \in Answered' <=> d \in Answered
    BY <2>1, <2>2, <2>3
  <2>5. QED
    BY <2>4
<1>3. \A c \in Answered : c \in 1 .. Len(conns) /\ Len(conns[c].got) # 0
  BY AnsweredAre
<1>4. \A c \in Answered : Header(c)' = Header(c) /\ conns'[c].asks = conns[c].asks
  BY <1>3 DEF Header
<1>5. QED
  BY <1>2, <1>4, CountsSame

-----------------------------------------------------------------------------
(* The steps of a worker that keep its descriptor.                         *)
LEMMA HandleStep ==
  ASSUME Inv, NEW w \in Threads, Handle(w)
  PROVE  Inv'
<1>0. Typed /\ Owned /\ Waited /\ Progress /\ CountsKept
  BY DEF Inv
<1>1. PICK c, r, part, place :
        /\ c = At(w) /\ r = conns[c].asks
        /\ part = [by |-> w, count |-> counts'[w]]
        /\ place = IF r.cgi /\ ~ Refused(r) THEN "fork" ELSE "content"
  OBVIOUS
<1>2. /\ worker[w].at = "handle" /\ counts' = [counts EXCEPT ![w] = Counted(@, r)]
      /\ Send(c, part) /\ GoTo(w, place)
      /\ sock' = sock /\ waiting' = waiting /\ children' = children
  BY <1>1 DEF Handle, At
<1>3. Busy(w) /\ c \in 1 .. Len(conns) /\ Len(conns[c].got) = 0 /\ Len(conns) \in Nat
  BY <1>0, <1>1, <1>2, InOnePlace DEF Busy, Progress, Due
<1>4. place \in {"fork", "content"} /\ place \in Places
  BY <1>1 DEF Places
<1>5. counts' \in [Threads -> Counts] /\ part \in Headers
  <2>1. counts[w] \in Counts /\ counts \in [Threads -> Counts]
    BY <1>0 DEF Typed
  <2>2. Counted(counts[w], r) \in Counts
    BY <2>1 DEF Counts, Counted
  <2>3. counts' \in [Threads -> Counts] /\ counts'[w] \in Counts
    BY <1>2, <2>1, <2>2
  <2>4. QED
    BY <1>1, <2>3 DEF Headers
<1>6. /\ conns' \in Seq(Conns) /\ Len(conns') = Len(conns)
      /\ \A d \in 1 .. Len(conns) : /\ conns'[d].asks = conns[d].asks
                                    /\ d # c => conns'[d].got = conns[d].got
      /\ Len(conns'[c].got) = 1 /\ conns'[c].got[1] = part
  <2>1. conns \in Seq(Conns) /\ part \in Parts
    BY <1>0, <1>5 DEF Typed, Parts
  <2>2. /\ conns' \in Seq(Conns) /\ Len(conns') = Len(conns)
        /\ \A d \in 1 .. Len(conns) :
             /\ conns'[d].asks = conns[d].asks
             /\ d # c => conns'[d].got = conns[d].got
        /\ Len(conns'[c].got) = Len(conns[c].got) + 1
        /\ \A i \in 1 .. Len(conns[c].got) : conns'[c].got[i] = conns[c].got[i]
        /\ conns'[c].got[Len(conns[c].got) + 1] = part
    BY <1>2, <1>3, <2>1, Sent
  <2>3. QED
    BY <1>3, <2>2
<1>7. /\ worker' \in [Threads -> [at : Places, fd : Descriptors \cup {0}]]
      /\ \A v \in Threads : /\ worker'[v].fd = worker[v].fd
                            /\ worker'[v].at = IF v = w THEN place ELSE worker[v].at
  BY <1>0, <1>2, <1>4, Moved DEF Typed
<1>8. Typed'
  BY <1>0, <1>2, <1>5, <1>6, <1>7 DEF Typed, RequestAssumption
<1>9. Owned'
  BY <1>0, <1>2, <1>4, <1>7, OwnedKept DEF Busy
<1>10. Waited'
  <2>1. \A child \in children : child.parent \in Threads
    BY <1>0 DEF Typed
  <2>2. QED
    BY <1>0, <1>2, <1>7, <2>1 DEF Waited, At
<1>11. Progress'
  <2>1. \A v \in Threads \ {w} : worker'[v] = worker[v] /\ (Writing(v)' <=> Writing(v))
    BY <1>2 DEF GoTo, Writing
  <2>2. Due(w)' = 1
    BY <1>4, <1>7 DEF Due
  <2>3. /\ Len(conns'[At(w)].got) = Due(w)'
        /\ Len(conns'[At(w)].got) >= 1 => conns'[At(w)].got[1] \in Headers
        /\ Len(conns'[At(w)].got) >= 2 => conns'[At(w)].got[2] = "content"
    BY <1>1, <1>5, <1>6, <2>2
  <2>4. \A d \in 1 .. Len(conns) : d # At(w) => conns'[d].got = conns[d].got
    BY <1>1, <1>6
  <2>5. QED
    BY <1>0, <1>2, <1>3, <1>6, <1>7, <2>1, <2>3, <2>4, ProgressAfter
<1>12. CountsKept'
  <2>1. \A d : d \in Answered <=> d \in 1 .. Len(conns) /\ Len(conns[d].got) # 0
    BY <1>0, AnsweredAre
  <2>2. \A d : d \in Answered' <=> d \in 1 .. Len(conns') /\ Len(conns'[d].got) # 0
    BY <1>8, AnsweredNext
  <2>3. Answered' = Answered \cup {c} /\ c \notin Answered
    BY <1>3, <1>6, <2>1, <2>2
  <2>4. Header(c)' = [by |-> w, count |-> counts'[w]]
    BY <1>1, <1>6 DEF Header
  <2>5. \A d \in Answered : Header(d)' = Header(d) /\ Header(d) \in Headers
    <3>1. ASSUME NEW d \in Answered
          PROVE  d \in 1 .. Len(conns) /\ d # c /\ Len(conns[d].got) >= 1
      BY <1>0, <2>1, <2>3, AnsweredIs
    <3>2. QED
      BY <1>0, <1>6, <3>1 DEF Header, Progress
  <2>6. QED
    BY <1>0, <1>1, <1>2, <1>3, <1>6, <2>3, <2>4, <2>5, HeaderSent
<1>13. QED
  BY <1>8, <1>9, <1>10, <1>11, <1>12 DEF Inv

LEMMA ContentStep ==
  ASSUME Inv, NEW w \in Threads, Content(w)
  PROVE  Inv'
<1>0. Typed /\ Owned /\ Waited /\ Progress /\ CountsKept
  BY DEF Inv
<1>1. PICK c : c = At(w)
  OBVIOUS
<1>2. /\ worker[w].at = "content" /\ Send(c, "content") /\ GoTo(w, "close")
      /\ sock' = sock /\ waiting' = waiting /\ children' = children /\ counts' = counts
  BY <1>1 DEF Content, At
<1>3. Busy(w) /\ c \in 1 .. Len(conns) /\ Len(conns[c].got) = 1 /\ Len(conns) \in Nat
  BY <1>0, <1>1, <1>2, InOnePlace DEF Busy, Progress, Due
<1>4. /\ conns' \in Seq(Conns) /\ Len(conns') = Len(conns)
      /\ \A d \in 1 .. Len(conns) : /\ conns'[d].asks = conns[d].asks
                                    /\ d # c => conns'[d].got = conns[d].got
      /\ Len(conns'[c].got) = 2 /\ conns'[c].got[1] = conns[c].got[1]
      /\ conns'[c].got[2] = "content"
  <2>1. conns \in Seq(Conns) /\ "content" \in Parts
    BY <1>0 DEF Typed, Parts
  <2>2. /\ conns' \in Seq(Conns) /\ Len(conns') = Len(conns)
        /\ \A d \in 1 .. Len(conns) :
             /\ conns'[d].asks = conns[d].asks
             /\ d # c => conns'[d].got = conns[d].got
        /\ Len(conns'[c].got) = Len(conns[c].got) + 1
        /\ \A i \in 1 .. Len(conns[c].got) : conns'[c].got[i] = conns[c].got[i]
        /\ conns'[c].got[Len(conns[c].got) + 1] = "content"
    BY <1>2, <1>3, <2>1, Sent
  <2>3. QED
    BY <1>3, <2>2
<1>5. /\ worker' \in [Threads -> [at : Places, fd : Descriptors \cup {0}]]
      /\ \A v \in Threads : /\ worker'[v].fd = worker[v].fd
                            /\ worker'[v].at = IF v = w THEN "close" ELSE worker[v].at
  BY <1>0, <1>2, Moved DEF Typed, Places
<1>6. Typed'
  BY <1>0, <1>2, <1>4, <1>5 DEF Typed, RequestAssumption
<1>7. Owned'
  BY <1>0, <1>2, <1>5, OwnedKept DEF Busy
<1>8. Waited'
  <2>1. \A child \in children : child.parent \in Threads
    BY <1>0 DEF Typed
  <2>2. QED
    BY <1>0, <1>2, <1>5, <2>1 DEF Waited, At
<1>9. Progress'
  <2>1. \A v \in Threads \ {w} : worker'[v] = worker[v] /\ (Writing(v)' <=> Writing(v))
    BY <1>2 DEF GoTo, Writing
  <2>2. Due(w)' = 2 /\ conns[c].got[1] \in Headers
    BY <1>0, <1>3, <1>5 DEF Due, Progress
  <2>3. /\ Len(conns'[At(w)].got) = Due(w)'
        /\ Len(conns'[At(w)].got) >= 1 => conns'[At(w)].got[1] \in Headers
        /\ Len(conns'[At(w)].got) >= 2 => conns'[At(w)].got[2] = "content"
    BY <1>1, <1>4, <2>2
  <2>4. \A d \in 1 .. Len(conns) : d # At(w) => conns'[d].got = conns[d].got
    BY <1>1, <1>4
  <2>5. QED
    BY <1>0, <1>2, <1>3, <1>4, <1>5, <2>1, <2>3, <2>4, ProgressAfter
<1>10. CountsKept'
  <2>1. \A d \in 1 .. Len(conns) : Len(conns[d].got) \in Nat
    BY <1>0, AnsweredIs
  <2>2. \A d \in 1 .. Len(conns) :
          /\ Len(conns'[d].got) = 0 <=> Len(conns[d].got) = 0
          /\ Len(conns[d].got) # 0 => conns'[d].got[1] = conns[d].got[1]
    BY <1>3, <1>4
  <2>3. QED
    BY <1>0, <1>2, <1>3, <1>4, <1>6, <2>2, CountsAfter
<1>11. QED
  BY <1>6, <1>7, <1>8, <1>9, <1>10 DEF Inv

LEMMA ForkStep ==
  ASSUME Inv, NEW w \in Threads, ServeDynamic(w)
  PROVE  Inv'
<1>0. Typed /\ Owned /\ Waited /\ Progress /\ CountsKept
  BY DEF Inv
<1>1. PICK new : new = Child(w)
  OBVIOUS
<1>2. /\ worker[w].at = "fork" /\ GoTo(w, "wait") /\ children' = children \cup {new}
      /\ conns' = conns /\ sock' = sock /\ waiting' = waiting /\ counts' = counts
  BY <1>1 DEF ServeDynamic
<1>3. Busy(w) /\ At(w) \in 1 .. Len(conns) /\ Len(conns[At(w)].got) = 1 /\ Len(conns) \in Nat
  BY <1>0, <1>2, InOnePlace DEF Busy, Progress, Due
<1>4. new.parent = w /\ new.out = At(w) /\ ~ new.wrote
  BY <1>1 DEF Child, At
<1>5. new \in [parent : Threads, out : Nat, holds : SUBSET Nat, wrote : BOOLEAN]
  <2>1. Open \subseteq Nat /\ At(w) \in Nat
    BY <1>0, <1>3, InOnePlace
  <2>2. QED
    BY <1>1, <2>1 DEF Child, At
<1>6. /\ worker' \in [Threads -> [at : Places, fd : Descriptors \cup {0}]]
      /\ \A v \in Threads : /\ worker'[v].fd = worker[v].fd
                            /\ worker'[v].at = IF v = w THEN "wait" ELSE worker[v].at
  BY <1>0, <1>2, Moved DEF Typed, Places
<1>7. Typed'
  BY <1>0, <1>2, <1>5, <1>6 DEF Typed, RequestAssumption
<1>8. Owned'
  BY <1>0, <1>2, <1>6, OwnedKept DEF Busy
<1>9. \A child \in children : child.parent \in Threads /\ child.parent # w
  BY <1>0, <1>2 DEF Typed, Waited
<1>10. Waited'
  BY <1>0, <1>2, <1>4, <1>6, <1>9 DEF Waited, At
<1>11. Progress'
  <2>1. \A v \in Threads \ {w} : worker'[v] = worker[v] /\ (Writing(v)' <=> Writing(v))
    BY <1>2, <1>4 DEF GoTo, Writing
  <2>2. Due(w)' = 1
    BY <1>2, <1>4, <1>6 DEF Due, Writing
  <2>3. conns[At(w)].got[1] \in Headers
    BY <1>0, <1>3 DEF Progress
  <2>4. /\ Len(conns'[At(w)].got) = Due(w)'
        /\ Len(conns'[At(w)].got) >= 1 => conns'[At(w)].got[1] \in Headers
        /\ Len(conns'[At(w)].got) >= 2 => conns'[At(w)].got[2] = "content"
    BY <1>2, <1>3, <2>2, <2>3
  <2>5. QED
    BY <1>0, <1>2, <1>3, <1>6, <2>1, <2>4, ProgressAfter
<1>12. CountsKept'
  BY <1>0, <1>2, CountsSame DEF Answered, Header
<1>13. QED
  BY <1>7, <1>8, <1>10, <1>11, <1>12 DEF Inv

LEMMA WaitStep ==
  ASSUME Inv, NEW w \in Threads, WaitForChild(w)
  PROVE  Inv'
<1>0. Typed /\ Owned /\ Waited /\ Progress /\ CountsKept
  BY DEF Inv
<1>1. /\ worker[w].at = "wait" /\ GoTo(w, "close") /\ children' = children
      /\ \A child \in children : child.parent # w
      /\ conns' = conns /\ sock' = sock /\ waiting' = waiting /\ counts' = counts
  BY DEF WaitForChild
<1>2. Busy(w) /\ At(w) \in 1 .. Len(conns) /\ Len(conns[At(w)].got) = 2 /\ Len(conns) \in Nat
  BY <1>0, <1>1, InOnePlace DEF Busy, Progress, Due, Writing
<1>3. /\ worker' \in [Threads -> [at : Places, fd : Descriptors \cup {0}]]
      /\ \A v \in Threads : /\ worker'[v].fd = worker[v].fd
                            /\ worker'[v].at = IF v = w THEN "close" ELSE worker[v].at
  BY <1>0, <1>1, Moved DEF Typed, Places
<1>4. Typed'
  BY <1>0, <1>1, <1>3 DEF Typed, RequestAssumption
<1>5. Owned'
  BY <1>0, <1>1, <1>3, OwnedKept DEF Busy
<1>6. Waited'
  <2>1. \A child \in children : child.parent \in Threads
    BY <1>0 DEF Typed
  <2>2. QED
    BY <1>0, <1>1, <1>3, <2>1 DEF Waited, At
<1>7. Progress'
  <2>1. \A v \in Threads \ {w} : worker'[v] = worker[v] /\ (Writing(v)' <=> Writing(v))
    BY <1>1 DEF GoTo, Writing
  <2>2. Due(w)' = 2
    BY <1>3 DEF Due
  <2>3. conns[At(w)].got[1] \in Headers /\ conns[At(w)].got[2] = "content"
    BY <1>0, <1>2 DEF Progress
  <2>4. /\ Len(conns'[At(w)].got) = Due(w)'
        /\ Len(conns'[At(w)].got) >= 1 => conns'[At(w)].got[1] \in Headers
        /\ Len(conns'[At(w)].got) >= 2 => conns'[At(w)].got[2] = "content"
    BY <1>1, <1>2, <2>2, <2>3
  <2>5. QED
    BY <1>0, <1>1, <1>2, <1>3, <2>1, <2>4, ProgressAfter
<1>8. CountsKept'
  BY <1>0, <1>1, CountsSame DEF Answered, Header
<1>9. QED
  BY <1>4, <1>5, <1>6, <1>7, <1>8 DEF Inv

(* The steps of a CGI child.                                               *)
LEMMA ChildWritesStep ==
  ASSUME Inv, NEW child \in children, ChildWrites(child)
  PROVE  Inv'
<1>0. Typed /\ Owned /\ Waited /\ Progress /\ CountsKept
  BY DEF Inv
<1>1. PICK w, c, new : /\ w = child.parent /\ c = child.out
                       /\ new = [child EXCEPT !.wrote = TRUE]
  OBVIOUS
<1>2. /\ ~ child.wrote /\ children' = (children \ {child}) \cup {new}
      /\ Send(c, "content")
      /\ sock' = sock /\ waiting' = waiting /\ worker' = worker /\ counts' = counts
  BY <1>1 DEF ChildWrites
<1>3. /\ child \in [parent : Threads, out : Nat, holds : SUBSET Nat, wrote : BOOLEAN]
      /\ w \in Threads /\ worker[w].at = "wait" /\ c = At(w)
  BY <1>0, <1>1 DEF Typed, Waited
<1>4. /\ new \in [parent : Threads, out : Nat, holds : SUBSET Nat, wrote : BOOLEAN]
      /\ new.parent = w /\ new.out = c /\ new.wrote
  BY <1>1, <1>3
<1>5. Writing(w)
  BY <1>1, <1>2 DEF Writing
<1>6. Busy(w) /\ c \in 1 .. Len(conns) /\ Len(conns[c].got) = 1 /\ Len(conns) \in Nat
  BY <1>0, <1>3, <1>5, InOnePlace DEF Busy, Progress, Due
<1>7. /\ conns' \in Seq(Conns) /\ Len(conns') = Len(conns)
      /\ \A d \in 1 .. Len(conns) : /\ conns'[d].asks = conns[d].asks
                                    /\ d # c => conns'[d].got = conns[d].got
      /\ Len(conns'[c].got) = 2 /\ conns'[c].got[1] = conns[c].got[1]
      /\ conns'[c].got[2] = "content"
  <2>1. conns \in Seq(Conns) /\ "content" \in Parts
    BY <1>0 DEF Typed, Parts
  <2>2. /\ conns' \in Seq(Conns) /\ Len(conns') = Len(conns)
        /\ \A d \in 1 .. Len(conns) :
             /\ conns'[d].asks = conns[d].asks
             /\ d # c => conns'[d].got = conns[d].got
        /\ Len(conns'[c].got) = Len(conns[c].got) + 1
        /\ \A i \in 1 .. Len(conns[c].got) : conns'[c].got[i] = conns[c].got[i]
        /\ conns'[c].got[Len(conns[c].got) + 1] = "content"
    BY <1>2, <1>6, <2>1, Sent
  <2>3. QED
    BY <1>6, <2>2
<1>8. Typed'
  BY <1>0, <1>2, <1>4, <1>7 DEF Typed, RequestAssumption
<1>9. Owned'
  BY <1>0, <1>2, OwnedKept DEF Busy
<1>10. \A other \in children : other.parent = w => other = child
  BY <1>0, <1>1 DEF Waited
<1>11. Waited'
  BY <1>0, <1>2, <1>3, <1>4, <1>10 DEF Waited, At
<1>12. Progress'
  <2>1. ~ Writing(w)'
    BY <1>2, <1>4, <1>10 DEF Writing
  <2>2. ASSUME NEW v \in Threads \ {w}
        PROVE  worker'[v] = worker[v] /\ (Writing(v)' <=> Writing(v))
    BY <1>1, <1>2, <1>4 DEF Writing
  <2>3. Due(w)' = 2 /\ conns[c].got[1] \in Headers
    BY <1>0, <1>2, <1>3, <1>6, <2>1 DEF Due, Progress
  <2>4. /\ Len(conns'[At(w)].got) = Due(w)'
        /\ Len(conns'[At(w)].got) >= 1 => conns'[At(w)].got[1] \in Headers
        /\ Len(conns'[At(w)].got) >= 2 => conns'[At(w)].got[2] = "content"
    BY <1>3, <1>7, <2>3
  <2>5. /\ \A d \in 1 .. Len(conns) : d # At(w) => conns'[d].got = conns[d].got
        /\ worker'[w].fd = worker[w].fd
    BY <1>2, <1>3, <1>7
  <2>6. QED
    BY <1>0, <1>2, <1>3, <1>6, <1>7, <2>2, <2>4, <2>5, ProgressAfter
<1>13. CountsKept'
  <2>1. \A d \in 1 .. Len(conns) : Len(conns[d].got) \in Nat
    BY <1>0, AnsweredIs
  <2>2. \A d \in 1 .. Len(conns) :
          /\ Len(conns'[d].got) = 0 <=> Len(conns[d].got) = 0
          /\ Len(conns[d].got) # 0 => conns'[d].got[1] = conns[d].got[1]
    BY <1>6, <1>7
  <2>3. QED
    BY <1>0, <1>2, <1>6, <1>7, <1>8, <2>2, CountsAfter
<1>14. QED
  BY <1>8, <1>9, <1>11, <1>12, <1>13 DEF Inv

LEMMA ChildEndsStep ==
  ASSUME Inv, NEW child \in children, ChildEnds(child)
  PROVE  Inv'
<1>0. Typed /\ Owned /\ Waited /\ Progress /\ CountsKept
  BY DEF Inv
<1>1. /\ child.wrote /\ children' = children \ {child}
      /\ conns' = conns /\ sock' = sock /\ waiting' = waiting
      /\ worker' = worker /\ counts' = counts
  BY DEF ChildEnds
<1>2. Typed'
  BY <1>0, <1>1 DEF Typed, RequestAssumption
<1>3. Owned'
  BY <1>0, <1>1, OwnedKept DEF Busy
<1>4. Waited'
  BY <1>0, <1>1 DEF Waited, At
<1>5. \A v \in Threads : Due(v)' = Due(v)
  <2>1. \A v \in Threads : Writing(v)' <=> Writing(v)
    BY <1>1 DEF Writing
  <2>2. QED
    BY <1>1, <2>1 DEF Due
<1>6. Progress'
  BY <1>0, <1>1, <1>5 DEF Progress, Open, Busy, At
<1>7. CountsKept'
  BY <1>0, <1>1, CountsSame DEF Answered, Header
<1>8. QED
  BY <1>2, <1>3, <1>4, <1>6, <1>7 DEF Inv

(* The steps that move descriptors.                                        *)
LEMMA TakeStep ==
  ASSUME Inv, NEW w \in Threads, Take(w)
  PROVE  Inv'
<1>0. Typed /\ Owned /\ Waited /\ Progress /\ CountsKept
  BY DEF Inv
<1>1. PICK fd, rest, n : fd = Head(waiting) /\ rest = Tail(waiting) /\ n = Len(waiting)
  OBVIOUS
<1>2. /\ worker[w].at = "idle" /\ waiting # << >> /\ waiting' = rest
      /\ worker' = [worker EXCEPT ![w] = [at |-> "handle", fd |-> fd]]
      /\ conns' = conns /\ sock' = sock /\ counts' = counts /\ children' = children
  BY <1>1 DEF Take
<1>3. /\ n \in Nat /\ n # 0 /\ 1 \in 1 .. n /\ fd = waiting[1] /\ fd \in Descriptors
      /\ rest \in Seq(Descriptors) /\ Len(rest) = n - 1
      /\ \A i \in 1 .. n - 1 : rest[i] = waiting[i + 1]
  <2>1. waiting \in Seq(Descriptors)
    BY <1>0 DEF Typed
  <2>2. n \in Nat /\ n # 0
    BY <1>1, <1>2, <2>1, EmptySeq
  <2>3. /\ rest \in Seq(Descriptors) /\ Len(rest) = n - 1
        /\ \A i \in 1 .. n - 1 : rest[i] = waiting[i + 1]
    BY <1>1, <1>2, <2>1, HeadTailProperties
  <2>4. fd = waiting[1] /\ 1 \in 1 .. n
    BY <1>1, <2>1, <2>2
  <2>5. fd \in Descriptors
    BY <1>1, <2>1, <2>4
  <2>6. QED
    BY <2>2, <2>3, <2>4, <2>5
<1>4. /\ worker \in [Threads -> [at : Places, fd : Descriptors \cup {0}]]
      /\ worker'[w].at = "handle" /\ worker'[w].fd = fd
      /\ \A v \in Threads \ {w} : worker'[v] = worker[v]
  BY <1>0, <1>2 DEF Typed
<1>5. worker' \in [Threads -> [at : Places, fd : Descriptors \cup {0}]]
  BY <1>2, <1>3, <1>4 DEF Places
<1>6. Typed'
  BY <1>0, <1>2, <1>3, <1>5 DEF Typed, RequestAssumption
<1>7. /\ \A i \in 1 .. n - 1 : i + 1 \in 1 .. n /\ i + 1 # 1
      /\ \A i \in 1 .. n : i # 1 => i - 1 \in 1 .. n - 1 /\ (i - 1) + 1 = i
      /\ \A i, j \in 1 .. n - 1 : i + 1 = j + 1 => i = j
  BY <1>3
<1>8. /\ ~ Busy(w) /\ Busy(w)'
      /\ \A v \in Threads \ {w} : Busy(v)' <=> Busy(v)
  BY <1>2, <1>4 DEF Busy
<1>9. Owned'
  <2>1. \A i \in 1 .. n - 1 : sock[rest[i]] # 0
    BY <1>0, <1>1, <1>3, <1>7 DEF Owned
  <2>2. \A i, j \in 1 .. n - 1 : rest[i] = rest[j] => i = j
    BY <1>0, <1>1, <1>3, <1>7 DEF Owned
  <2>3. /\ sock[fd] # 0
        /\ \A i \in 1 .. n - 1 : rest[i] # fd
        /\ \A v \in Threads : Busy(v) => worker[v].fd # fd
    BY <1>0, <1>1, <1>3, <1>7 DEF Owned
  <2>4. ASSUME NEW v \in Threads, Busy(v)'
        PROVE  /\ worker'[v].fd \in Descriptors /\ sock[worker'[v].fd] # 0
               /\ \A i \in 1 .. n - 1 : rest[i] # worker'[v].fd
               /\ \A u \in Threads : Busy(u)' /\ worker'[u].fd = worker'[v].fd => u = v
    <3>1. CASE v = w
      <4>1. \A u \in Threads \ {w} : Busy(u)' => worker'[u].fd # fd
        BY <1>4, <1>8, <2>3
      <4>2. QED
        BY <1>3, <1>4, <2>3, <3>1, <4>1
    <3>2. CASE v # w
      <4>1. Busy(v) /\ worker'[v] = worker[v] /\ worker[v].fd # fd
        BY <1>4, <1>8, <2>3, <2>4, <3>2
      <4>2. /\ worker[v].fd \in Descriptors /\ sock[worker[v].fd] # 0
            /\ \A i \in 1 .. n : waiting[i] # worker[v].fd
            /\ \A u \in Threads : Busy(u) /\ worker[u].fd = worker[v].fd => u = v
        BY <1>0, <1>1, <4>1 DEF Owned
      <4>3. \A i \in 1 .. n - 1 : rest[i] # worker[v].fd
        BY <1>3, <1>7, <4>2
      <4>4. \A u \in Threads : Busy(u)' /\ worker'[u].fd = worker[v].fd => u = v
        BY <1>4, <1>8, <4>1, <4>2
      <4>5. QED
        BY <4>1, <4>2, <4>3, <4>4
    <3>3. QED
      BY <3>1, <3>2
  <2>5. ASSUME NEW other \in Descriptors, sock[other] # 0
        PROVE  \/ \E i \in 1 .. n - 1 : rest[i] = other
               \/ \E v \in Threads : Busy(v)' /\ worker'[v].fd = other
    <3>1. CASE \E i \in 1 .. n : waiting[i] = other
      <4>1. PICK i \in 1 .. n : waiting[i] = other
        BY <3>1
      <4>2. CASE i = 1
        BY <1>3, <1>4, <1>8, <4>1, <4>2
      <4>3. CASE i # 1
        <5>1. rest[i - 1] = other /\ i - 1 \in 1 .. n - 1
          BY <1>3, <1>7, <4>1, <4>3
        <5>2. QED
          BY <5>1
      <4>4. QED
        BY <4>2, <4>3
    <3>2. CASE \E v \in Threads : Busy(v) /\ worker[v].fd = other
      BY <1>4, <1>8, <3>2
    <3>3. QED
      BY <1>0, <1>1, <2>5, <3>1, <3>2 DEF Owned
  <2>6. \A a, b \in Descriptors : sock[a] # 0 /\ sock[a] = sock[b] => a = b
    BY <1>0 DEF Owned
  <2>7. Len(waiting') = n - 1 /\ waiting' = rest /\ sock' = sock
    BY <1>2, <1>3
  <2>8. \A v \in Threads : Busy(v)' =>
          /\ worker'[v].fd \in Descriptors /\ sock'[worker'[v].fd] # 0
          /\ \A i \in 1 .. Len(waiting') : waiting'[i] # worker'[v].fd
          /\ \A u \in Threads : Busy(u)' /\ worker'[u].fd = worker'[v].fd => u = v
    BY <2>4, <2>7
  <2>9. \A other \in Descriptors : sock'[other] # 0 =>
          \/ \E i \in 1 .. Len(waiting') : waiting'[i] = other
          \/ \E v \in Threads : Busy(v)' /\ worker'[v].fd = other
    BY <2>5, <2>7
  <2>10. /\ \A i \in 1 .. Len(waiting') : sock'[waiting'[i]] # 0
         /\ \A i, j \in 1 .. Len(waiting') : waiting'[i] = waiting'[j] => i = j
         /\ \A a, b \in Descriptors : sock'[a] # 0 /\ sock'[a] = sock'[b] => a = b
    BY <2>1, <2>2, <2>6, <2>7
  <2>11. QED
    BY <2>8, <2>9, <2>10 DEF Owned
<1>10. Waited'
  <2>1. \A child \in children : child.parent \in Threads /\ child.parent # w
    BY <1>0, <1>2 DEF Typed, Waited
  <2>2. QED
    BY <1>0, <1>2, <1>4, <2>1 DEF Waited, At
<1>11. Progress'
  <2>1. Open' = Open
    BY <1>2 DEF Open
  <2>2. \A i \in 1 .. n : Len(conns[sock[waiting[i]]].got) = 0
    BY <1>0, <1>1 DEF Progress
  <2>3. \A i \in 1 .. n - 1 : Len(conns[sock[rest[i]]].got) = 0
    BY <1>3, <1>7, <2>2
  <2>4. At(w)' = sock[fd] /\ Due(w)' = 0 /\ Len(conns[sock[fd]].got) = 0
    BY <1>2, <1>3, <1>4, <2>2 DEF At, Due
  <2>5. ASSUME NEW v \in Threads \ {w}
        PROVE  At(v)' = At(v) /\ Due(v)' = Due(v)
    <3>1. Writing(v)' <=> Writing(v)
      BY <1>2 DEF Writing
    <3>2. QED
      BY <1>2, <1>4, <3>1 DEF At, Due
  <2>6. \A v \in Threads : Busy(v)' => Len(conns[At(v)'].got) = Due(v)'
    BY <1>0, <1>8, <2>4, <2>5 DEF Progress
  <2>7. QED
    BY <1>0, <1>2, <1>3, <2>1, <2>3, <2>6 DEF Progress
<1>12. CountsKept'
  BY <1>0, <1>2, CountsSame DEF Answered, Header
<1>13. QED
  BY <1>6, <1>9, <1>10, <1>11, <1>12 DEF Inv

LEMMA CloseStep ==
  ASSUME Inv, NEW w \in Threads, CloseSocket(w)
  PROVE  Inv'
<1>0. Typed /\ Owned /\ Waited /\ Progress /\ CountsKept
  BY DEF Inv
<1>1. PICK fd, c : fd = worker[w].fd /\ c = At(w)
  OBVIOUS
<1>2. /\ worker[w].at = "close" /\ GoTo(w, "idle") /\ sock' = [sock EXCEPT ![fd] = 0]
      /\ conns' = conns /\ waiting' = waiting /\ counts' = counts /\ children' = children
  BY <1>1 DEF CloseSocket
<1>3. Busy(w) /\ c \in 1 .. Len(conns) /\ Len(conns[c].got) = 2 /\ Len(conns) \in Nat
  BY <1>0, <1>1, <1>2, InOnePlace DEF Busy, Progress, Due
<1>4. fd \in Descriptors /\ sock[fd] = c /\ c # 0
  BY <1>0, <1>1, <1>3, InOnePlace DEF At
<1>5. /\ worker' \in [Threads -> [at : Places, fd : Descriptors \cup {0}]]
      /\ \A v \in Threads : /\ worker'[v].fd = worker[v].fd
                            /\ worker'[v].at = IF v = w THEN "idle" ELSE worker[v].at
  BY <1>0, <1>2, Moved DEF Typed, Places
<1>6. /\ sock \in [Descriptors -> 0 .. Len(conns)]
      /\ sock' \in [Descriptors -> 0 .. Len(conns)]
      /\ \A other \in Descriptors : sock'[other] = IF other = fd THEN 0 ELSE sock[other]
  <2>1. sock \in [Descriptors -> 0 .. Len(conns)]
    BY <1>0 DEF Typed
  <2>2. 0 \in 0 .. Len(conns)
    BY <1>3
  <2>3. QED
    BY <1>2, <1>4, <2>1, <2>2
<1>7. Typed'
  BY <1>0, <1>2, <1>5, <1>6 DEF Typed, RequestAssumption
<1>8. /\ ~ Busy(w)'
      /\ \A v \in Threads \ {w} : Busy(v)' <=> Busy(v)
  BY <1>5 DEF Busy
<1>9. /\ \A i \in 1 .. Len(waiting) : waiting[i] \in Descriptors /\ waiting[i] # fd
      /\ \A v \in Threads \ {w} : Busy(v) => worker[v].fd \in Descriptors /\ worker[v].fd # fd
  <2>1. \A i \in 1 .. Len(waiting) : waiting[i] \in Descriptors
    BY <1>0, InOnePlace
  <2>2. QED
    BY <1>0, <1>1, <1>3, <2>1 DEF Owned
<1>10. Owned'
  <2>1. \A a, b \in Descriptors : sock'[a] # 0 /\ sock'[a] = sock'[b] => a = b
    BY <1>0, <1>6 DEF Owned
  <2>2. \A i \in 1 .. Len(waiting) : sock'[waiting[i]] # 0
    BY <1>0, <1>6, <1>9 DEF Owned
  <2>3. \A v \in Threads : Busy(v)' =>
          /\ worker'[v].fd \in Descriptors /\ sock'[worker'[v].fd] # 0
          /\ \A i \in 1 .. Len(waiting) : waiting[i] # worker'[v].fd
          /\ \A u \in Threads : Busy(u)' /\ worker'[u].fd = worker'[v].fd => u = v
    BY <1>0, <1>5, <1>6, <1>8, <1>9 DEF Owned
  <2>4. ASSUME NEW other \in Descriptors, sock'[other] # 0
        PROVE  \/ \E i \in 1 .. Len(waiting) : waiting[i] = other
               \/ \E v \in Threads : Busy(v)' /\ worker'[v].fd = other
    <3>1. other # fd /\ sock[other] # 0
      BY <1>6, <2>4
    <3>2. QED
      BY <1>0, <1>1, <1>5, <1>8, <3>1 DEF Owned
  <2>5. \A i, j \in 1 .. Len(waiting) : waiting[i] = waiting[j] => i = j
    BY <1>0 DEF Owned
  <2>6. QED
    BY <1>2, <2>1, <2>2, <2>3, <2>4, <2>5 DEF Owned
<1>11. \A v \in Threads \ {w} : Busy(v) => At(v)' = At(v)
  BY <1>5, <1>6, <1>9 DEF At
<1>12. Waited'
  <2>1. \A child \in children :
          child.parent \in Threads /\ child.parent # w /\ Busy(child.parent)
    BY <1>0, <1>2 DEF Typed, Waited, Busy
  <2>2. QED
    BY <1>0, <1>2, <1>5, <1>11, <2>1 DEF Waited
<1>13. Progress'
  <2>1. \A d : d \in Open => d = c \/ d \in Open'
    BY <1>4, <1>6 DEF Open
  <2>2. \A d \in 1 .. Len(conns) : d \notin Open' => Len(conns[d].got) = 2
    BY <1>0, <1>3, <2>1 DEF Progress
  <2>3. \A i \in 1 .. Len(waiting) : Len(conns[sock'[waiting[i]]].got) = 0
    BY <1>0, <1>6, <1>9 DEF Progress
  <2>4. \A v \in Threads \ {w} : Due(v)' = Due(v)
    <3>1. \A v \in Threads : Writing(v)' <=> Writing(v)
      BY <1>2 DEF Writing
    <3>2. QED
      BY <1>5, <3>1 DEF Due
  <2>5. \A v \in Threads : Busy(v)' => Len(conns[At(v)'].got) = Due(v)'
    BY <1>0, <1>8, <1>11, <2>4 DEF Progress
  <2>6. QED
    BY <1>0, <1>2, <2>2, <2>3, <2>5 DEF Progress
<1>14. CountsKept'
  BY <1>0, <1>2, CountsSame DEF Answered, Header
<1>15. QED
  BY <1>7, <1>10, <1>12, <1>13, <1>14 DEF Inv

LEMMA AcceptStep ==
  ASSUME Inv, Accept
  PROVE  Inv'
<1>0. Typed /\ Owned /\ Waited /\ Progress /\ CountsKept
  BY DEF Inv
<1>1. PICK fd \in Descriptors, r \in Requests :
        /\ sock[fd] = 0 /\ sock' = [sock EXCEPT ![fd] = Len(conns) + 1]
        /\ conns' = Append(conns, [asks |-> r, got |-> << >>])
        /\ waiting' = Append(waiting, fd)
        /\ worker' = worker /\ counts' = counts /\ children' = children
  BY DEF Accept
<1>2. PICK n, c, l : n = Len(conns) /\ c = n + 1 /\ l = Len(waiting)
  OBVIOUS
<1>3. n \in Nat /\ l \in Nat /\ c \in Nat /\ c # 0
  BY <1>0, <1>2 DEF Typed
<1>4. /\ conns' \in Seq(Conns) /\ Len(conns') = c
      /\ \A d \in 1 .. n : conns'[d] = conns[d]
      /\ conns'[c].asks = r /\ conns'[c].got = << >>
  <2>1. PICK S, new : S = Conns /\ new = [asks |-> r, got |-> << >>]
    OBVIOUS
  <2>2. new \in S /\ new.asks = r /\ new.got = << >>
    BY <2>1 DEF Conns
  <2>3. conns \in Seq(S)
    BY <1>0, <2>1 DEF Typed
  <2>4. /\ Append(conns, new) \in Seq(S) /\ Len(Append(conns, new)) = Len(conns) + 1
        /\ \A d \in 1 .. Len(conns) : Append(conns, new)[d] = conns[d]
        /\ Append(conns, new)[Len(conns) + 1] = new
    BY <2>2, <2>3, AppendProperties
  <2>5. QED
    BY <1>1, <1>2, <2>1, <2>2, <2>4
<1>5. /\ waiting' \in Seq(Descriptors) /\ Len(waiting') = l + 1
      /\ \A i \in 1 .. l : waiting'[i] = waiting[i]
      /\ waiting'[l + 1] = fd
  <2>1. waiting \in Seq(Descriptors)
    BY <1>0 DEF Typed
  <2>2. /\ Append(waiting, fd) \in Seq(Descriptors) /\ Len(Append(waiting, fd)) = Len(waiting) + 1
        /\ \A i \in 1 .. Len(waiting) : Append(waiting, fd)[i] = waiting[i]
        /\ Append(waiting, fd)[Len(waiting) + 1] = fd
    BY <2>1, AppendProperties
  <2>3. QED
    BY <1>1, <1>2, <2>2
<1>6. /\ sock' \in [Descriptors -> 0 .. c]
      /\ \A other \in Descriptors : /\ sock'[other] = IF other = fd THEN c ELSE sock[other]
                                    /\ sock[other] \in 0 .. n
  <2>1. sock \in [Descriptors -> 0 .. n]
    BY <1>0, <1>2 DEF Typed
  <2>2. 0 .. n \subseteq 0 .. c /\ c \in 0 .. c
    BY <1>2, <1>3
  <2>3. QED
    BY <1>1, <1>2, <2>1, <2>2
<1>7. Typed'
  BY <1>0, <1>1, <1>4, <1>5, <1>6 DEF Typed, RequestAssumption
<1>8. /\ \A i \in 1 .. l : waiting[i] \in Descriptors /\ waiting[i] # fd
      /\ \A v \in Threads : Busy(v) => worker[v].fd \in Descriptors /\ worker[v].fd # fd
  <2>1. \A i \in 1 .. l : waiting[i] \in Descriptors
    BY <1>0, <1>2, InOnePlace
  <2>2. QED
    BY <1>0, <1>1, <1>2, <2>1 DEF Owned
<1>9. \A i \in 1 .. l + 1 : i \in 1 .. l \/ i = l + 1
  BY <1>3
<1>10. \A v \in Threads : Busy(v)' <=> Busy(v)
  BY <1>1 DEF Busy
<1>11. c \notin 0 .. n
  BY <1>2, <1>3
<1>12. Owned'
  <2>1. \A a, b \in Descriptors : sock'[a] # 0 /\ sock'[a] = sock'[b] => a = b
    BY <1>0, <1>6, <1>11 DEF Owned
  <2>2. \A i \in 1 .. l + 1 : sock'[waiting'[i]] # 0
    <3>1. \A i \in 1 .. l : sock'[waiting'[i]] # 0
      BY <1>0, <1>2, <1>5, <1>6, <1>8 DEF Owned
    <3>2. sock'[waiting'[l + 1]] # 0
      BY <1>3, <1>5, <1>6
    <3>3. QED
      BY <1>9, <3>1, <3>2
  <2>3. \A i, j \in 1 .. l + 1 : waiting'[i] = waiting'[j] => i = j
    <3>1. \A i, j \in 1 .. l : waiting'[i] = waiting'[j] => i = j
      BY <1>0, <1>2, <1>5 DEF Owned
    <3>2. \A i \in 1 .. l : waiting'[i] # fd
      BY <1>5, <1>8
    <3>3. waiting'[l + 1] = fd
      BY <1>5
    <3>4. QED
      BY <1>9, <3>1, <3>2, <3>3
  <2>4. ASSUME NEW v \in Threads, Busy(v)
        PROVE  /\ worker[v].fd \in Descriptors /\ sock'[worker[v].fd] # 0
               /\ \A i \in 1 .. l + 1 : waiting'[i] # worker[v].fd
               /\ \A u \in Threads : Busy(u) /\ worker[u].fd = worker[v].fd => u = v
    <3>1. /\ worker[v].fd \in Descriptors /\ sock[worker[v].fd] # 0 /\ worker[v].fd # fd
          /\ \A i \in 1 .. l : waiting[i] # worker[v].fd
          /\ \A u \in Threads : Busy(u) /\ worker[u].fd = worker[v].fd => u = v
      BY <1>0, <1>2, <1>8, <2>4 DEF Owned
    <3>2. sock'[worker[v].fd] # 0
      BY <1>6, <3>1
    <3>3. \A i \in 1 .. l + 1 : waiting'[i] # worker[v].fd
      BY <1>5, <1>9, <3>1
    <3>4. QED
      BY <3>1, <3>2, <3>3
  <2>5. ASSUME NEW other \in Descriptors, sock'[other] # 0
        PROVE  \/ \E i \in 1 .. l + 1 : waiting'[i] = other
               \/ \E v \in Threads : Busy(v) /\ worker[v].fd = other
    <3>1. CASE other = fd
      BY <1>3, <1>5, <3>1
    <3>2. CASE other # fd
      <4>1. \/ \E i \in 1 .. l : waiting[i] = other
            \/ \E v \in Threads : Busy(v) /\ worker[v].fd = other
        BY <1>0, <1>2, <1>6, <2>5, <3>2 DEF Owned
      <4>2. \A i \in 1 .. l : i \in 1 .. l + 1 /\ waiting'[i] = waiting[i]
        BY <1>3, <1>5
      <4>3. QED
        BY <4>1, <4>2
    <3>3. QED
      BY <3>1, <3>2
  <2>6. \A v \in Threads : Busy(v)' =>
          /\ worker'[v].fd \in Descriptors /\ sock'[worker'[v].fd] # 0
          /\ \A i \in 1 .. Len(waiting') : waiting'[i] # worker'[v].fd
          /\ \A u \in Threads : Busy(u)' /\ worker'[u].fd = worker'[v].fd => u = v
    BY <1>1, <1>5, <1>10, <2>4
  <2>7. \A other \in Descriptors : sock'[other] # 0 =>
          \/ \E i \in 1 .. Len(waiting') : waiting'[i] = other
          \/ \E v \in Threads : Busy(v)' /\ worker'[v].fd = other
    BY <1>1, <1>5, <1>10, <2>5
  <2>8. /\ \A i \in 1 .. Len(waiting') : sock'[waiting'[i]] # 0
        /\ \A i, j \in 1 .. Len(waiting') : waiting'[i] = waiting'[j] => i = j
    BY <1>5, <2>2, <2>3
  <2>9. QED
    BY <2>1, <2>6, <2>7, <2>8 DEF Owned
<1>13. \A v \in Threads : Busy(v) => At(v)' = At(v)
  BY <1>1, <1>6, <1>8 DEF At
<1>14. Waited'
  <2>1. \A child \in children : child.parent \in Threads /\ Busy(child.parent)
    BY <1>0 DEF Typed, Waited, Busy
  <2>2. QED
    BY <1>0, <1>1, <1>13, <2>1 DEF Waited
<1>15. \A d \in 1 .. c : d \in 1 .. n \/ d = c
  BY <1>2, <1>3
<1>16. Progress'
  <2>1. Open' = Open \cup {c}
    <3>1. \A d : d \in Open <=> d # 0 /\ \E other \in Descriptors : sock[other] = d
      BY DEF Open
    <3>2. \A d : d \in Open' <=> d # 0 /\ \E other \in Descriptors : sock'[other] = d
      BY DEF Open
    <3>3. \A d : d \in Open' <=> d \in Open \/ d = c
      BY <1>1, <1>3, <1>6, <3>1, <3>2
    <3>4. QED
      BY <3>3
  <2>2. \A d \in 1 .. c : d \notin Open' => Len(conns'[d].got) = 2
    BY <1>0, <1>2, <1>4, <1>15, <2>1 DEF Progress
  <2>3. \A i \in 1 .. l : /\ sock[waiting[i]] \in 1 .. n
                          /\ Len(conns[sock[waiting[i]]].got) = 0
    BY <1>0, <1>2, InOnePlace DEF Progress
  <2>4. \A i \in 1 .. l + 1 : Len(conns'[sock'[waiting'[i]]].got) = 0
    <3>1. \A i \in 1 .. l : Len(conns'[sock'[waiting'[i]]].got) = 0
      BY <1>4, <1>5, <1>6, <1>8, <2>3
    <3>2. Len(conns'[sock'[waiting'[l + 1]]].got) = 0
      BY <1>4, <1>5, <1>6
    <3>3. QED
      BY <1>9, <3>1, <3>2
  <2>5. ASSUME NEW v \in Threads, Busy(v)
        PROVE  Len(conns'[At(v)'].got) = Due(v)'
    <3>1. Due(v)' = Due(v)
      BY <1>1 DEF Due, Writing
    <3>2. At(v) \in 1 .. n /\ Len(conns[At(v)].got) = Due(v)
      BY <1>0, <1>2, <2>5, InOnePlace DEF Progress
    <3>3. QED
      BY <1>4, <1>13, <2>5, <3>1, <3>2
  <2>6. \A d \in 1 .. c : /\ Len(conns'[d].got) >= 1 => conns'[d].got[1] \in Headers
                          /\ Len(conns'[d].got) >= 2 => conns'[d].got[2] = "content"
    BY <1>0, <1>2, <1>4, <1>15 DEF Progress
  <2>7. QED
    BY <1>4, <1>5, <1>10, <2>2, <2>4, <2>5, <2>6 DEF Progress
<1>17. CountsKept'
  <2>1. \A d \in 1 .. c : d > n => Len(conns'[d].got) = 0
    BY <1>3, <1>4, <1>15
  <2>2. Len(conns') >= Len(conns)
    BY <1>2, <1>3, <1>4
  <2>3. \A d \in 1 .. Len(conns) : conns'[d] = conns[d]
    BY <1>2, <1>4
  <2>4. QED
    BY <1>0, <1>1, <1>2, <1>4, <1>7, <2>1, <2>2, <2>3, CountsAfter
<1>18. QED
  BY <1>7, <1>12, <1>14, <1>16, <1>17 DEF Inv

-----------------------------------------------------------------------------
LEMMA InvHolds == RequestAssumption /\ Spec => []Inv
<1>1. RequestAssumption /\ Init => Inv
  <2> SUFFICES ASSUME RequestAssumption, Init
               PROVE  Inv
    OBVIOUS
  <2>1. Len(conns) = 0 /\ Len(waiting) = 0 /\ \A i : i \notin 1 .. 0
    BY DEF Init
  <2>2. Typed
    <3>1. conns \in Seq(Conns) /\ waiting \in Seq(Descriptors)
      BY DEF Init
    <3>2. sock \in [Descriptors -> 0 .. Len(conns)] /\ counts \in [Threads -> Counts]
      BY <2>1 DEF Init, Counts
    <3>3. worker \in [Threads -> [at : Places, fd : Descriptors \cup {0}]]
      BY DEF Init, Places
    <3>4. QED
      BY <3>1, <3>2, <3>3 DEF Typed, Init
  <2>3. \A w \in Threads : ~ Busy(w)
    BY DEF Init, Busy
  <2>4. Owned
    BY <2>1, <2>3 DEF Owned, Init
  <2>5. Waited
    BY DEF Waited, Init
  <2>6. Progress
    BY <2>1, <2>3 DEF Progress
  <2>7. Answered = {}
    BY <2>1, <2>2, AnsweredAre
  <2>8. CountsKept
    <3>1. \A w \in Threads : AnsweredBy(w) = {}
      BY <2>7 DEF AnsweredBy
    <3>2. Good({}, FALSE) = {} /\ Good({}, TRUE) = {}
      BY DEF Good
    <3>3. CountOf({}) = [total |-> 0, static |-> 0, dynamic |-> 0]
      BY <3>2, FS_EmptySet DEF CountOf
    <3>4. QED
      BY <2>7, <3>1, <3>3 DEF CountsKept, Init
  <2>9. QED
    BY <2>2, <2>4, <2>5, <2>6, <2>8 DEF Inv
<1>2. Inv /\ [Next]_vars => Inv'
  <2> SUFFICES ASSUME Inv, [Next]_vars
               PROVE  Inv'
    OBVIOUS
  <2>1. CASE Accept
    BY <2>1, AcceptStep
  <2>2. ASSUME NEW w \in Threads,
               \/ Take(w) \/ Handle(w) \/ Content(w)
               \/ ServeDynamic(w) \/ WaitForChild(w) \/ CloseSocket(w)
        PROVE  Inv'
    BY <2>2, TakeStep, HandleStep, ContentStep, ForkStep, WaitStep, CloseStep
  <2>3. ASSUME NEW child \in children, ChildWrites(child) \/ ChildEnds(child)
        PROVE  Inv'
    BY <2>3, ChildWritesStep, ChildEndsStep
  <2>4. CASE UNCHANGED vars
    <3>1. Typed /\ Owned /\ Waited /\ Progress /\ CountsKept
      BY DEF Inv
    <3>2. /\ conns' = conns /\ sock' = sock /\ waiting' = waiting
          /\ worker' = worker /\ counts' = counts /\ children' = children
      BY <2>4 DEF vars
    <3>3. Typed' /\ Owned' /\ Waited'
      BY <3>1, <3>2 DEF Typed, RequestAssumption, Owned, Busy, Waited, At
    <3>4. Progress'
      BY <3>1, <3>2 DEF Progress, Open, Busy, At, Due, Writing
    <3>5. CountsKept'
      BY <3>1, <3>2, CountsSame DEF Answered, Header
    <3>6. QED
      BY <3>3, <3>4, <3>5 DEF Inv
  <2>5. QED
    BY <2>1, <2>2, <2>3, <2>4 DEF Next
<1>3. QED
  BY <1>1, <1>2, PTL DEF Spec

(* request.c: each client gets one header, whose counts are those of its   *)
(* worker's answers, and one content; once every worker waits for work,    *)
(* nobody holds a connection, the children of other workers included.      *)
THEOREM AnswersCounted == RequestAssumption /\ Spec => []RequestsAreAnswered
<1>1. Inv => RequestsAreAnswered
  <2> SUFFICES ASSUME Inv
               PROVE  RequestsAreAnswered
    OBVIOUS
  <2>0. Typed /\ Owned /\ Waited /\ Progress /\ CountsKept
    BY DEF Inv
  <2>1. CountsAreTrue
    BY <2>0 DEF CountsKept, CountsAreTrue, CountOf, Good
  <2>2. DOMAIN conns = 1 .. Len(conns) /\ \A c \in 1 .. Len(conns) :
          conns[c].got \in Seq(Parts) /\ Len(conns[c].got) \in Nat
    BY <2>0, AnsweredIs DEF Typed
  <2>3. ASSUME NEW c \in 1 .. Len(conns)
        PROVE  Len(conns[c].got) <= 2 /\ DOMAIN conns[c].got = 1 .. Len(conns[c].got)
    <3>1. DOMAIN conns[c].got = 1 .. Len(conns[c].got)
      BY <2>2
    <3>2. Len(conns[c].got) \in {0, 1, 2}
      <4>1. CASE c \notin Open
        BY <2>0, <4>1 DEF Progress
      <4>2. CASE c \in Open
        <5>1. PICK fd \in Descriptors : sock[fd] = c /\ sock[fd] # 0
          BY <4>2 DEF Open
        <5>2. CASE \E i \in 1 .. Len(waiting) : waiting[i] = fd
          BY <2>0, <5>1, <5>2 DEF Progress
        <5>3. CASE \E w \in Threads : Busy(w) /\ worker[w].fd = fd
          BY <2>0, <5>1, <5>3 DEF Progress, At, Due
        <5>4. QED
          BY <2>0, <5>1, <5>2, <5>3 DEF Owned
      <4>3. QED
        BY <4>1, <4>2
    <3>3. \A l \in {0, 1, 2} : l <= 2
      OBVIOUS
    <3>4. Len(conns[c].got) <= 2
      BY ONLY <3>2, <3>3
    <3>5. QED
      BY <3>1, <3>4
  <2>4. ASSUME NEW c \in 1 .. Len(conns)
        PROVE  /\ AtEnd(c) => Len(conns[c].got) = 2
               /\ 2 \in DOMAIN conns[c].got => conns[c].got[2] = "content"
    BY <2>0, <2>2, <2>3 DEF AtEnd, Progress
  <2>5. ASSUME waiting = << >>, \A w \in Threads : worker[w].at = "idle", NEW c \in 1 .. Len(conns)
        PROVE  AtEnd(c)
    <3>1. Len(waiting) = 0 /\ \A i : i \notin 1 .. 0
      BY <2>5
    <3>2. \A w \in Threads : ~ Busy(w)
      BY <2>5 DEF Busy
    <3>3. Open = {}
      BY <2>0, <3>1, <3>2 DEF Open, Owned
    <3>4. children = {}
      BY <2>0, <2>5 DEF Typed, Waited
    <3>5. QED
      BY <3>3, <3>4 DEF AtEnd
  <2>6. AnswersAreWhole
    BY <2>2, <2>3, <2>4, <2>5 DEF AnswersAreWhole
  <2>7. QED
    BY <2>1, <2>6 DEF RequestsAreAnswered
<1>2. QED
  BY <1>1, InvHolds, PTL
=============================================================================
