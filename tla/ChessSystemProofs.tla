-------------------------- MODULE ChessSystemProofs --------------------------
(***************************************************************************)
(* Theorems about the chess system, for all identifiers, pairings,         *)
(* results, times and maxima, and whatever the order of the calls.  First  *)
(* what the operators of ChessRanking compute for every finite collection  *)
(* of games: the totals of a player over parts of a collection and under   *)
(* other names, the order ByKey, the column that checkWinner prefers, and  *)
(* the order in which printLevelsToFile prints.  Then the inductive        *)
(* invariant, one lemma per operation, and the theorems.                   *)
(***************************************************************************)
EXTENDS ChessSystem, FiniteSetTheorems, SequenceLemmas

-----------------------------------------------------------------------------
(* The time of a set of games, as the folds of the library define it.      *)
TimeOf(games, S) == MapThenSumSet(LAMBDA id : games[id].game_time, S)

IsTimed(games, S) == IsFiniteSet(S) /\ \A id \in S : games[id].game_time \in Int

LEMMA TimeProperties ==
  ASSUME NEW games, NEW S, IsTimed(games, S)
  PROVE  /\ TimeOf(games, S) \in Int
         /\ S = {} => TimeOf(games, S) = 0
         /\ \A x \in S : TimeOf(games, S) = games[x].game_time + TimeOf(games, S \ {x})
<1> DEFINE val == [id \in S |-> games[id].game_time]
           Step(f, T) == [s \in SUBSET T |->
                            IF s = {} THEN 0
                            ELSE games[OneOf(s)].game_time + f[s \ {OneOf(s)}]]
           Within(T) == CHOOSE f : f = Step(f, T)
<1>1. \A T : TimeOf(games, T) = Within(T)[T]
  BY DEF TimeOf, MapThenSumSet, MapThenFoldSet, OneOf
<1>2. ASSUME NEW T \in SUBSET S, NEW f
      PROVE  Step(f, T) = SumStep(val, f, SUBSET T)
  <2>1. ASSUME NEW s \in SUBSET T, s # {}
        PROVE  val[OneOf(s)] = games[OneOf(s)].game_time
    <3>1. OneOf(s) \in S
      BY <2>1, OneOfIsIn
    <3>2. QED
      BY <3>1
  <2> HIDE DEF val
  <2>2. QED
    BY <2>1 DEF SumStep
<1>3. IsValued(val, S)
  BY DEF IsTimed, IsValued
<1>4. ASSUME NEW T \in SUBSET S
      PROVE  Sums(val, Within(T), T)
  <2>1. IsValued(val, T)
    BY <1>3, FS_Subset DEF IsValued
  <2> HIDE DEF val, Step
  <2>2. \E f : Sums(val, f, T)
    BY <2>1, SumExists
  <2>3. \E f : f = Step(f, T)
    BY <1>2, <2>2 DEF Sums
  <2>4. PICK f : f = Within(T)
    OBVIOUS
  <2>5. f = Step(f, T)
    BY <2>3, <2>4
  <2>6. QED
    BY <1>2, <2>4, <2>5 DEF Sums
<1> HIDE DEF Within
<1>5. PICK total : /\ IsTotal(total, val, S)
                   /\ \A T \in SUBSET S : \A f : Sums(val, f, T) => f[T] = total[T]
  BY <1>3, TotalExists
<1>6. \A T \in SUBSET S : TimeOf(games, T) = total[T]
  BY <1>1, <1>4, <1>5
<1>7. S \in SUBSET S /\ \A x \in S : S \ {x} \in SUBSET S /\ val[x] = games[x].game_time
  OBVIOUS
<1> HIDE DEF val
<1>8. TimeOf(games, S) \in Int /\ (S = {} => TimeOf(games, S) = 0)
  BY <1>5, <1>6, <1>7 DEF IsTotal
<1>9. ASSUME NEW x \in S
      PROVE  TimeOf(games, S) = games[x].game_time + TimeOf(games, S \ {x})
  <2>1. total[S] = val[x] + total[S \ {x}]
    BY <1>5, <1>7 DEF IsTotal
  <2>2. TimeOf(games, S) = total[S] /\ TimeOf(games, S \ {x}) = total[S \ {x}]
    BY <1>6, <1>7
  <2>3. QED
    BY <1>7, <2>1, <2>2
<1>10. QED
  BY <1>8, <1>9

LEMMA TimedPart ==
  ASSUME NEW games, NEW S, IsTimed(games, S), NEW T \in SUBSET S
  PROVE  IsTimed(games, T)
  BY FS_Subset DEF IsTimed

(* The time of two sets of games.                                          *)
LEMMA TimeOfUnion ==
  ASSUME NEW games, NEW A, NEW B, IsTimed(games, A), IsTimed(games, B), A \cap B = {}
  PROVE  TimeOf(games, A \cup B) = TimeOf(games, A) + TimeOf(games, B)
<1> DEFINE D == {s \in SUBSET B : TimeOf(games, A \cup s) # TimeOf(games, A) + TimeOf(games, s)}
<1>1. SUFFICES ASSUME D # {}
               PROVE  FALSE
  OBVIOUS
<1>2. PICK s \in D : \A x \in s : s \ {x} \notin D
  <2>1. \A s \in D : IsFiniteSet(s)
    BY FS_Subset DEF IsTimed
  <2>2. QED
    BY <1>1, <2>1, SmallestSet
<1>3. IsTimed(games, A \cup s) /\ IsTimed(games, s)
  BY FS_Union, FS_Subset DEF IsTimed
<1>4. CASE s = {}
  <2>1. TimeOf(games, s) = 0 /\ TimeOf(games, A) \in Int /\ A \cup s = A
    BY <1>3, <1>4, TimeProperties
  <2>2. QED
    BY <2>1
<1>5. CASE s # {}
  <2>1. PICK x \in s : TRUE
    BY <1>5
  <2>2. TimeOf(games, A \cup (s \ {x})) = TimeOf(games, A) + TimeOf(games, s \ {x})
    BY <1>2
  <2>3. (A \cup s) \ {x} = A \cup (s \ {x})
    OBVIOUS
  <2>4. TimeOf(games, A \cup s) = games[x].game_time + TimeOf(games, A \cup (s \ {x}))
    BY <1>3, <2>3, TimeProperties
  <2>5. TimeOf(games, s) = games[x].game_time + TimeOf(games, s \ {x})
    BY <1>3, TimeProperties
  <2>6. /\ games[x].game_time \in Int /\ TimeOf(games, A) \in Int
        /\ TimeOf(games, s \ {x}) \in Int
    BY <1>3, TimedPart, TimeProperties DEF IsTimed
  <2>7. QED
    BY <2>2, <2>4, <2>5, <2>6
<1>6. QED
  BY <1>4, <1>5

(* The same games under other names.                                       *)
Image(h, S) == {h[x] : x \in S}

Renames(h, S, old, new) ==
  /\ \A x, y \in S : h[x] = h[y] => x = y
  /\ \A x \in S : new[h[x]] = old[x]

LEMMA ImageFinite ==
  ASSUME NEW h, NEW S, IsFiniteSet(S), \A x, y \in S : h[x] = h[y] => x = y
  PROVE  IsFiniteSet(Image(h, S)) /\ Cardinality(Image(h, S)) = Cardinality(S)
<1> DEFINE f == [x \in S |-> h[x]]
<1>1. f \in Bijection(S, Image(h, S))
  BY DEF Bijection, Injection, Surjection, IsInjective, Image
<1>2. QED
  BY <1>1, FS_Bijection DEF ExistsBijection

LEMMA TimeRenamed ==
  ASSUME NEW old, NEW new, NEW S, IsTimed(old, S), NEW h, Renames(h, S, old, new)
  PROVE  TimeOf(new, Image(h, S)) = TimeOf(old, S)
<1> DEFINE D == {s \in SUBSET S : TimeOf(new, Image(h, s)) # TimeOf(old, s)}
<1>1. SUFFICES ASSUME D # {}
               PROVE  FALSE
  OBVIOUS
<1>2. PICK s \in D : \A x \in s : s \ {x} \notin D
  <2>1. \A s \in D : IsFiniteSet(s)
    BY FS_Subset DEF IsTimed
  <2>2. QED
    BY <1>1, <2>1, SmallestSet
<1>3. IsTimed(old, s) /\ IsTimed(new, Image(h, s))
  <2>1. IsTimed(old, s)
    BY TimedPart
  <2>2. IsFiniteSet(Image(h, s))
    BY <2>1, ImageFinite DEF IsTimed, Renames
  <2>3. QED
    BY <2>1, <2>2 DEF IsTimed, Renames, Image
<1>4. CASE s = {}
  <2>1. Image(h, s) = {}
    BY <1>4 DEF Image
  <2>2. QED
    BY <1>3, <1>4, <2>1, TimeProperties
<1>5. CASE s # {}
  <2>1. PICK x \in s : TRUE
    BY <1>5
  <2>2. Image(h, s) \ {h[x]} = Image(h, s \ {x}) /\ h[x] \in Image(h, s)
    BY DEF Image, Renames
  <2>3. TimeOf(new, Image(h, s)) = new[h[x]].game_time + TimeOf(new, Image(h, s \ {x}))
    <3>1. PICK T, y : T = Image(h, s) /\ y = h[x]
      OBVIOUS
    <3>2. TimeOf(new, T) = new[y].game_time + TimeOf(new, T \ {y})
      BY <1>3, <2>2, <3>1, TimeProperties
    <3>3. QED
      BY <2>2, <3>1, <3>2
  <2>4. TimeOf(old, s) = old[x].game_time + TimeOf(old, s \ {x})
    BY <1>3, TimeProperties
  <2>5. TimeOf(new, Image(h, s \ {x})) = TimeOf(old, s \ {x})
    BY <1>2
  <2>6. QED
    BY <2>3, <2>4, <2>5 DEF Renames
<1>6. QED
  BY <1>4, <1>5

-----------------------------------------------------------------------------
(* The totals of a player over a collection of games.                      *)
Record == [wins : Int, loses : Int, draws : Int, total_game_time : Int]

LEMMA RecordFields == [DOMAIN NoRecord -> Int] = Record
  BY DEF NoRecord, Record

LEMMA PlusMinus ==
  ASSUME NEW r \in Record, NEW s \in Record
  PROVE  /\ Plus(r, s) \in Record /\ Minus(r, s) \in Record
         /\ Plus(r, s) = [wins |-> r.wins + s.wins, loses |-> r.loses + s.loses,
                          draws |-> r.draws + s.draws,
                          total_game_time |-> r.total_game_time + s.total_game_time]
         /\ Minus(r, s) = [wins |-> r.wins - s.wins, loses |-> r.loses - s.loses,
                           draws |-> r.draws - s.draws,
                           total_game_time |-> r.total_game_time - s.total_game_time]
  BY DEF Plus, Minus, Record

LEMMA PlusNone ==
  ASSUME NEW r \in Record
  PROVE  Plus(r, NoRecord) = r /\ NoRecord \in Record
<1>1. NoRecord \in Record
  BY DEF NoRecord, Record
<1>2. PICK w \in Int, l \in Int, d \in Int, time \in Int :
        r = [wins |-> w, loses |-> l, draws |-> d, total_game_time |-> time]
  BY DEF Record
<1>3. Plus(r, NoRecord) = [wins |-> w + 0, loses |-> l + 0, draws |-> d + 0,
                           total_game_time |-> time + 0]
  BY <1>1, <1>2, PlusMinus DEF NoRecord
<1>4. w + 0 = w /\ l + 0 = l /\ d + 0 = d /\ time + 0 = time
  OBVIOUS
<1>5. QED
  BY <1>1, <1>2, <1>3, <1>4

Drawn(p, games) == {id \in PlayedBy(p, games) : games[id].game_result = "draw"}

Won(p, games) ==
  {id \in PlayedBy(p, games) \ Drawn(p, games) :
     games[id].player[games[id].game_result] = p}

LEMMA TallyIs ==
  ASSUME NEW p, NEW games
  PROVE  Tally(p, games) =
           [wins  |-> Cardinality(Won(p, games)),
            loses |-> Cardinality(PlayedBy(p, games)) - Cardinality(Won(p, games))
                        - Cardinality(Drawn(p, games)),
            draws |-> Cardinality(Drawn(p, games)),
            total_game_time |-> TimeOf(games, PlayedBy(p, games))]
  BY DEF Tally, Won, Drawn, TimeOf

LEMMA TallyType ==
  ASSUME NEW p, NEW games, IsTimed(games, DOMAIN games)
  PROVE  Tally(p, games) \in Record
<1>1. /\ PlayedBy(p, games) \in SUBSET DOMAIN games
      /\ Won(p, games) \in SUBSET DOMAIN games
      /\ Drawn(p, games) \in SUBSET DOMAIN games
  BY DEF PlayedBy, Won, Drawn
<1>2. /\ Cardinality(PlayedBy(p, games)) \in Nat
      /\ Cardinality(Won(p, games)) \in Nat
      /\ Cardinality(Drawn(p, games)) \in Nat
  BY <1>1, FS_Subset, FS_CardinalityType DEF IsTimed
<1>3. TimeOf(games, PlayedBy(p, games)) \in Int
  BY <1>1, TimedPart, TimeProperties
<1>4. QED
  BY <1>2, <1>3, TallyIs DEF Record

LEMMA TallyRenamed ==
  ASSUME NEW old, IsTimed(old, DOMAIN old), NEW new, NEW h,
         Renames(h, DOMAIN old, old, new), DOMAIN new = Image(h, DOMAIN old), NEW p
  PROVE  Tally(p, new) = Tally(p, old)
<1>1. /\ PlayedBy(p, old) \in SUBSET DOMAIN old
      /\ Won(p, old) \in SUBSET DOMAIN old
      /\ Drawn(p, old) \in SUBSET DOMAIN old
  BY DEF PlayedBy, Won, Drawn
<1>2. PlayedBy(p, new) = Image(h, PlayedBy(p, old))
  BY DEF PlayedBy, Renames, Image
<1>3. Drawn(p, new) = Image(h, Drawn(p, old))
  BY <1>1, <1>2 DEF Drawn, Renames, Image
<1>4. Won(p, new) = Image(h, Won(p, old))
  <2>1. ASSUME NEW y \in Won(p, new)
        PROVE  y \in Image(h, Won(p, old))
    <3>1. PICK x \in PlayedBy(p, old) : y = h[x]
      BY <1>2 DEF Won, Image
    <3>2. x \notin Drawn(p, old) /\ old[x] = new[y]
      BY <1>1, <1>3, <3>1 DEF Won, Image, Renames
    <3>3. QED
      BY <3>1, <3>2 DEF Won, Image
  <2>2. ASSUME NEW x \in Won(p, old)
        PROVE  h[x] \in Won(p, new)
    <3>1. h[x] \in PlayedBy(p, new) /\ new[h[x]] = old[x]
      BY <1>1, <1>2 DEF Won, Image, Renames
    <3>2. h[x] \notin Drawn(p, new)
      BY <3>1 DEF Won, Drawn
    <3>3. QED
      BY <3>1, <3>2 DEF Won
  <2>3. QED
    BY <2>1, <2>2 DEF Image
<1>5. ASSUME NEW S \in SUBSET DOMAIN old
      PROVE  Cardinality(Image(h, S)) = Cardinality(S)
  <2>1. IsFiniteSet(S)
    BY FS_Subset DEF IsTimed
  <2>2. QED
    BY <2>1, ImageFinite DEF Renames
<1>6. TimeOf(new, PlayedBy(p, new)) = TimeOf(old, PlayedBy(p, old))
  <2>1. Renames(h, PlayedBy(p, old), old, new)
    BY <1>1 DEF Renames
  <2>2. QED
    BY <1>1, <1>2, <2>1, TimedPart, TimeRenamed
<1>7. /\ Cardinality(PlayedBy(p, new)) = Cardinality(PlayedBy(p, old))
      /\ Cardinality(Won(p, new)) = Cardinality(Won(p, old))
      /\ Cardinality(Drawn(p, new)) = Cardinality(Drawn(p, old))
  BY <1>1, <1>2, <1>3, <1>4, <1>5
<1>8. QED
  BY <1>6, <1>7, TallyIs

(* Two parts of a collection.                                              *)
LEMMA TallyOfPart ==
  ASSUME NEW games, NEW A \in SUBSET DOMAIN games, NEW p
  PROVE  /\ DOMAIN Restrict(games, A) = A
         /\ \A x \in A : Restrict(games, A)[x] = games[x]
         /\ PlayedBy(p, Restrict(games, A)) = PlayedBy(p, games) \cap A
         /\ Drawn(p, Restrict(games, A)) = Drawn(p, games) \cap A
         /\ Won(p, Restrict(games, A)) = Won(p, games) \cap A
<1>1. DOMAIN Restrict(games, A) = A /\ \A x \in A : Restrict(games, A)[x] = games[x]
  BY DEF Restrict
<1>2. PlayedBy(p, Restrict(games, A)) = PlayedBy(p, games) \cap A
  BY <1>1 DEF PlayedBy
<1>3. Drawn(p, Restrict(games, A)) = Drawn(p, games) \cap A
  BY <1>1, <1>2 DEF Drawn
<1>4. Won(p, Restrict(games, A)) = Won(p, games) \cap A
  BY <1>1, <1>2, <1>3 DEF Won
<1>5. QED
  BY <1>1, <1>2, <1>3, <1>4

LEMMA TallyUnion ==
  ASSUME NEW games, IsTimed(games, DOMAIN games), NEW A, NEW B,
         DOMAIN games = A \cup B, A \cap B = {}, NEW p
  PROVE  /\ Tally(p, games) = Plus(Tally(p, Restrict(games, A)), Tally(p, Restrict(games, B)))
         /\ Tally(p, Restrict(games, A)) \in Record
         /\ Tally(p, Restrict(games, B)) \in Record
<1> DEFINE a == Restrict(games, A)
           b == Restrict(games, B)
<1>1. A \in SUBSET DOMAIN games /\ B \in SUBSET DOMAIN games
  OBVIOUS
<1>2. /\ DOMAIN a = A /\ \A x \in A : a[x] = games[x]
      /\ PlayedBy(p, a) = PlayedBy(p, games) \cap A
      /\ Drawn(p, a) = Drawn(p, games) \cap A
      /\ Won(p, a) = Won(p, games) \cap A
  BY <1>1, TallyOfPart
<1>3. /\ DOMAIN b = B /\ \A x \in B : b[x] = games[x]
      /\ PlayedBy(p, b) = PlayedBy(p, games) \cap B
      /\ Drawn(p, b) = Drawn(p, games) \cap B
      /\ Won(p, b) = Won(p, games) \cap B
  BY <1>1, TallyOfPart
<1> HIDE DEF a, b
<1>4. IsTimed(a, A) /\ IsTimed(b, B)
  BY <1>1, <1>2, <1>3, FS_Subset DEF IsTimed
<1>5. ASSUME NEW S \in SUBSET DOMAIN games
      PROVE  /\ Cardinality(S) = Cardinality(S \cap A) + Cardinality(S \cap B)
             /\ Cardinality(S \cap A) \in Nat /\ Cardinality(S \cap B) \in Nat
  <2>1. IsFiniteSet(S \cap A) /\ IsFiniteSet(S \cap B)
    BY FS_Subset DEF IsTimed
  <2>2. (S \cap A) \cup (S \cap B) = S /\ (S \cap A) \cap (S \cap B) = {}
    OBVIOUS
  <2>3. QED
    BY <2>1, <2>2, DisjointCardinality
<1>6. ASSUME NEW part, NEW C \in SUBSET DOMAIN games, NEW S \in SUBSET C,
             \A x \in C : part[x] = games[x]
      PROVE  TimeOf(part, S) = TimeOf(games, S)
  <2>1. IsTimed(part, S) /\ IsTimed(games, S)
    BY <1>6, FS_Subset DEF IsTimed
  <2>2. Renames([x \in S |-> x], S, part, games) /\ Image([x \in S |-> x], S) = S
    BY <1>6 DEF Renames, Image
  <2>3. QED
    BY <2>1, <2>2, TimeRenamed
<1>7. TimeOf(games, PlayedBy(p, games)) = TimeOf(a, PlayedBy(p, a)) + TimeOf(b, PlayedBy(p, b))
  <2>1. PlayedBy(p, games) = PlayedBy(p, a) \cup PlayedBy(p, b)
    BY <1>2, <1>3 DEF PlayedBy
  <2>2. PlayedBy(p, a) \cap PlayedBy(p, b) = {}
    BY <1>2, <1>3
  <2>3. IsTimed(games, PlayedBy(p, a)) /\ IsTimed(games, PlayedBy(p, b))
    BY <1>1, <1>2, <1>3, TimedPart
  <2>4. TimeOf(a, PlayedBy(p, a)) = TimeOf(games, PlayedBy(p, a))
    BY <1>1, <1>2, <1>6
  <2>5. TimeOf(b, PlayedBy(p, b)) = TimeOf(games, PlayedBy(p, b))
    BY <1>1, <1>3, <1>6
  <2>6. QED
    BY <2>1, <2>2, <2>3, <2>4, <2>5, TimeOfUnion
<1>8. Tally(p, a) \in Record /\ Tally(p, b) \in Record
  BY <1>2, <1>3, <1>4, TallyType
<1>9. /\ PlayedBy(p, games) \in SUBSET DOMAIN games
      /\ Won(p, games) \in SUBSET DOMAIN games
      /\ Drawn(p, games) \in SUBSET DOMAIN games
  BY DEF PlayedBy, Won, Drawn
<1>10. /\ Cardinality(PlayedBy(p, games)) = Cardinality(PlayedBy(p, a)) + Cardinality(PlayedBy(p, b))
       /\ Cardinality(Won(p, games)) = Cardinality(Won(p, a)) + Cardinality(Won(p, b))
       /\ Cardinality(Drawn(p, games)) = Cardinality(Drawn(p, a)) + Cardinality(Drawn(p, b))
       /\ Cardinality(PlayedBy(p, a)) \in Nat /\ Cardinality(PlayedBy(p, b)) \in Nat
       /\ Cardinality(Won(p, a)) \in Nat /\ Cardinality(Won(p, b)) \in Nat
       /\ Cardinality(Drawn(p, a)) \in Nat /\ Cardinality(Drawn(p, b)) \in Nat
  BY <1>2, <1>3, <1>5, <1>9
<1>11. Tally(p, games) = Plus(Tally(p, a), Tally(p, b))
  <2>1. Plus(Tally(p, a), Tally(p, b)) =
          [wins |-> Tally(p, a).wins + Tally(p, b).wins,
           loses |-> Tally(p, a).loses + Tally(p, b).loses,
           draws |-> Tally(p, a).draws + Tally(p, b).draws,
           total_game_time |-> Tally(p, a).total_game_time + Tally(p, b).total_game_time]
    BY <1>8, PlusMinus
  <2>2. Cardinality(PlayedBy(p, games)) - Cardinality(Won(p, games)) - Cardinality(Drawn(p, games))
          = (Cardinality(PlayedBy(p, a)) - Cardinality(Won(p, a)) - Cardinality(Drawn(p, a)))
          + (Cardinality(PlayedBy(p, b)) - Cardinality(Won(p, b)) - Cardinality(Drawn(p, b)))
    BY <1>10
  <2>3. QED
    BY <1>7, <1>10, <2>1, <2>2, TallyIs
<1>12. QED
  BY <1>8, <1>11 DEF a, b

(* The same from two collections that hold its parts under other names.    *)
IsPart(a, h, A, games) ==
  IsTimed(a, DOMAIN a) /\ Renames(h, DOMAIN a, a, games) /\ Image(h, DOMAIN a) = A

LEMMA TallyOfPartIs ==
  ASSUME NEW games, NEW A \in SUBSET DOMAIN games, NEW a, NEW h, IsPart(a, h, A, games), NEW p
  PROVE  Tally(p, Restrict(games, A)) = Tally(p, a)
<1>1. PICK part : part = Restrict(games, A)
  OBVIOUS
<1>2. DOMAIN part = A /\ \A x \in A : part[x] = games[x]
  BY <1>1 DEF Restrict
<1>3. \A x \in DOMAIN a : h[x] \in A
  BY DEF IsPart, Image
<1>4. Renames(h, DOMAIN a, a, part) /\ DOMAIN part = Image(h, DOMAIN a)
  BY <1>2, <1>3 DEF IsPart, Renames
<1>5. Tally(p, part) = Tally(p, a)
  BY <1>4, TallyRenamed DEF IsPart
<1>6. QED
  BY <1>1, <1>5

LEMMA TallyOfParts ==
  ASSUME NEW games, IsTimed(games, DOMAIN games), NEW A, NEW B,
         DOMAIN games = A \cup B, A \cap B = {},
         NEW a, NEW f, IsPart(a, f, A, games), NEW b, NEW h, IsPart(b, h, B, games), NEW p
  PROVE  /\ Tally(p, games) = Plus(Tally(p, a), Tally(p, b))
         /\ Tally(p, a) \in Record /\ Tally(p, b) \in Record
<1>1. Tally(p, Restrict(games, A)) = Tally(p, a) /\ Tally(p, Restrict(games, B)) = Tally(p, b)
  BY TallyOfPartIs
<1>2. /\ Tally(p, games) = Plus(Tally(p, Restrict(games, A)), Tally(p, Restrict(games, B)))
      /\ Tally(p, Restrict(games, A)) \in Record
      /\ Tally(p, Restrict(games, B)) \in Record
  BY TallyUnion
<1>3. QED
  BY <1>1, <1>2

(* A part under its own names.                                             *)
LEMMA PartOfItself ==
  ASSUME NEW games, NEW a, IsTimed(a, DOMAIN a), DOMAIN a \subseteq DOMAIN games,
         \A x \in DOMAIN a : games[x] = a[x]
  PROVE  IsPart(a, [x \in DOMAIN a |-> x], DOMAIN a, games)
  BY DEF IsPart, Renames, Image

LEMMA TallyOfSame ==
  ASSUME NEW old, IsTimed(old, DOMAIN old), NEW new, DOMAIN new = DOMAIN old,
         \A x \in DOMAIN old : new[x] = old[x], NEW p
  PROVE  Tally(p, new) = Tally(p, old)
<1>1. PICK h : h = [x \in DOMAIN old |-> x]
  OBVIOUS
<1>2. Renames(h, DOMAIN old, old, new) /\ DOMAIN new = Image(h, DOMAIN old)
  BY <1>1 DEF Renames, Image
<1>3. QED
  BY <1>2, TallyRenamed

LEMMA PlusThenMinus ==
  ASSUME NEW r \in Record, NEW s \in Record
  PROVE  Minus(Plus(r, s), s) = r
<1>1. PICK w \in Int, l \in Int, d \in Int, time \in Int :
        r = [wins |-> w, loses |-> l, draws |-> d, total_game_time |-> time]
  BY DEF Record
<1>2. PICK w2 \in Int, l2 \in Int, d2 \in Int, time2 \in Int :
        s = [wins |-> w2, loses |-> l2, draws |-> d2, total_game_time |-> time2]
  BY DEF Record
<1>3. Plus(r, s) = [wins |-> w + w2, loses |-> l + l2, draws |-> d + d2,
                    total_game_time |-> time + time2]
  BY <1>1, <1>2, PlusMinus
<1>4. Minus(Plus(r, s), s) = [wins |-> w + w2 - w2, loses |-> l + l2 - l2, draws |-> d + d2 - d2,
                              total_game_time |-> time + time2 - time2]
  <2>1. PICK x \in Record : x = Plus(r, s)
    BY PlusMinus
  <2>2. Minus(x, s) = [wins |-> x.wins - s.wins, loses |-> x.loses - s.loses,
                       draws |-> x.draws - s.draws,
                       total_game_time |-> x.total_game_time - s.total_game_time]
    BY PlusMinus
  <2>3. QED
    BY <1>2, <1>3, <2>1, <2>2
<1>5. w + w2 - w2 = w /\ l + l2 - l2 = l /\ d + d2 - d2 = d /\ time + time2 - time2 = time
  OBVIOUS
<1>6. QED
  BY <1>1, <1>4, <1>5

LEMMA TallyOfNone ==
  ASSUME NEW p, NEW games, PlayedBy(p, games) = {}
  PROVE  Tally(p, games) = NoRecord
<1>1. Won(p, games) = {} /\ Drawn(p, games) = {}
  BY DEF Won, Drawn
<1>2. IsTimed(games, {})
  BY FS_EmptySet DEF IsTimed
<1>3. Cardinality({}) = 0 /\ TimeOf(games, {}) = 0
  BY <1>2, FS_EmptySet, TimeProperties
<1>4. QED
  BY <1>1, <1>3, TallyIs DEF NoRecord

-----------------------------------------------------------------------------
(* ByKey lists its domain in the order of the keys, each element once.     *)
IsKey(key) ==
  /\ IsFiniteSet(DOMAIN key)
  /\ \A x \in DOMAIN key : key[x] \in Int
  /\ \A x, y \in DOMAIN key : key[x] = key[y] => x = y

LEMMA ByKeyProperties ==
  ASSUME NEW key, IsKey(key)
  PROVE  /\ ByKey(key) \in Seq(DOMAIN key)
         /\ Len(ByKey(key)) = Cardinality(DOMAIN key)
         /\ \A i \in 1 .. Len(ByKey(key)) : ByKey(key)[i] \in DOMAIN key
         /\ \A i, j \in 1 .. Len(ByKey(key)) : i < j => key[ByKey(key)[i]] < key[ByKey(key)[j]]
         /\ \A x \in DOMAIN key : \E i \in 1 .. Len(ByKey(key)) : ByKey(key)[i] = x
<1> DEFINE D == DOMAIN key
           n == Cardinality(D)
           Below(x) == {y \in D : key[y] < key[x]}
           Rank(x) == Cardinality(Below(x))
           s == ByKey(key)
<1>0. n \in Nat /\ IsFiniteSet(D) /\ \A x \in D : key[x] \in Int
  BY FS_CardinalityType DEF IsKey
<1>1. ASSUME NEW x \in D
      PROVE  IsFiniteSet(Below(x)) /\ Rank(x) \in Nat /\ Rank(x) <= n - 1
  <2>1. Below(x) \in SUBSET D /\ x \notin Below(x)
    BY <1>0
  <2>2. IsFiniteSet(Below(x)) /\ Cardinality(Below(x)) <= n /\ Cardinality(Below(x)) # n
    BY <1>0, <2>1, FS_Subset
  <2>3. Cardinality(Below(x)) \in Nat
    BY <2>2, FS_CardinalityType
  <2>4. QED
    BY <1>0, <2>2, <2>3
<1>2. ASSUME NEW x \in D, NEW y \in D, key[x] < key[y]
      PROVE  Rank(x) < Rank(y)
  <2>1. Below(x) \in SUBSET Below(y) /\ x \in Below(y) /\ x \notin Below(x)
    BY <1>0, <1>2
  <2>2. Cardinality(Below(x)) <= Cardinality(Below(y)) /\ Cardinality(Below(x)) # Cardinality(Below(y))
    BY <1>1, <2>1, FS_Subset
  <2>3. Rank(x) \in Nat /\ Rank(y) \in Nat
    BY <1>1
  <2>4. QED
    BY <2>2, <2>3
<1>a. \A x \in D : Rank(x) \in Nat /\ Rank(x) <= n - 1
  BY <1>1
<1>b. \A x, y \in D : key[x] < key[y] => Rank(x) < Rank(y)
  BY <1>2
<1> HIDE DEF Rank
<1>3. \A x, y \in D : Rank(x) = Rank(y) => x = y
  <2>1. ASSUME NEW x \in D, NEW y \in D, Rank(x) = Rank(y)
        PROVE  x = y
    <3>1. ~ (Rank(x) < Rank(y)) /\ ~ (Rank(y) < Rank(x))
      BY <1>a, <2>1
    <3>2. ~ (key[x] < key[y]) /\ ~ (key[y] < key[x])
      BY <1>b, <3>1
    <3>3. key[x] = key[y]
      BY <1>0, <3>2
    <3>4. QED
      BY <3>3 DEF IsKey
  <2>2. QED
    BY <2>1
<1>4. \A k \in 0 .. n - 1 : \E x \in D : Rank(x) = k
  <2> DEFINE rank == [x \in D |-> Rank(x)]
  <2>1. rank \in Injection(D, 0 .. n - 1)
    <3>1. \A x \in D : Rank(x) \in 0 .. n - 1
      BY <1>0, <1>a
    <3>2. QED
      BY <1>3, <3>1 DEF Injection, IsInjective
  <2>2. IsFiniteSet(0 .. n - 1) /\ Cardinality(0 .. n - 1) = n
    <3>1. 0 \in Int /\ n - 1 \in Int
      BY <1>0
    <3>2. IsFiniteSet(0 .. n - 1) /\ Cardinality(0 .. n - 1) = IF 0 > n - 1 THEN 0 ELSE n - 1 - 0 + 1
      BY <3>1, FS_Interval
    <3>3. QED
      BY <1>0, <3>2
  <2>3. rank \in Surjection(D, 0 .. n - 1)
    BY <2>1, <2>2, FS_Injection
  <2>4. QED
    BY <2>3 DEF Surjection
<1>5. s = [i \in 1 .. n |-> CHOOSE x \in D : Rank(x) = i - 1]
  BY DEF ByKey, Rank
<1> HIDE DEF s
<1>6. ASSUME NEW i \in 1 .. n
      PROVE  s[i] \in D /\ Rank(s[i]) = i - 1
  <2>1. i - 1 \in 0 .. n - 1
    BY <1>0
  <2>2. \E x \in D : Rank(x) = i - 1
    BY <1>4, <2>1
  <2>3. QED
    BY <1>5, <2>2
<1>7. s \in Seq(D) /\ Len(s) = n
  <2>1. s \in [1 .. n -> D]
    BY <1>5, <1>6
  <2>2. QED
    BY <1>0, <2>1
<1>8. ASSUME NEW i \in 1 .. n, NEW j \in 1 .. n, i < j
      PROVE  key[s[i]] < key[s[j]]
  <2>1. s[i] \in D /\ s[j] \in D /\ Rank(s[i]) < Rank(s[j])
    BY <1>0, <1>6, <1>8
  <2>2. ~ (Rank(s[j]) < Rank(s[i])) /\ Rank(s[j]) # Rank(s[i])
    BY <1>a, <2>1
  <2>3. ~ (key[s[j]] < key[s[i]]) /\ s[i] # s[j]
    BY <1>b, <2>1, <2>2
  <2>4. key[s[i]] # key[s[j]]
    BY <2>1, <2>3 DEF IsKey
  <2>5. QED
    BY <1>0, <2>1, <2>3, <2>4
<1>9. ASSUME NEW x \in D
      PROVE  \E i \in 1 .. n : s[i] = x
  <2>1. Rank(x) + 1 \in 1 .. n /\ (Rank(x) + 1) - 1 = Rank(x)
    BY <1>0, <1>a
  <2>2. s[Rank(x) + 1] \in D /\ Rank(s[Rank(x) + 1]) = Rank(x)
    BY <1>6, <2>1
  <2>3. QED
    BY <1>3, <2>1, <2>2
<1>10. QED
  BY <1>6, <1>7, <1>8, <1>9 DEF s

-----------------------------------------------------------------------------
(* The loop of checkWinner.                                                *)
BestSoFar(columns, best, n) ==
  [i \in 0 .. n |->
     IF i = 0 THEN [index |-> 1, points |-> 0, loses |-> 0, wins |-> 0]
     ELSE nextBest(best[i - 1], columns[i], i, columns[best[i - 1].index])]

LEMMA BestExists ==
  ASSUME NEW columns, NEW n \in Nat
  PROVE  \E f : f = BestSoFar(columns, f, n)
<1> DEFINE IsBest(f, k) == f = BestSoFar(columns, f, k)
           D == {k \in Nat : ~ \E f : IsBest(f, k)}
<1>1. SUFFICES ASSUME D # {}
               PROVE  FALSE
  OBVIOUS
<1>2. PICK k \in Nat : k \in D /\ \A j \in D : k <= j
  <2>1. D \subseteq Nat
    OBVIOUS
  <2>2. QED
    BY <1>1, <2>1, MinProperties
<1>3. CASE k = 0
  <2>1. IsBest([i \in 0 .. 0 |-> [index |-> 1, points |-> 0, loses |-> 0, wins |-> 0]], 0)
    BY DEF BestSoFar
  <2>2. QED
    <3> HIDE DEF IsBest
    <3>1. QED
      BY <1>2, <1>3, <2>1
<1>4. CASE k # 0
  <2>1. k - 1 \in Nat /\ k - 1 \notin D
    <3> HIDE DEF D
    <3>1. QED
      BY <1>2, <1>4
  <2>2. PICK f : IsBest(f, k - 1)
    BY <2>1
  <2>3. DEFINE last == nextBest(f[k - 1], columns[k], k, columns[f[k - 1].index])
               g == [i \in 0 .. k |-> IF i = k THEN last ELSE f[i]]
  <2> HIDE DEF last
  <2>4. ASSUME NEW i \in 0 .. k
        PROVE  g[i] = BestSoFar(columns, g, k)[i]
    <3>1. CASE i = 0
      BY <1>4, <2>2, <3>1 DEF BestSoFar
    <3>2. CASE i # 0 /\ i # k
      <4>1. i \in 0 .. k - 1 /\ i - 1 \in 0 .. k - 1 /\ i - 1 \in 0 .. k
        BY <3>2
      <4>2. g[i] = f[i] /\ g[i - 1] = f[i - 1]
        BY <3>2, <4>1
      <4>3. f[i] = nextBest(f[i - 1], columns[i], i, columns[f[i - 1].index])
        BY <2>2, <3>2, <4>1 DEF BestSoFar
      <4>4. QED
        BY <3>2, <4>2, <4>3 DEF BestSoFar
    <3>3. CASE i = k
      <4>1. k - 1 \in 0 .. k /\ g[k - 1] = f[k - 1] /\ g[k] = last
        BY <1>4
      <4>2. QED
        BY <1>4, <3>3, <4>1 DEF BestSoFar, last
    <3>4. QED
      BY <3>1, <3>2, <3>3
  <2>5. IsBest(g, k)
    <3>1. g = [i \in 0 .. k |-> BestSoFar(columns, g, k)[i]]
      <4> HIDE DEF g
      <4>1. DOMAIN g = 0 .. k /\ g = [i \in 0 .. k |-> g[i]]
        BY DEF g
      <4>2. QED
        BY <2>4, <4>1
    <3>2. BestSoFar(columns, g, k) = [i \in 0 .. k |-> BestSoFar(columns, g, k)[i]]
      BY DEF BestSoFar
    <3>3. QED
      BY <3>1, <3>2
  <2>6. QED
    <3> HIDE DEF IsBest
    <3>1. QED
      BY <1>2, <2>5
<1>5. QED
  BY <1>3, <1>4

(* What the loop remembers after i columns: as long as nobody has points,  *)
(* nothing; then a column with the most points and, among those, the       *)
(* fewest losses.                                                          *)
ColumnTypes == [id : Int, points : Int, loses : Int, wins : Int]

BestTypes(n) == [index : 1 .. n, points : Int, loses : Int, wins : Int]

NotWorse(best, column) ==
  \/ column.points < best.points
  \/ column.points = best.points /\ (best.points > 0 => best.loses <= column.loses)

Leads(columns, n, best, i) ==
  /\ best \in BestTypes(n) /\ best.points >= 0
  /\ best.points > 0 => /\ columns[best.index].points = best.points
                        /\ columns[best.index].loses = best.loses
  /\ \A j \in 1 .. i : NotWorse(best, columns[j])

LEMMA NextLeads ==
  ASSUME NEW n \in Nat, NEW columns \in [1 .. n -> ColumnTypes], NEW i \in 1 .. n,
         NEW best, Leads(columns, n, best, i - 1), NEW leader
  PROVE  Leads(columns, n, nextBest(best, columns[i], i, leader), i)
<1> DEFINE c == columns[i]
           all == [index |-> i, points |-> c.points, loses |-> c.loses, wins |-> c.wins]
           next == nextBest(best, c, i, leader)
<1>1. c \in ColumnTypes /\ c.points \in Int /\ c.loses \in Int /\ c.wins \in Int
  BY DEF ColumnTypes
<1>2. /\ best \in BestTypes(n) /\ best.points \in Int /\ best.loses \in Int
      /\ best.points >= 0
      /\ \A j \in 1 .. i - 1 : NotWorse(best, columns[j])
  BY DEF Leads, BestTypes
<1>3. \A j \in 1 .. i : columns[j].points \in Int /\ columns[j].loses \in Int /\ (j \in 1 .. i - 1 \/ j = i)
  BY DEF ColumnTypes
<1>4. /\ all \in BestTypes(n) /\ all.points = c.points /\ all.loses = c.loses /\ all.index = i
  BY <1>1 DEF BestTypes
<1> HIDE DEF c, all
<1>5. CASE c.points > best.points
  <2>0. c.points # best.points
    BY <1>1, <1>2, <1>5
  <2>1. next = all
    BY <1>5, <2>0 DEF nextBest, all
  <2>2. \A j \in 1 .. i : NotWorse(all, columns[j])
    <3>1. \A j \in 1 .. i - 1 : columns[j].points <= best.points
      BY <1>2, <1>3 DEF NotWorse
    <3>2. \A j \in 1 .. i - 1 : columns[j].points < all.points
      BY <1>1, <1>2, <1>3, <1>4, <1>5, <3>1
    <3>3. NotWorse(all, c)
      BY <1>1, <1>4 DEF NotWorse
    <3>4. QED
      BY <1>3, <3>2, <3>3 DEF NotWorse, c
  <2>3. QED
    BY <1>1, <1>2, <1>4, <1>5, <2>1, <2>2 DEF Leads, c
<1>6. CASE c.points = best.points /\ c.loses < best.loses
  <2>0. ~ (c.points > best.points) /\ c.loses # best.loses
    BY <1>1, <1>2, <1>6
  <2>1. next = [best EXCEPT !.index = i, !.loses = c.loses]
    BY <1>6, <2>0 DEF nextBest
  <2>2. next \in BestTypes(n) /\ next.points = best.points /\ next.loses = c.loses /\ next.index = i
    BY <1>1, <1>2, <2>1 DEF BestTypes
  <2> HIDE DEF next
  <2>3. \A j \in 1 .. i : NotWorse(next, columns[j])
    BY <1>1, <1>2, <1>3, <1>6, <2>2 DEF NotWorse, c
  <2>4. QED
    BY <1>1, <1>2, <1>6, <2>2, <2>3 DEF Leads, c, next
<1>7. CASE /\ ~ (c.points > best.points) /\ ~ (c.points = best.points /\ c.loses < best.loses)
           /\ c.points = best.points /\ c.loses = best.loses
           /\ (c.wins > best.wins \/ (c.wins = best.wins /\ c.id < leader.id))
  <2>1. next = all
    BY <1>7 DEF nextBest, all
  <2>2. \A j \in 1 .. i : NotWorse(all, columns[j])
    BY <1>1, <1>2, <1>3, <1>4, <1>7 DEF NotWorse, c
  <2>3. QED
    BY <1>1, <1>2, <1>4, <1>7, <2>1, <2>2 DEF Leads, c
<1>8. CASE /\ ~ (c.points > best.points) /\ ~ (c.points = best.points /\ c.loses < best.loses)
           /\ ~ (/\ c.points = best.points /\ c.loses = best.loses
                 /\ (c.wins > best.wins \/ (c.wins = best.wins /\ c.id < leader.id)))
  <2>1. next = best
    BY <1>8 DEF nextBest
  <2>2. NotWorse(best, c)
    BY <1>1, <1>2, <1>8 DEF NotWorse
  <2>3. \A j \in 1 .. i : NotWorse(best, columns[j])
    BY <1>2, <1>3, <2>2 DEF c
  <2>4. QED
    BY <2>1, <2>3 DEF Leads, c
<1>9. QED
  BY <1>5, <1>6, <1>7, <1>8

LEMMA BestLeads ==
  ASSUME NEW n \in Nat \ {0}, NEW columns \in [1 .. n -> ColumnTypes],
         NEW f, f = BestSoFar(columns, f, n)
  PROVE  \A i \in 0 .. n : Leads(columns, n, f[i], i)
<1> DEFINE D == {i \in 0 .. n : ~ Leads(columns, n, f[i], i)}
<1>1. SUFFICES ASSUME D # {}
               PROVE  FALSE
  OBVIOUS
<1>2. PICK i \in 0 .. n : i \in D /\ \A j \in D : i <= j
  <2>1. D \subseteq Nat
    OBVIOUS
  <2>2. QED
    BY <1>1, <2>1, MinProperties
<1>3. CASE i = 0
  <2>1. f[0] = [index |-> 1, points |-> 0, loses |-> 0, wins |-> 0]
    BY DEF BestSoFar
  <2>2. Leads(columns, n, f[0], 0)
    BY <2>1 DEF Leads, BestTypes
  <2>3. QED
    BY <1>2, <1>3, <2>2
<1>4. CASE i # 0
  <2>1. i \in 1 .. n /\ i - 1 \in 0 .. n /\ ~ (i <= i - 1)
    BY <1>4
  <2>2. Leads(columns, n, f[i - 1], i - 1)
    <3>1. i - 1 \notin D
      <4> HIDE DEF D
      <4>1. QED
        BY <1>2, <2>1
    <3>2. QED
      BY <2>1, <3>1
  <2>3. f[i] = nextBest(f[i - 1], columns[i], i, columns[f[i - 1].index])
    BY <1>4, <2>1 DEF BestSoFar
  <2>4. Leads(columns, n, f[i], i)
    <3>1. PICK best, leader : best = f[i - 1] /\ leader = columns[f[i - 1].index]
      OBVIOUS
    <3>2. Leads(columns, n, nextBest(best, columns[i], i, leader), i)
      BY <2>1, <2>2, <3>1, NextLeads
    <3>3. QED
      BY <2>3, <3>1, <3>2
  <2>5. QED
    BY <1>2, <2>4
<1>5. QED
  BY <1>3, <1>4

IsTop(columns, n, w) ==
  (\E j \in 1 .. n : columns[j].points > 0) =>
     /\ columns[w].points > 0
     /\ \A j \in 1 .. n :
          \/ columns[w].points > columns[j].points
          \/ /\ columns[w].points = columns[j].points
             /\ columns[w].loses <= columns[j].loses

LEMMA CheckWinnerProperties ==
  ASSUME NEW n \in Nat \ {0}, NEW columns \in [1 .. n -> ColumnTypes], Len(columns) = n
  PROVE  \E w \in 1 .. n : checkWinner(columns) = columns[w].id /\ IsTop(columns, n, w)
<1> DEFINE best == CHOOSE f : f = BestSoFar(columns, f, n)
<1>1. best = BestSoFar(columns, best, n)
  BY BestExists
<1>2. checkWinner(columns) = columns[best[n].index].id
  BY DEF checkWinner, BestSoFar
<1> HIDE DEF best
<1>3. Leads(columns, n, best[n], n)
  <2>1. n \in 0 .. n
    OBVIOUS
  <2>2. PICK f : f = best
    OBVIOUS
  <2>3. \A i \in 0 .. n : Leads(columns, n, f[i], i)
    BY <1>1, <2>2, BestLeads
  <2>4. QED
    BY <2>1, <2>2, <2>3
<1>4. PICK w \in 1 .. n : w = best[n].index
  BY <1>3 DEF Leads, BestTypes
<1>5. \A j \in 1 .. n : columns[j].points \in Int /\ columns[j].loses \in Int
  BY DEF ColumnTypes
<1>6. best[n].points \in Int /\ best[n].loses \in Int
  BY <1>3 DEF Leads, BestTypes
<1>7. ASSUME NEW k \in 1 .. n, columns[k].points > 0
      PROVE  /\ columns[w].points > 0
             /\ \A j \in 1 .. n :
                  \/ columns[w].points > columns[j].points
                  \/ /\ columns[w].points = columns[j].points
                     /\ columns[w].loses <= columns[j].loses
  <2>1. best[n].points > 0
    BY <1>3, <1>5, <1>6, <1>7 DEF Leads, NotWorse
  <2>2. columns[w].points = best[n].points /\ columns[w].loses = best[n].loses
    BY <1>3, <1>4, <2>1 DEF Leads
  <2>3. QED
    BY <1>3, <1>5, <1>6, <2>1, <2>2 DEF Leads, NotWorse
<1>8. QED
  BY <1>2, <1>4, <1>7 DEF IsTop

-----------------------------------------------------------------------------
(* The order of levels: quotients compared by their cross products.        *)
Fractions == [num : Int, den : Nat \ {0}]

LEMMA TimesPositive ==
  ASSUME NEW x \in Int, NEW y \in Int, NEW d \in Nat \ {0}
  PROVE  x < y <=> x * d < y * d
  OBVIOUS

LEMMA CrossLess ==
  ASSUME NEW a \in Int, NEW b \in Nat \ {0}, NEW c \in Int, NEW d \in Nat \ {0},
         NEW e \in Int, NEW f \in Nat \ {0},
         \/ a * d < c * b /\ ~ (e * d < c * f)
         \/ ~ (c * b < a * d) /\ c * f < e * d
  PROVE  a * f < e * b
<1>1. CASE a * d < c * b /\ ~ (e * d < c * f)
  <2>1. (a * d) * f < (c * b) * f
    BY <1>1, TimesPositive
  <2>2. ~ ((e * d) * b < (c * f) * b)
    BY <1>1, TimesPositive
  <2>3. (a * f) * d < (e * b) * d
    BY <2>1, <2>2
  <2>4. QED
    BY <2>3, TimesPositive
<1>2. CASE ~ (c * b < a * d) /\ c * f < e * d
  <2>1. ~ ((c * b) * f < (a * d) * f)
    BY <1>2, TimesPositive
  <2>2. (c * f) * b < (e * d) * b
    BY <1>2, TimesPositive
  <2>3. (a * f) * d < (e * b) * d
    BY <2>1, <2>2
  <2>4. QED
    BY <2>3, TimesPositive
<1>3. QED
  BY <1>1, <1>2

LEMMA LevelOrder ==
  ASSUME NEW a \in Fractions, NEW b \in Fractions, NEW c \in Fractions
  PROVE  /\ Less(a, b) => ~ Less(b, a)
         /\ SameLevel(a, b) <=> ~ Less(a, b) /\ ~ Less(b, a)
         /\ Less(a, b) /\ ~ Less(c, b) => Less(a, c)
         /\ ~ Less(b, a) /\ Less(b, c) => Less(a, c)
<1>1. /\ a.num \in Int /\ b.num \in Int /\ c.num \in Int
      /\ a.den \in Nat \ {0} /\ b.den \in Nat \ {0} /\ c.den \in Nat \ {0}
  BY DEF Fractions
<1>2. a.num * b.den \in Int /\ b.num * a.den \in Int
  BY <1>1
<1>3. (Less(a, b) /\ ~ Less(c, b)) \/ (~ Less(b, a) /\ Less(b, c)) => Less(a, c)
  BY <1>1, CrossLess DEF Less
<1>4. QED
  BY <1>2, <1>3 DEF Less, SameLevel

(* The levels that chessSavePlayersLevels sorts, in the order of the       *)
(* players' identifiers.                                                   *)
AreLevels(levels, n) ==
  /\ levels \in [1 .. n -> [id : Int, level : Fractions]]
  /\ \A i, j \in 1 .. n : i < j => levels[i].id < levels[j].id

Under(levels, i, j) == Less(levels[i].level, levels[j].level)

Beside(levels, i, j) == SameLevel(levels[i].level, levels[j].level)

IsOrder(levels, n) ==
  \A i, j, k \in 1 .. n :
    /\ Under(levels, i, j) => ~ Under(levels, j, i)
    /\ Beside(levels, i, j) <=> ~ Under(levels, i, j) /\ ~ Under(levels, j, i)
    /\ Under(levels, i, j) /\ ~ Under(levels, k, j) => Under(levels, i, k)
    /\ ~ Under(levels, j, i) /\ Under(levels, j, k) => Under(levels, i, k)

LEMMA LevelsOrdered ==
  ASSUME NEW n \in Nat, NEW levels, AreLevels(levels, n)
  PROVE  IsOrder(levels, n)
<1>1. \A i \in 1 .. n : levels[i].level \in Fractions
  BY DEF AreLevels
<1>2. QED
  BY <1>1, LevelOrder DEF IsOrder, Under, Beside

Highest(levels, S) == {i \in S : \A j \in S : ~ Less(levels[i].level, levels[j].level)}

LEMMA HighestExists ==
  ASSUME NEW n \in Nat, NEW levels, IsOrder(levels, n), NEW S \in SUBSET (1 .. n), S # {}
  PROVE  Min(Highest(levels, S)) \in Highest(levels, S)
<1> DEFINE Above(i) == {j \in S : Under(levels, i, j)}
           N == {Cardinality(Above(i)) : i \in S}
<1>0. S \subseteq 1 .. n /\ \A i \in S : i \in Nat
  OBVIOUS
<1>1. ASSUME NEW i \in S
      PROVE  IsFiniteSet(Above(i)) /\ Cardinality(Above(i)) \in Nat
  <2>1. IsFiniteSet(1 .. n)
    BY FS_Interval
  <2>2. IsFiniteSet(S)
    BY <1>0, <2>1, FS_Subset
  <2>3. Above(i) \in SUBSET S
    OBVIOUS
  <2>4. QED
    BY <2>2, <2>3, FS_Subset, FS_CardinalityType
<1>a. \A i \in S : Cardinality(Above(i)) \in Nat
  BY <1>1
<1>b. \E i \in S : \A j \in S : Cardinality(Above(i)) <= Cardinality(Above(j))
  <2>1. N \subseteq Nat /\ N # {}
    BY <1>a
  <2>2. Min(N) \in N /\ \A k \in N : Min(N) <= k
    <3> HIDE DEF N
    <3>1. QED
      BY <2>1, MinProperties
  <2>3. QED
    BY <2>2
<1>3. PICK i \in S : \A j \in S : Cardinality(Above(i)) <= Cardinality(Above(j))
  BY <1>b
<1>4. ASSUME NEW j \in S, Under(levels, i, j)
      PROVE  FALSE
  <2>1. Above(j) \in SUBSET Above(i) /\ j \in Above(i) /\ j \notin Above(j)
    BY <1>0, <1>4 DEF IsOrder
  <2>2. Cardinality(Above(j)) <= Cardinality(Above(i)) /\ Cardinality(Above(j)) # Cardinality(Above(i))
    BY <1>1, <2>1, FS_Subset
  <2>3. Cardinality(Above(i)) <= Cardinality(Above(j))
    BY <1>3
  <2>4. Cardinality(Above(i)) \in Nat /\ Cardinality(Above(j)) \in Nat
    BY <1>a
  <2>5. QED
    <3> HIDE DEF Above
    <3>1. QED
      BY <2>2, <2>3, <2>4
<1>5. i \in Highest(levels, S)
  BY <1>4 DEF Highest, Under
<1>6. Highest(levels, S) \subseteq Nat
  BY <1>0 DEF Highest
<1>7. QED
  BY <1>5, <1>6, MinProperties

-----------------------------------------------------------------------------
(* Lines in falling order of levels, equal ones in the order of positions: *)
(* no position occurs twice, and all do when there are enough of them.     *)
InOrder(levels, lines) ==
  \A i, j \in 1 .. Len(lines) : i < j =>
    \/ Under(levels, lines[j], lines[i])
    \/ Beside(levels, lines[j], lines[i]) /\ lines[i] < lines[j]

Has(lines, j) == \E i \in 1 .. Len(lines) : lines[i] = j

LEMMA LinesFull ==
  ASSUME NEW n \in Nat, NEW levels, IsOrder(levels, n),
         NEW lines \in Seq(1 .. n), InOrder(levels, lines)
  PROVE  /\ Len(lines) \in Nat /\ Len(lines) <= n
         /\ Len(lines) >= n <=> \A j \in 1 .. n : Has(lines, j)
<1> DEFINE m == Len(lines)
<1>1. m \in Nat /\ lines \in [1 .. m -> 1 .. n]
  OBVIOUS
<1>2. ASSUME NEW i \in 1 .. m, NEW j \in 1 .. m, i < j, lines[i] = lines[j]
      PROVE  FALSE
  <2>1. lines[i] \in 1 .. n
    BY <1>1
  <2>2. PICK x \in 1 .. n : x = lines[i]
    BY <2>1
  <2>3. Under(levels, x, x) \/ (Beside(levels, x, x) /\ x < x)
    BY <1>2, <2>2 DEF InOrder
  <2>4. ~ (x < x)
    OBVIOUS
  <2>5. QED
    BY <2>3, <2>4 DEF IsOrder
<1>3. lines \in Injection(1 .. m, 1 .. n)
  <2>1. \A i, j \in 1 .. m : lines[i] = lines[j] => i = j
    <3>1. SUFFICES ASSUME NEW i \in 1 .. m, NEW j \in 1 .. m, lines[i] = lines[j]
                   PROVE  i = j
      OBVIOUS
    <3>2. ~ (i < j) /\ ~ (j < i)
      BY <1>2, <3>1
    <3>3. QED
      BY <3>2
  <2>2. QED
    BY <1>1, <2>1 DEF Injection, IsInjective
<1>4. /\ IsFiniteSet(1 .. n) /\ IsFiniteSet(1 .. m)
      /\ Cardinality(1 .. n) = n /\ Cardinality(1 .. m) = m
  <2>1. \A k \in Nat : IsFiniteSet(1 .. k) /\ Cardinality(1 .. k) = k
    BY FS_Interval
  <2>2. QED
    BY <1>1, <2>1
<1>5. m <= n /\ (m = n <=> lines \in Surjection(1 .. m, 1 .. n))
  BY <1>3, <1>4, FS_Injection
<1>6. lines \in Surjection(1 .. m, 1 .. n) <=> \A j \in 1 .. n : Has(lines, j)
  BY <1>1 DEF Surjection, Has
<1>7. m >= n <=> m = n
  <2>1. m <= n
    BY <1>5
  <2>2. m \in Nat
    BY <1>1
  <2>3. QED
    <3> HIDE DEF m
    <3>1. QED
      BY <2>1, <2>2
<1>8. QED
  BY <1>1, <1>5, <1>6, <1>7

-----------------------------------------------------------------------------
(* One round of printLevelsToFile's loop: the positions with the current   *)
(* level are printed, and the next smaller level becomes the current one.  *)
With(levels, n, number) ==
  ByKey([i \in {j \in 1 .. n : SameLevel(levels[j].level, number)} |-> i])

LEMMA WithProperties ==
  ASSUME NEW n \in Nat, NEW levels, IsOrder(levels, n), NEW x \in 1 .. n
  PROVE  LET same == With(levels, n, levels[x].level)
         IN  /\ same \in Seq(1 .. n) /\ Len(same) \in Nat /\ Len(same) >= 1
             /\ \A i \in 1 .. Len(same) : Beside(levels, same[i], x)
             /\ \A i, j \in 1 .. Len(same) : i < j => same[i] < same[j]
             /\ \A j \in 1 .. n : Beside(levels, j, x) => Has(same, j)
<1> DEFINE D == {j \in 1 .. n : SameLevel(levels[j].level, levels[x].level)}
           key == [i \in D |-> i]
           same == ByKey(key)
<1>1. D \subseteq 1 .. n /\ DOMAIN key = D /\ \A i \in D : key[i] = i
  OBVIOUS
<1>2. \A j \in 1 .. n : j \in D <=> Beside(levels, j, x)
  BY DEF Beside
<1>3. x \in D
  BY <1>2 DEF IsOrder
<1>4. IsFiniteSet(D)
  <2>1. IsFiniteSet(1 .. n)
    BY FS_Interval
  <2>2. QED
    BY <1>1, <2>1, FS_Subset
<1> HIDE DEF D
<1>5. IsKey(key)
  BY <1>1, <1>4 DEF IsKey
<1> HIDE DEF key
<1>6. /\ same \in Seq(D)
      /\ \A i \in 1 .. Len(same) : same[i] \in D
      /\ \A i, j \in 1 .. Len(same) : i < j => key[same[i]] < key[same[j]]
      /\ \A y \in D : \E i \in 1 .. Len(same) : same[i] = y
  BY <1>1, <1>5, ByKeyProperties
<1> HIDE DEF same
<1>7. same \in Seq(1 .. n) /\ Len(same) \in Nat
  <2>1. Len(same) \in Nat /\ same \in [1 .. Len(same) -> D]
    BY <1>6, LenProperties
  <2>2. same \in [1 .. Len(same) -> 1 .. n]
    BY <1>1, <2>1
  <2>3. QED
    BY <2>1, <2>2
<1>8. Len(same) >= 1
  <2>1. PICK i \in 1 .. Len(same) : same[i] = x
    BY <1>3, <1>6
  <2>2. QED
    BY <1>7
<1>9. \A i, j \in 1 .. Len(same) : i < j => same[i] < same[j]
  BY <1>1, <1>6
<1>10. \A j \in 1 .. n : Beside(levels, j, x) => Has(same, j)
  BY <1>2, <1>6 DEF Has
<1>11. \A i \in 1 .. Len(same) : Beside(levels, same[i], x)
  BY <1>1, <1>2, <1>6
<1>12. With(levels, n, levels[x].level) = same
  BY DEF With, same, key, D
<1>13. QED
  BY <1>7, <1>8, <1>9, <1>10, <1>11, <1>12

NextLines(levels, n, before) ==
  IF Len(before.lines) >= n THEN before
  ELSE LET number == levels[before.index].level
           lines  == before.lines \o With(levels, n, number)
       IN  [lines |-> lines,
            index |-> IF Len(lines) < n
                      THEN indexOfSmallClosesNumber(levels, number) ELSE 1]

(* What is printed after k rounds: at least k lines, in order; and if some *)
(* are left, all with a higher level than the current one.                 *)
Prints(levels, n, state, k) ==
  /\ state.lines \in Seq(1 .. n) /\ InOrder(levels, state.lines)
  /\ k <= Len(state.lines)
  /\ Len(state.lines) < n =>
       /\ state.index \in 1 .. n
       /\ \A j \in 1 .. n : Has(state.lines, j) <=> Under(levels, state.index, j)

LEMMA NextIndex ==
  ASSUME NEW n \in Nat, NEW levels, DOMAIN levels = 1 .. n, IsOrder(levels, n),
         NEW x \in 1 .. n, NEW y \in 1 .. n, Under(levels, y, x),
         NEW next, next = indexOfSmallClosesNumber(levels, levels[x].level)
  PROVE  /\ next \in 1 .. n
         /\ \A j \in 1 .. n : ~ Under(levels, j, x) <=> Under(levels, next, j)
<1> DEFINE S == {i \in 1 .. n : Under(levels, i, x)}
<1>1. /\ S \in SUBSET (1 .. n) /\ S # {}
      /\ \A i \in 1 .. n : i \in S <=> Under(levels, i, x)
  OBVIOUS
<1>2. next = Min(Highest(levels, S))
  <2>1. {i \in DOMAIN levels : Less(levels[i].level, levels[x].level)} = S
    BY DEF Under
  <2>2. QED
    BY <2>1 DEF indexOfSmallClosesNumber, Highest
<1> HIDE DEF S
<1>3. next \in Highest(levels, S)
  BY <1>1, <1>2, HighestExists
<1>4. next \in S /\ next \in 1 .. n /\ \A j \in S : ~ Under(levels, next, j)
  BY <1>1, <1>3 DEF Highest, Under
<1>5. ASSUME NEW j \in 1 .. n
      PROVE  ~ Under(levels, j, x) <=> Under(levels, next, j)
  <2>1. Under(levels, next, x)
    BY <1>1, <1>4
  <2>2. ~ Under(levels, j, x) => Under(levels, next, j)
    BY <1>4, <2>1 DEF IsOrder
  <2>3. Under(levels, j, x) => ~ Under(levels, next, j)
    BY <1>1, <1>4
  <2>4. QED
    BY <2>2, <2>3
<1>6. QED
  BY <1>4, <1>5

LEMMA NextPrints ==
  ASSUME NEW n \in Nat, NEW levels, DOMAIN levels = 1 .. n, IsOrder(levels, n),
         NEW k \in 1 .. n, NEW before, Prints(levels, n, before, k - 1)
  PROVE  Prints(levels, n, NextLines(levels, n, before), k)
<1>1. CASE Len(before.lines) >= n
  <2>1. NextLines(levels, n, before) = before
    BY <1>1 DEF NextLines
  <2>2. Len(before.lines) \in Nat
    BY DEF Prints
  <2>3. k <= Len(before.lines) /\ ~ (Len(before.lines) < n)
    BY <1>1, <2>2
  <2>4. QED
    BY <2>1, <2>3 DEF Prints
<1>2. CASE ~ (Len(before.lines) >= n)
  <2>1. PICK old : old = before.lines
    OBVIOUS
  <2>2. /\ old \in Seq(1 .. n) /\ InOrder(levels, old) /\ Len(old) \in Nat
        /\ k - 1 <= Len(old) /\ Len(old) < n
    BY <1>2, <2>1 DEF Prints
  <2>3. PICK x \in 1 .. n : /\ x = before.index
                            /\ \A j \in 1 .. n : Has(old, j) <=> Under(levels, x, j)
    BY <2>1, <2>2 DEF Prints
  <2>4. PICK same : same = With(levels, n, levels[x].level)
    OBVIOUS
  <2>5. /\ same \in Seq(1 .. n) /\ Len(same) \in Nat /\ Len(same) >= 1
        /\ \A i \in 1 .. Len(same) : Beside(levels, same[i], x)
        /\ \A i, j \in 1 .. Len(same) : i < j => same[i] < same[j]
        /\ \A j \in 1 .. n : Beside(levels, j, x) => Has(same, j)
    BY <2>4, WithProperties
  <2>6. PICK lines : lines = old \o same
    OBVIOUS
  <2>7. /\ lines \in Seq(1 .. n) /\ Len(lines) = Len(old) + Len(same)
        /\ \A i \in 1 .. Len(lines) :
             lines[i] = IF i <= Len(old) THEN old[i] ELSE same[i - Len(old)]
    BY <2>2, <2>5, <2>6, ConcatProperties
  <2>8. \A i \in 1 .. Len(lines) :
          \/ i \in 1 .. Len(old) /\ lines[i] = old[i]
          \/ i - Len(old) \in 1 .. Len(same) /\ lines[i] = same[i - Len(old)] /\ ~ (i <= Len(old))
    <3>1. Len(old) \in Nat /\ Len(same) \in Nat /\ Len(lines) = Len(old) + Len(same)
      BY <2>2, <2>5, <2>7
    <3>2. \A i \in 1 .. Len(lines) :
            \/ i \in 1 .. Len(old) /\ i <= Len(old)
            \/ i - Len(old) \in 1 .. Len(same) /\ ~ (i <= Len(old))
      BY <3>1
    <3>3. QED
      BY <2>7, <3>2
  <2>9. /\ \A i \in 1 .. Len(old) : i \in 1 .. Len(lines) /\ lines[i] = old[i]
        /\ \A i \in 1 .. Len(same) : /\ Len(old) + i \in 1 .. Len(lines)
                                     /\ lines[Len(old) + i] = same[i]
    <3>a. Len(old) \in Nat /\ Len(same) \in Nat /\ Len(lines) = Len(old) + Len(same)
      BY <2>2, <2>5, <2>7
    <3>1. \A i \in 1 .. Len(old) : i \in 1 .. Len(lines) /\ i <= Len(old)
      BY <3>a
    <3>2. \A i \in 1 .. Len(same) : /\ Len(old) + i \in 1 .. Len(lines)
                                    /\ ~ (Len(old) + i <= Len(old))
                                    /\ (Len(old) + i) - Len(old) = i
      BY <3>a
    <3>3. QED
      BY <2>7, <3>1, <3>2
  <2>10. \A i \in 1 .. Len(old) : old[i] \in 1 .. n /\ Under(levels, x, old[i])
    BY <2>2, <2>3 DEF Has
  <2>11. \A i \in 1 .. Len(same) : same[i] \in 1 .. n /\ Beside(levels, same[i], x)
    BY <2>5
  <2>12. InOrder(levels, lines)
    <3>1. SUFFICES ASSUME NEW i \in 1 .. Len(lines), NEW j \in 1 .. Len(lines), i < j
                   PROVE  \/ Under(levels, lines[j], lines[i])
                          \/ Beside(levels, lines[j], lines[i]) /\ lines[i] < lines[j]
      BY DEF InOrder
    <3>2. CASE j <= Len(old)
      <4>1. i \in 1 .. Len(old) /\ j \in 1 .. Len(old)
        BY <2>2, <3>1, <3>2
      <4>2. QED
        BY <2>2, <2>9, <3>1, <4>1 DEF InOrder
    <3>3. CASE i <= Len(old) /\ ~ (j <= Len(old))
      <4>1. lines[i] \in 1 .. n /\ Under(levels, x, lines[i])
        <5>1. i \in 1 .. Len(old)
          BY <2>2, <3>3
        <5>2. QED
          BY <2>9, <2>10, <5>1
      <4>2. lines[j] \in 1 .. n /\ Beside(levels, lines[j], x)
        <5>1. j \notin 1 .. Len(old)
          BY <3>3
        <5>2. QED
          BY <2>8, <2>11, <5>1
      <4>3. QED
        BY <4>1, <4>2 DEF IsOrder
    <3>4. CASE ~ (i <= Len(old))
      <4>1. i \notin 1 .. Len(old) /\ j \notin 1 .. Len(old)
        BY <2>2, <3>1, <3>4
      <4>2. PICK a \in 1 .. Len(same), b \in 1 .. Len(same) :
              a = i - Len(old) /\ b = j - Len(old) /\ lines[i] = same[a] /\ lines[j] = same[b]
        BY <2>8, <4>1
      <4>3. a < b
        BY <2>2, <3>1, <4>2
      <4>4. same[a] < same[b]
        BY <2>5, <4>3
      <4>5. Beside(levels, same[b], same[a])
        BY <2>11 DEF IsOrder
      <4>6. QED
        BY <4>2, <4>4, <4>5
    <3>5. QED
      BY <3>2, <3>3, <3>4
  <2>13. \A j \in 1 .. n : Has(lines, j) <=> ~ Under(levels, j, x)
    <3>1. SUFFICES ASSUME NEW j \in 1 .. n
                   PROVE  Has(lines, j) <=> ~ Under(levels, j, x)
      OBVIOUS
    <3>2. Has(lines, j) => ~ Under(levels, j, x)
      <4>1. SUFFICES ASSUME NEW i \in 1 .. Len(lines), lines[i] = j
                     PROVE  ~ Under(levels, j, x)
        BY DEF Has
      <4>2. Under(levels, x, j) \/ Beside(levels, j, x)
        BY <2>8, <2>10, <2>11, <4>1
      <4>3. QED
        BY <4>2 DEF IsOrder
    <3>3. ~ Under(levels, j, x) => Has(old, j) \/ Has(same, j)
      BY <2>3, <2>5 DEF IsOrder
    <3>4. Has(old, j) \/ Has(same, j) => Has(lines, j)
      BY <2>9 DEF Has
    <3>5. QED
      BY <3>2, <3>3, <3>4
  <2>14. PICK next : next = IF Len(lines) < n
                            THEN indexOfSmallClosesNumber(levels, levels[x].level) ELSE 1
    OBVIOUS
  <2>15. NextLines(levels, n, before) = [lines |-> lines, index |-> next]
    BY <1>2, <2>1, <2>3, <2>4, <2>6, <2>14 DEF NextLines
  <2>16. k <= Len(lines)
    BY <2>2, <2>5, <2>7
  <2>17. ASSUME Len(lines) < n
         PROVE  /\ next \in 1 .. n
                /\ \A j \in 1 .. n : Has(lines, j) <=> Under(levels, next, j)
    <3>1. ~ (Len(lines) >= n)
      BY <2>2, <2>5, <2>7, <2>17
    <3>2. PICK y \in 1 .. n : Under(levels, y, x)
      BY <2>7, <2>12, <2>13, <3>1, LinesFull
    <3>3. next = indexOfSmallClosesNumber(levels, levels[x].level)
      BY <2>14, <2>17
    <3>4. /\ next \in 1 .. n
          /\ \A j \in 1 .. n : ~ Under(levels, j, x) <=> Under(levels, next, j)
      BY <3>2, <3>3, NextIndex
    <3>5. QED
      BY <2>13, <3>4
  <2>18. PICK state : state = NextLines(levels, n, before)
    OBVIOUS
  <2>19. state.lines = lines /\ state.index = next
    BY <2>15, <2>18
  <2>20. Prints(levels, n, state, k)
    BY <2>7, <2>12, <2>16, <2>17, <2>19 DEF Prints
  <2>21. QED
    BY <2>18, <2>20
<1>3. QED
  BY <1>1, <1>2

(* The whole loop, as the recursive function that Printed defines.         *)
Rounds(levels, n, top, rounds, m) ==
  [k \in 0 .. m |-> IF k = 0 THEN [lines |-> << >>, index |-> top]
                    ELSE NextLines(levels, n, rounds[k - 1])]

LEMMA RoundsExist ==
  ASSUME NEW levels, NEW n \in Nat, NEW top, NEW m \in Nat
  PROVE  \E f : f = Rounds(levels, n, top, f, m)
<1> DEFINE IsLoop(f, k) == f = Rounds(levels, n, top, f, k)
           D == {k \in Nat : ~ \E f : IsLoop(f, k)}
<1>1. SUFFICES ASSUME D # {}
               PROVE  FALSE
  OBVIOUS
<1>2. PICK k \in Nat : k \in D /\ \A j \in D : k <= j
  <2>1. D \subseteq Nat
    OBVIOUS
  <2>2. QED
    BY <1>1, <2>1, MinProperties
<1>3. CASE k = 0
  <2>1. IsLoop([i \in 0 .. 0 |-> [lines |-> << >>, index |-> top]], 0)
    BY DEF Rounds
  <2>2. QED
    <3> HIDE DEF IsLoop
    <3>1. QED
      BY <1>2, <1>3, <2>1
<1>4. CASE k # 0
  <2>1. k - 1 \in Nat /\ k - 1 \notin D
    <3> HIDE DEF D
    <3>1. QED
      BY <1>2, <1>4
  <2>2. PICK f : IsLoop(f, k - 1)
    BY <2>1
  <2>3. DEFINE last == NextLines(levels, n, f[k - 1])
               g == [i \in 0 .. k |-> IF i = k THEN last ELSE f[i]]
  <2> HIDE DEF last
  <2>4. ASSUME NEW i \in 0 .. k
        PROVE  g[i] = Rounds(levels, n, top, g, k)[i]
    <3>1. CASE i = 0
      BY <1>4, <2>2, <3>1 DEF Rounds
    <3>2. CASE i # 0 /\ i # k
      <4>1. i \in 0 .. k - 1 /\ i - 1 \in 0 .. k - 1 /\ i - 1 \in 0 .. k
        BY <3>2
      <4>2. g[i] = f[i] /\ g[i - 1] = f[i - 1]
        BY <3>2, <4>1
      <4>3. f[i] = NextLines(levels, n, f[i - 1])
        BY <2>2, <3>2, <4>1 DEF Rounds
      <4>4. QED
        BY <3>2, <4>2, <4>3 DEF Rounds
    <3>3. CASE i = k
      <4>1. k - 1 \in 0 .. k /\ g[k - 1] = f[k - 1] /\ g[k] = last
        BY <1>4
      <4>2. QED
        BY <1>4, <3>3, <4>1 DEF Rounds, last
    <3>4. QED
      BY <3>1, <3>2, <3>3
  <2>5. IsLoop(g, k)
    <3>1. g = [i \in 0 .. k |-> Rounds(levels, n, top, g, k)[i]]
      <4> HIDE DEF g
      <4>1. DOMAIN g = 0 .. k /\ g = [i \in 0 .. k |-> g[i]]
        BY DEF g
      <4>2. QED
        BY <2>4, <4>1
    <3>2. Rounds(levels, n, top, g, k) = [i \in 0 .. k |-> Rounds(levels, n, top, g, k)[i]]
      BY DEF Rounds
    <3>3. QED
      BY <3>1, <3>2
  <2>6. QED
    <3> HIDE DEF IsLoop
    <3>1. QED
      BY <1>2, <2>5
<1>5. QED
  BY <1>3, <1>4

LEMMA RoundsPrint ==
  ASSUME NEW n \in Nat, NEW levels, DOMAIN levels = 1 .. n, IsOrder(levels, n),
         NEW top \in 1 .. n, \A j \in 1 .. n : ~ Under(levels, top, j),
         NEW f, f = Rounds(levels, n, top, f, n)
  PROVE  \A k \in 0 .. n : Prints(levels, n, f[k], k)
<1> DEFINE D == {k \in 0 .. n : ~ Prints(levels, n, f[k], k)}
<1>1. SUFFICES ASSUME D # {}
               PROVE  FALSE
  OBVIOUS
<1>2. PICK k \in 0 .. n : k \in D /\ \A j \in D : k <= j
  <2>1. D \subseteq Nat
    OBVIOUS
  <2>2. QED
    BY <1>1, <2>1, MinProperties
<1>3. CASE k = 0
  <2>1. PICK start : start = f[0]
    OBVIOUS
  <2>2. start = [lines |-> << >>, index |-> top]
    BY <2>1 DEF Rounds
  <2>3. start.lines = << >> /\ start.index = top /\ Len(<< >>) = 0 /\ << >> \in Seq(1 .. n)
    BY <2>2
  <2>4. Prints(levels, n, start, 0)
    BY <2>3 DEF Prints, InOrder, Has
  <2>5. QED
    BY <1>2, <1>3, <2>1, <2>4
<1>4. CASE k # 0
  <2>1. k \in 1 .. n /\ k - 1 \in 0 .. n /\ ~ (k <= k - 1)
    BY <1>4
  <2>2. Prints(levels, n, f[k - 1], k - 1)
    <3>1. k - 1 \notin D
      <4> HIDE DEF D
      <4>1. QED
        BY <1>2, <2>1
    <3>2. QED
      BY <2>1, <3>1
  <2>3. f[k] = NextLines(levels, n, f[k - 1])
    BY <1>4, <2>1 DEF Rounds
  <2>4. PICK before : before = f[k - 1]
    OBVIOUS
  <2>5. Prints(levels, n, NextLines(levels, n, before), k)
    BY <2>1, <2>2, <2>4, NextPrints
  <2>6. QED
    BY <1>2, <2>3, <2>4, <2>5
<1>5. QED
  BY <1>3, <1>4

TopOf(levels, n) == Min(Highest(levels, 1 .. n))

LoopOf(levels, n) == CHOOSE f : f = Rounds(levels, n, TopOf(levels, n), f, n)

LEMMA PrintedIs ==
  ASSUME NEW levels, Len(levels) # 0
  PROVE  LET loop == LoopOf(levels, Len(levels))
         IN  Printed(levels) = [k \in 1 .. Len(loop[Len(levels)].lines) |->
                                  levels[loop[Len(levels)].lines[k]]]
  BY DEF Printed, LoopOf, TopOf, Rounds, NextLines, With, Highest

(* printLevelsToFile prints every position once, in order.                 *)
LEMMA PrintedProperties ==
  ASSUME NEW n \in Nat \ {0}, NEW levels, DOMAIN levels = 1 .. n, Len(levels) = n,
         IsOrder(levels, n)
  PROVE  \E lines \in Seq(1 .. n) :
           /\ Printed(levels) = [k \in 1 .. Len(lines) |-> levels[lines[k]]]
           /\ InOrder(levels, lines)
           /\ \A j \in 1 .. n : Has(lines, j)
<1> DEFINE top == TopOf(levels, n)
           loop == LoopOf(levels, n)
<1>1. top \in 1 .. n /\ \A j \in 1 .. n : ~ Under(levels, top, j)
  <2>1. 1 .. n \in SUBSET (1 .. n) /\ 1 .. n # {}
    <3>1. 1 \in 1 .. n
      OBVIOUS
    <3>2. QED
      BY <3>1
  <2>2. top \in Highest(levels, 1 .. n)
    BY <2>1, HighestExists DEF TopOf
  <2>3. QED
    BY <2>2 DEF TopOf, Highest, Under
<1>2. loop = Rounds(levels, n, top, loop, n)
  BY RoundsExist DEF LoopOf
<1>3. Printed(levels) = [k \in 1 .. Len(loop[n].lines) |-> levels[loop[n].lines[k]]]
  <2>1. Len(levels) # 0
    OBVIOUS
  <2>2. QED
    BY <2>1, PrintedIs
<1> HIDE DEF top, loop
<1>4. Prints(levels, n, loop[n], n)
  <2>1. n \in 0 .. n
    OBVIOUS
  <2>2. PICK f, highest : f = loop /\ highest = top
    OBVIOUS
  <2>3. \A k \in 0 .. n : Prints(levels, n, f[k], k)
    BY <1>1, <1>2, <2>2, RoundsPrint
  <2>4. QED
    BY <2>1, <2>2, <2>3
<1>5. PICK lines : lines = loop[n].lines
  OBVIOUS
<1>6. lines \in Seq(1 .. n) /\ InOrder(levels, lines) /\ n <= Len(lines)
  BY <1>4, <1>5 DEF Prints
<1>7. \A j \in 1 .. n : Has(lines, j)
  BY <1>6, LinesFull
<1>8. QED
  BY <1>3, <1>5, <1>6, <1>7

(* chessSavePlayersLevels: the levels of those who have played.            *)
LEMMA LevelIsFraction ==
  ASSUME NEW record \in Record, GamesPlayed(record) # 0
  PROVE  Level(record) \in Fractions
<1>1. PICK w, l, d : /\ w = record.wins /\ l = record.loses /\ d = record.draws
                     /\ w \in Int /\ l \in Int /\ d \in Int
  BY DEF Record
<1>2. GamesPlayed(record) = w + l + d
  BY <1>1 DEF GamesPlayed
<1>3. PICK g, s : g = w + l + d /\ s = 6 * w - 10 * l + 2 * d /\ g \in Int /\ s \in Int /\ g # 0
  BY <1>1, <1>2
<1>4. Level(record) = LET sign == IF g < 0 THEN -1 ELSE 1
                      IN  [num |-> sign * s, den |-> sign * g]
  BY <1>1, <1>2, <1>3 DEF Level
<1>5. CASE g < 0
  <2>1. Level(record) = [num |-> (-1) * s, den |-> (-1) * g]
    BY <1>4, <1>5
  <2>2. (-1) * s \in Int /\ (-1) * g \in Nat \ {0}
    BY <1>3, <1>5
  <2>3. QED
    BY <2>1, <2>2 DEF Fractions
<1>6. CASE ~ (g < 0)
  <2>1. Level(record) = [num |-> 1 * s, den |-> 1 * g]
    BY <1>4, <1>6
  <2>2. 1 * s \in Int /\ 1 * g \in Nat \ {0}
    BY <1>3, <1>6
  <2>3. QED
    BY <2>1, <2>2 DEF Fractions
<1>7. QED
  BY <1>5, <1>6

LEMMA LevelsAreLevels ==
  ASSUME NEW players, IsFiniteSet(DOMAIN players), DOMAIN players \subseteq Int,
         \A p \in DOMAIN players : players[p] \in Record
  PROVE  /\ Len(Levels(players)) \in Nat
         /\ AreLevels(Levels(players), Len(Levels(players)))
<1> DEFINE D == {q \in DOMAIN players : GamesPlayed(players[q]) # 0}
           key == [p \in D |-> p]
           ids == ByKey(key)
           n == Len(ids)
           levels == Levels(players)
<1>1. D \subseteq DOMAIN players /\ \A p \in D : GamesPlayed(players[p]) # 0
  OBVIOUS
<1>2. levels = [i \in 1 .. n |-> [id |-> ids[i], level |-> Level(players[ids[i]])]]
  BY DEF Levels
<1> HIDE DEF D, levels
<1>3. DOMAIN key = D /\ \A p \in D : key[p] = p /\ p \in Int
  BY <1>1
<1>4. IsFiniteSet(D)
  BY <1>1, FS_Subset
<1> HIDE DEF key
<1>5. IsKey(key)
  BY <1>3, <1>4 DEF IsKey
<1>6. /\ ids \in Seq(D)
      /\ \A i \in 1 .. n : ids[i] \in D
      /\ \A i, j \in 1 .. n : i < j => key[ids[i]] < key[ids[j]]
  BY <1>3, <1>5, ByKeyProperties
<1> HIDE DEF ids
<1>7. n \in Nat
  BY <1>6, LenProperties
<1> HIDE DEF n
<1>8. \A i \in 1 .. n : ids[i] \in Int /\ Level(players[ids[i]]) \in Fractions
  BY <1>1, <1>3, <1>6, LevelIsFraction
<1>9. levels \in [1 .. n -> [id : Int, level : Fractions]]
  BY <1>2, <1>8
<1>10. \A i \in 1 .. n : levels[i].id = ids[i]
  BY <1>2
<1>11. \A i, j \in 1 .. n : i < j => levels[i].id < levels[j].id
  BY <1>3, <1>6, <1>10
<1>12. Len(levels) = n
  BY <1>7, <1>9
<1>13. QED
  BY <1>7, <1>9, <1>11, <1>12 DEF AreLevels, levels

(* The printed levels are in falling order, equal ones by identifier, and  *)
(* nothing else is printed.                                                *)
FallsInOrder(printed, levels) ==
  /\ ToSet(printed) = ToSet(levels)
  /\ \A i, j \in DOMAIN printed : i < j =>
       \/ Less(printed[j].level, printed[i].level)
       \/ SameLevel(printed[j].level, printed[i].level) /\ printed[i].id < printed[j].id

LEMMA PrintedSorted ==
  ASSUME NEW levels, Len(levels) \in Nat, AreLevels(levels, Len(levels))
  PROVE  FallsInOrder(Printed(levels), levels)
<1>1. PICK n \in Nat : n = Len(levels)
  OBVIOUS
<1>2. AreLevels(levels, n) /\ DOMAIN levels = 1 .. n
  BY <1>1 DEF AreLevels
<1>3. CASE n = 0
  <2>1. Printed(levels) = << >>
    BY <1>1, <1>3 DEF Printed
  <2>2. DOMAIN levels = {} /\ DOMAIN << >> = {}
    BY <1>2, <1>3
  <2>3. QED
    BY <2>1, <2>2 DEF FallsInOrder, ToSet
<1>4. CASE n # 0
  <2>1. IsOrder(levels, n)
    BY <1>2, LevelsOrdered
  <2>2. PICK lines \in Seq(1 .. n) :
          /\ Printed(levels) = [k \in 1 .. Len(lines) |-> levels[lines[k]]]
          /\ InOrder(levels, lines)
          /\ \A j \in 1 .. n : Has(lines, j)
    BY <1>1, <1>2, <1>4, <2>1, PrintedProperties
  <2>3. PICK printed : printed = Printed(levels)
    OBVIOUS
  <2>4. /\ DOMAIN printed = 1 .. Len(lines)
        /\ \A k \in 1 .. Len(lines) : printed[k] = levels[lines[k]] /\ lines[k] \in 1 .. n
    BY <2>2, <2>3
  <2>5. ToSet(printed) = ToSet(levels)
    <3>1. \A x : x \in ToSet(printed) <=> \E k \in 1 .. Len(lines) : levels[lines[k]] = x
      BY <2>4 DEF ToSet
    <3>2. \A x : x \in ToSet(levels) <=> \E j \in 1 .. n : levels[j] = x
      BY <1>2 DEF ToSet
    <3>3. \A x : x \in ToSet(printed) => x \in ToSet(levels)
      BY <2>4, <3>1, <3>2
    <3>4. \A x : x \in ToSet(levels) => x \in ToSet(printed)
      BY <2>2, <3>1, <3>2 DEF Has
    <3>5. QED
      BY <3>3, <3>4
  <2>6. ASSUME NEW i \in 1 .. Len(lines), NEW j \in 1 .. Len(lines), i < j
        PROVE  \/ Less(printed[j].level, printed[i].level)
               \/ /\ SameLevel(printed[j].level, printed[i].level)
                  /\ printed[i].id < printed[j].id
    <3>1. \/ Under(levels, lines[j], lines[i])
          \/ Beside(levels, lines[j], lines[i]) /\ lines[i] < lines[j]
      BY <2>2, <2>6 DEF InOrder
    <3>2. lines[i] < lines[j] => levels[lines[i]].id < levels[lines[j]].id
      BY <1>2, <2>4 DEF AreLevels
    <3>3. QED
      BY <2>4, <3>1, <3>2 DEF Under, Beside
  <2>7. QED
    BY <2>3, <2>4, <2>5, <2>6 DEF FallsInOrder
<1>5. QED
  BY <1>3, <1>4

-----------------------------------------------------------------------------
(* The types of the tables.                                                *)
GameTypes ==
  {game \in Games : game.player["first"] # game.player["second"]}

GameTables == UNION {[D -> GameTypes] : D \in SUBSET GameIds}

TournamentTypes ==
  [max_games_per_player : MaxGamesArgs, games : GameTables, winner_id : PlayerIds \cup {0},
   in_progress : BOOLEAN, number_of_players : Nat]

Typed ==
  /\ Tournaments \subseteq TournamentIds
  /\ \A t \in Tournaments : chess_tournament_table[t] \in TournamentTypes
  /\ Listed \subseteq PlayerIds
  /\ \A p \in Listed : players_list[p] \in Record
  /\ status \in {"running", "segfault"}
  /\ removed \subseteq PlayerIds
  /\ returned \subseteq removed

LEMMA ConstantFacts ==
  /\ PlayerIds \subseteq Nat \ {0}
  /\ \A pair \in Pairings : pair[1] \in PlayerIds /\ pair[2] \in PlayerIds /\ pair[1] # pair[2]
  /\ Results \subseteq Sides \cup {"draw"}
  /\ PlayTimes \subseteq Nat /\ MaxGames \in Nat
  /\ IsFiniteSet(GameIds)
<1>1. PlayerIds \subseteq Nat \ {0}
  BY ChessAssumption DEF PlayerIds
<1>2. IsFiniteSet(GameIds)
  BY ChessAssumption, FS_Interval DEF GameIds
<1>3. QED
  BY <1>1, <1>2, ChessAssumption DEF PlayerIds

LEMMA GameFields ==
  ASSUME NEW g \in GameTypes
  PROVE  /\ g \in Games
         /\ \A side \in Sides : g.player[side] \in PlayerIds /\ g.deleted[side] \in BOOLEAN
         /\ g.player["first"] # g.player["second"]
         /\ g.game_result \in Sides \cup {"draw"}
         /\ g.game_time \in PlayTimes /\ g.game_time \in Nat
  BY ConstantFacts DEF GameTypes, Games, Sides

LEMMA TableFields ==
  ASSUME NEW games
  PROVE  games \in GameTables <=>
           /\ games = [id \in DOMAIN games |-> games[id]]
           /\ DOMAIN games \subseteq GameIds
           /\ \A id \in DOMAIN games : games[id] \in GameTypes
<1>1. ASSUME games \in GameTables
      PROVE  /\ games = [id \in DOMAIN games |-> games[id]]
             /\ DOMAIN games \subseteq GameIds
             /\ \A id \in DOMAIN games : games[id] \in GameTypes
  <2>1. PICK D \in SUBSET GameIds : games \in [D -> GameTypes]
    BY <1>1 DEF GameTables
  <2>2. QED
    BY <2>1
<1>2. ASSUME games = [id \in DOMAIN games |-> games[id]],
             DOMAIN games \subseteq GameIds,
             \A id \in DOMAIN games : games[id] \in GameTypes
      PROVE  games \in GameTables
  <2>1. games \in [DOMAIN games -> GameTypes]
    BY <1>2
  <2>2. QED
    BY <1>2, <2>1 DEF GameTables
<1>3. QED
  BY <1>1, <1>2

LEMMA TableTimed ==
  ASSUME NEW games \in GameTables
  PROVE  IsTimed(games, DOMAIN games) /\ IsFiniteSet(DOMAIN games)
<1>1. DOMAIN games \subseteq GameIds /\ \A id \in DOMAIN games : games[id] \in GameTypes
  BY TableFields
<1>2. IsFiniteSet(DOMAIN games)
  BY <1>1, ConstantFacts, FS_Subset
<1>3. QED
  BY <1>1, <1>2, GameFields DEF IsTimed

LEMMA TournamentFields ==
  ASSUME Typed, NEW t \in Tournaments
  PROVE  /\ chess_tournament_table[t] \in TournamentTypes
         /\ GamesIn(t) \in GameTables
         /\ DOMAIN GamesIn(t) \subseteq GameIds
         /\ \A id \in DOMAIN GamesIn(t) : GamesIn(t)[id] \in GameTypes
         /\ chess_tournament_table[t].in_progress \in BOOLEAN
         /\ chess_tournament_table[t].number_of_players \in Nat
         /\ chess_tournament_table[t].max_games_per_player \in Nat
<1>1. chess_tournament_table[t] \in TournamentTypes
  BY DEF Typed
<1>2. GamesIn(t) \in GameTables
  BY <1>1 DEF TournamentTypes, GamesIn
<1>3. QED
  BY <1>1, <1>2, TableFields, ChessAssumption DEF TournamentTypes

LEMMA TypedIsOK == Typed => TypeOK
<1> SUFFICES ASSUME Typed
             PROVE  TypeOK
  OBVIOUS
<1>1. ASSUME NEW t \in Tournaments
      PROVE  /\ chess_tournament_table[t].max_games_per_player \in MaxGamesArgs
             /\ DOMAIN chess_tournament_table[t].games \subseteq GameIds
             /\ \A id \in DOMAIN chess_tournament_table[t].games :
                  chess_tournament_table[t].games[id] \in Games
             /\ chess_tournament_table[t].winner_id \in PlayerIds \cup {0}
             /\ chess_tournament_table[t].in_progress \in BOOLEAN
             /\ chess_tournament_table[t].number_of_players \in Nat
  BY TournamentFields, GameFields DEF TournamentTypes, GamesIn
<1>2. \A p \in Listed : players_list[p] \in [DOMAIN NoRecord -> Int]
  BY RecordFields DEF Typed
<1>3. QED
  BY <1>1, <1>2 DEF Typed, TypeOK

-----------------------------------------------------------------------------
(* The histogram has a column for everyone who is counted.                 *)
LEMMA CountedIs ==
  ASSUME NEW games \in GameTables
  PROVE  /\ \A p : p \in Counted(games) <=> CountedFor(p, games) # {}
         /\ \A p : CountedFor(p, games) \in SUBSET DOMAIN games
         /\ Counted(games) \subseteq PlayerIds
<1>1. \A id \in DOMAIN games : games[id] \in GameTypes
  BY TableFields
<1>2. \A id \in DOMAIN games, side \in Sides : games[id].player[side] \in PlayerIds
  BY <1>1, GameFields
<1>3. QED
  BY <1>2 DEF Counted, CountedFor

LEMMA CountedFinite ==
  ASSUME NEW games \in GameTables
  PROVE  /\ IsFiniteSet(Counted(games))
         /\ Cardinality(Counted(games)) <= 2 * Cardinality(DOMAIN games)
         /\ Cardinality(Counted(games)) \in Nat /\ Cardinality(DOMAIN games) \in Nat
<1> DEFINE X == {x \in (DOMAIN games) \X Sides : ~ games[x[1]].deleted[x[2]]}
           f == [x \in X |-> games[x[1]].player[x[2]]]
<1>1. IsFiniteSet(DOMAIN games) /\ Cardinality(DOMAIN games) \in Nat
  BY TableTimed, FS_CardinalityType
<1>2. IsFiniteSet(Sides) /\ Cardinality(Sides) = 2
  <2>1. IsFiniteSet({"first"}) /\ Cardinality({"first"}) = 1 /\ "second" \notin {"first"}
    BY FS_Singleton
  <2>2. IsFiniteSet({"first"} \cup {"second"}) /\ Cardinality({"first"} \cup {"second"}) = 1 + 1
    BY <2>1, FS_AddElement
  <2>3. Sides = {"first"} \cup {"second"}
    BY DEF Sides
  <2>4. QED
    BY <2>2, <2>3
<1>3. /\ IsFiniteSet((DOMAIN games) \X Sides)
      /\ Cardinality((DOMAIN games) \X Sides) = Cardinality(DOMAIN games) * 2
  BY <1>1, <1>2, FS_Product
<1>4. IsFiniteSet(X) /\ Cardinality(X) <= Cardinality(DOMAIN games) * 2
  <2>1. X \in SUBSET ((DOMAIN games) \X Sides)
    OBVIOUS
  <2>2. QED
    BY <1>3, <2>1, FS_Subset
<1>5. f \in Surjection(X, Counted(games))
  <2>1. \A x \in X : f[x] \in Counted(games)
    BY DEF Counted
  <2>2. ASSUME NEW p \in Counted(games)
        PROVE  \E x \in X : f[x] = p
    <3>1. PICK id \in DOMAIN games, side \in Sides :
            ~ games[id].deleted[side] /\ games[id].player[side] = p
      BY DEF Counted
    <3>2. <<id, side>> \in X /\ f[<<id, side>>] = p
      BY <3>1
    <3>3. QED
      BY <3>2
  <2>3. QED
    BY <2>1, <2>2 DEF Surjection
<1>6. IsFiniteSet(Counted(games)) /\ Cardinality(Counted(games)) <= Cardinality(X)
  BY <1>4, <1>5, FS_Surjection
<1>7. Cardinality(Counted(games)) \in Nat /\ Cardinality(X) \in Nat
  BY <1>4, <1>6, FS_CardinalityType
<1> HIDE DEF X
<1>8. QED
  BY <1>1, <1>4, <1>6, <1>7

LEMMA FirstPlaces ==
  ASSUME NEW games \in GameTables
  PROVE  IsKey([p \in Counted(games) |-> FirstPlace(p, games)])
<1>1. ASSUME NEW p \in Counted(games)
      PROVE  /\ Min(CountedFor(p, games)) \in CountedFor(p, games)
             /\ Min(CountedFor(p, games)) \in DOMAIN games
             /\ Min(CountedFor(p, games)) \in Nat
  <2>1. CountedFor(p, games) \subseteq GameIds /\ GameIds \subseteq Nat
    BY CountedIs, TableFields DEF GameIds
  <2>2. CountedFor(p, games) # {} /\ CountedFor(p, games) \in SUBSET DOMAIN games
    BY CountedIs
  <2>3. QED
    BY <2>1, <2>2, MinProperties
<1>2. ASSUME NEW p \in Counted(games)
      PROVE  FirstPlace(p, games) \in Int
  BY <1>1 DEF FirstPlace
<1>3. ASSUME NEW p \in Counted(games), NEW q \in Counted(games),
             FirstPlace(p, games) = FirstPlace(q, games)
      PROVE  p = q
  <2>1. PICK i \in Nat : i = Min(CountedFor(p, games))
    BY <1>1
  <2>2. PICK j \in Nat : j = Min(CountedFor(q, games))
    BY <1>1
  <2>3. i \in CountedFor(p, games) /\ j \in CountedFor(q, games) /\ i \in DOMAIN games
    BY <1>1, <2>1, <2>2
  <2>4. FirstPlace(p, games) = 2 * i + (IF games[i].player["second"] = p THEN 1 ELSE 0)
    BY <2>1 DEF FirstPlace
  <2>5. FirstPlace(q, games) = 2 * j + (IF games[j].player["second"] = q THEN 1 ELSE 0)
    BY <2>2 DEF FirstPlace
  <2>6. i = j /\ (games[i].player["second"] = p <=> games[j].player["second"] = q)
    <3>1. PICK a \in {0, 1} : a = IF games[i].player["second"] = p THEN 1 ELSE 0
      OBVIOUS
    <3>2. PICK b \in {0, 1} : b = IF games[j].player["second"] = q THEN 1 ELSE 0
      OBVIOUS
    <3>3. 2 * i + a = 2 * j + b
      BY <1>3, <2>4, <2>5, <3>1, <3>2
    <3>4. i = j /\ a = b
      BY <3>3
    <3>5. QED
      BY <3>1, <3>2, <3>4
  <2>7. \E side \in Sides : games[i].player[side] = p
    BY <2>3 DEF CountedFor
  <2>8. \E side \in Sides : games[i].player[side] = q
    BY <2>3, <2>6 DEF CountedFor
  <2>9. QED
    BY <2>6, <2>7, <2>8 DEF Sides
<1>4. IsFiniteSet(Counted(games))
  BY CountedFinite
<1>5. QED
  BY <1>2, <1>3, <1>4 DEF IsKey

LEMMA ColumnType ==
  ASSUME NEW games \in GameTables, NEW p \in PlayerIds
  PROVE  /\ Column(p, games) \in ColumnTypes /\ Column(p, games).id = p
         /\ IsTimed(Restrict(games, CountedFor(p, games)), CountedFor(p, games))
<1> DEFINE mine == CountedFor(p, games)
           t == Tally(p, Restrict(games, mine))
<1>1. mine \in SUBSET DOMAIN games
  BY CountedIs
<1>2. IsTimed(Restrict(games, mine), mine)
  <2>1. IsTimed(games, mine)
    BY <1>1, TableTimed, TimedPart
  <2>2. QED
    BY <2>1 DEF IsTimed, Restrict
<1>3. t \in Record
  <2>1. DOMAIN Restrict(games, mine) = mine
    BY DEF Restrict
  <2>2. QED
    BY <1>2, <2>1, TallyType
<1>4. Column(p, games) = [id |-> p, points |-> 2 * t.wins + t.draws, loses |-> t.loses, wins |-> t.wins]
  BY DEF Column
<1> HIDE DEF t
<1>5. t.wins \in Int /\ t.draws \in Int /\ t.loses \in Int /\ p \in Int
  BY <1>3, ConstantFacts DEF Record
<1>6. QED
  BY <1>2, <1>4, <1>5 DEF ColumnTypes

NoColumn == [id |-> 0, points |-> 0, loses |-> 0, wins |-> 0]

LEMMA HistogramProperties ==
  ASSUME NEW games \in GameTables, DOMAIN games # {}
  PROVE  \E n \in Nat \ {0} :
           /\ Histogram(games) \in [1 .. n -> ColumnTypes] /\ Len(Histogram(games)) = n
           /\ \A i \in 1 .. n : \/ Histogram(games)[i] = NoColumn
                                \/ \E p \in Counted(games) : Histogram(games)[i] = Column(p, games)
           /\ \A p \in Counted(games) : \E i \in 1 .. n : Histogram(games)[i] = Column(p, games)
<1> DEFINE key == [p \in Counted(games) |-> FirstPlace(p, games)]
           ids == ByKey(key)
           n == 2 * Cardinality(DOMAIN games)
<1>1. /\ ids \in Seq(Counted(games)) /\ Len(ids) = Cardinality(Counted(games))
      /\ \A i \in 1 .. Len(ids) : ids[i] \in Counted(games)
      /\ \A p \in Counted(games) : \E i \in 1 .. Len(ids) : ids[i] = p
  <2>1. PICK k : k = key
    OBVIOUS
  <2>2. IsKey(k) /\ DOMAIN k = Counted(games)
    BY <2>1, FirstPlaces
  <2>3. QED
    BY <2>1, <2>2, ByKeyProperties
<1>2. Len(ids) \in Nat /\ Len(ids) <= n /\ n \in Nat \ {0}
  <2>1. Cardinality(DOMAIN games) # 0
    BY TableTimed, FS_EmptySet
  <2>2. QED
    BY <1>1, <2>1, CountedFinite
<1>3. Histogram(games) = [i \in 1 .. n |-> IF i <= Len(ids) THEN Column(ids[i], games) ELSE NoColumn]
  BY DEF Histogram, NoColumn
<1> HIDE DEF ids, n
<1>4. ASSUME NEW i \in 1 .. n
      PROVE  /\ Histogram(games)[i] \in ColumnTypes
             /\ \/ Histogram(games)[i] = NoColumn
                \/ \E p \in Counted(games) : Histogram(games)[i] = Column(p, games)
  <2>1. CASE i <= Len(ids)
    <3>1. ids[i] \in Counted(games) /\ ids[i] \in PlayerIds
      BY <1>1, <1>2, <2>1, CountedIs
    <3>2. Histogram(games)[i] = Column(ids[i], games)
      BY <1>3, <2>1
    <3>3. QED
      BY <3>1, <3>2, ColumnType
  <2>2. CASE ~ (i <= Len(ids))
    BY <1>3, <2>2 DEF NoColumn, ColumnTypes
  <2>3. QED
    BY <2>1, <2>2
<1>5. Histogram(games) \in [1 .. n -> ColumnTypes]
  BY <1>3, <1>4
<1>6. Len(Histogram(games)) = n
  BY <1>2, <1>5
<1>7. ASSUME NEW p \in Counted(games)
      PROVE  \E i \in 1 .. n : Histogram(games)[i] = Column(p, games)
  <2>1. PICK i \in 1 .. Len(ids) : ids[i] = p
    BY <1>1
  <2>2. i \in 1 .. n /\ i <= Len(ids)
    BY <1>2
  <2>3. QED
    BY <1>3, <2>1, <2>2
<1>8. QED
  BY <1>2, <1>4, <1>5, <1>6, <1>7

(* The winner, if anybody has points at all.                               *)
LEMMA WinnerProperties ==
  ASSUME NEW games \in GameTables, DOMAIN games # {}
  PROVE  LET w == checkWinner(Histogram(games))
         IN  /\ w \in Counted(games) \cup {0}
             /\ (\E p \in Counted(games) : Column(p, games).points > 0) =>
                  /\ w \in Counted(games) /\ w # 0
                  /\ \A p \in Counted(games) :
                       \/ Column(w, games).points > Column(p, games).points
                       \/ /\ Column(w, games).points = Column(p, games).points
                          /\ Column(w, games).loses <= Column(p, games).loses
<1> DEFINE w == checkWinner(Histogram(games))
<1>1. PICK n \in Nat \ {0} :
        /\ Histogram(games) \in [1 .. n -> ColumnTypes] /\ Len(Histogram(games)) = n
        /\ \A i \in 1 .. n : \/ Histogram(games)[i] = NoColumn
                             \/ \E p \in Counted(games) : Histogram(games)[i] = Column(p, games)
        /\ \A p \in Counted(games) : \E i \in 1 .. n : Histogram(games)[i] = Column(p, games)
  BY HistogramProperties
<1>2. PICK columns : columns = Histogram(games)
  OBVIOUS
<1>3. PICK k \in 1 .. n : checkWinner(columns) = columns[k].id /\ IsTop(columns, n, k)
  BY <1>1, <1>2, CheckWinnerProperties
<1>4. \A p \in Counted(games) : p \in PlayerIds /\ Column(p, games).id = p /\ p # 0
  BY CountedIs, ColumnType, ConstantFacts
<1>5. \/ columns[k] = NoColumn
      \/ \E p \in Counted(games) : columns[k] = Column(p, games)
  BY <1>1, <1>2
<1>6. w \in Counted(games) \cup {0}
  BY <1>2, <1>3, <1>4, <1>5 DEF NoColumn
<1>7. ASSUME NEW q \in Counted(games), Column(q, games).points > 0
      PROVE  /\ w \in Counted(games) /\ w # 0
             /\ \A p \in Counted(games) :
                  \/ Column(w, games).points > Column(p, games).points
                  \/ /\ Column(w, games).points = Column(p, games).points
                     /\ Column(w, games).loses <= Column(p, games).loses
  <2>1. \E j \in 1 .. n : columns[j].points > 0
    BY <1>1, <1>2, <1>7
  <2>2. columns[k].points > 0
    BY <1>3, <2>1 DEF IsTop
  <2>3. columns[k] # NoColumn
    BY <2>2 DEF NoColumn
  <2>4. PICK p \in Counted(games) : columns[k] = Column(p, games)
    BY <1>5, <2>3
  <2>5. w = p /\ w # 0
    BY <1>2, <1>3, <1>4, <2>4
  <2>6. ASSUME NEW r \in Counted(games)
        PROVE  \/ Column(w, games).points > Column(r, games).points
               \/ /\ Column(w, games).points = Column(r, games).points
                  /\ Column(w, games).loses <= Column(r, games).loses
    <3>1. PICK j \in 1 .. n : columns[j] = Column(r, games)
      BY <1>1, <1>2
    <3>2. QED
      BY <1>3, <2>1, <2>4, <2>5, <3>1 DEF IsTop
  <2>7. QED
    BY <2>5, <2>6
<1>8. QED
  BY <1>6, <1>7

-----------------------------------------------------------------------------
(* All games, by tournament and identifier.                                *)
LEMMA AllGamesIs ==
  /\ \A x \in DOMAIN AllGames : /\ x = <<x[1], x[2]>>
                                /\ x[1] \in Tournaments /\ x[2] \in DOMAIN GamesIn(x[1])
                                /\ AllGames[x] = GamesIn(x[1])[x[2]]
  /\ \A t \in Tournaments : \A id \in DOMAIN GamesIn(t) :
       <<t, id>> \in DOMAIN AllGames /\ AllGames[<<t, id>>] = GamesIn(t)[id]
<1> DEFINE D == UNION {{t} \X DOMAIN GamesIn(t) : t \in Tournaments}
<1>1. DOMAIN AllGames = D /\ \A x \in D : AllGames[x] = GamesIn(x[1])[x[2]]
  BY DEF AllGames
<1>2. \A x \in D : x = <<x[1], x[2]>> /\ x[1] \in Tournaments /\ x[2] \in DOMAIN GamesIn(x[1])
  OBVIOUS
<1>3. \A t \in Tournaments : \A id \in DOMAIN GamesIn(t) : <<t, id>> \in D
  OBVIOUS
<1>4. QED
  BY <1>1, <1>2, <1>3

LEMMA AllGamesCount ==
  ASSUME Typed, GameIdsUnique
  PROVE  /\ IsFiniteSet(DOMAIN AllGames) /\ IsFiniteSet(UsedIds)
         /\ UsedIds \subseteq GameIds
         /\ Cardinality(DOMAIN AllGames) = Cardinality(UsedIds)
         /\ IsTimed(AllGames, DOMAIN AllGames)
<1> DEFINE f == [x \in DOMAIN AllGames |-> x[2]]
<1>1. UsedIds \subseteq GameIds
  BY TournamentFields DEF UsedIds
<1>2. IsFiniteSet(UsedIds)
  BY <1>1, ConstantFacts, FS_Subset
<1>3. \A x \in DOMAIN AllGames : f[x] \in UsedIds
  BY AllGamesIs DEF UsedIds
<1>4. ASSUME NEW x \in DOMAIN AllGames, NEW y \in DOMAIN AllGames, f[x] = f[y]
      PROVE  x = y
  <2>1. x[2] = y[2]
    BY <1>4
  <2>2. x[1] = y[1]
    BY <2>1, AllGamesIs DEF GameIdsUnique
  <2>3. QED
    BY <2>1, <2>2, AllGamesIs
<1>5. f \in Injection(DOMAIN AllGames, UsedIds)
  BY <1>3, <1>4 DEF Injection, IsInjective
<1>6. \A id \in UsedIds : \E x \in DOMAIN AllGames : f[x] = id
  <2>1. ASSUME NEW id \in UsedIds
        PROVE  \E x \in DOMAIN AllGames : f[x] = id
    <3>1. PICK t \in Tournaments : id \in DOMAIN GamesIn(t)
      BY DEF UsedIds
    <3>2. <<t, id>> \in DOMAIN AllGames /\ f[<<t, id>>] = id
      BY <3>1, AllGamesIs
    <3>3. QED
      BY <3>2
  <2>2. QED
    BY <2>1
<1>7. f \in Surjection(DOMAIN AllGames, UsedIds)
  BY <1>3, <1>6 DEF Surjection
<1>8. IsFiniteSet(DOMAIN AllGames) /\ Cardinality(DOMAIN AllGames) = Cardinality(UsedIds)
  BY <1>2, <1>5, <1>7, FS_Injection
<1>9. \A x \in DOMAIN AllGames : AllGames[x].game_time \in Int
  BY AllGamesIs, TournamentFields, GameFields
<1>10. QED
  BY <1>1, <1>2, <1>8, <1>9 DEF IsTimed

(* chessSystem.c:438-467: the number of a new game is that of no other.    *)
LEMMA FreshId ==
  ASSUME Typed, GameIdsUnique, Cardinality(DOMAIN AllGames) < MaxGames, NEW t
  PROVE  generateGameId(t) \in GameIds \ UsedIds
<1> DEFINE Free == GameIds \ UsedIds
           id == generateGameId(t)
<1>1. Free # {} /\ Free \subseteq Nat
  <2>1. Cardinality(GameIds) = MaxGames
    <3>1. 1 \in Int /\ MaxGames \in Int
      BY ConstantFacts
    <3>2. Cardinality(1 .. MaxGames) = IF 1 > MaxGames THEN 0 ELSE MaxGames - 1 + 1
      BY <3>1, FS_Interval
    <3>3. QED
      BY <3>2, ConstantFacts DEF GameIds
  <2>2. UsedIds # GameIds
    BY <2>1, AllGamesCount, ConstantFacts
  <2>3. GameIds \subseteq Nat
    BY DEF GameIds
  <2>4. QED
    BY <2>2, <2>3, AllGamesCount
<1>2. PICK m \in Nat : m \in Free /\ \A k \in Free : m <= k
  BY <1>1, MinProperties
<1>3. m \in 1 .. MaxGames + 1 /\ m \notin UsedIds /\ \A smaller \in 1 .. m - 1 : smaller \in UsedIds
  BY <1>2, ConstantFacts DEF GameIds
<1>4. /\ id \in 1 .. MaxGames + 1 /\ id \notin UsedIds
      /\ \A smaller \in 1 .. id - 1 : smaller \in UsedIds
  BY <1>3 DEF generateGameId
<1> HIDE DEF id
<1>5. id \in GameIds
  <2>1. m \in 1 .. MaxGames
    BY <1>2 DEF GameIds
  <2>2. ~ (m \in 1 .. id - 1)
    BY <1>3, <1>4
  <2>3. QED
    BY <1>4, <2>1, <2>2, ConstantFacts DEF GameIds
<1>6. QED
  BY <1>4, <1>5 DEF id

-----------------------------------------------------------------------------
(* What the operations do to the tables.                                   *)
LEMMA RemovedProperties ==
  ASSUME NEW table, NEW key
  PROVE  /\ DOMAIN Removed(table, key) = DOMAIN table \ {key}
         /\ \A k \in DOMAIN table \ {key} : Removed(table, key)[k] = table[k]
  BY DEF Removed, Restrict

NewTournament(max_games) ==
  [max_games_per_player |-> max_games, games |-> << >>, winner_id |-> 0,
   in_progress |-> TRUE, number_of_players |-> 0]

AddsTournament(t, max_games) ==
  /\ t \in TournamentIds /\ t \notin Tournaments
  /\ Tournaments' = Tournaments \cup {t}
  /\ \A u \in Tournaments : /\ chess_tournament_table'[u] = chess_tournament_table[u]
                            /\ GamesIn(u)' = GamesIn(u)
  /\ chess_tournament_table'[t] = NewTournament(max_games)
  /\ NewTournament(max_games) \in TournamentTypes
  /\ GamesIn(t)' = << >> /\ DOMAIN GamesIn(t)' = {}
  /\ chess_tournament_table'[t].in_progress
  /\ chess_tournament_table'[t].number_of_players = 0
  /\ UNCHANGED <<players_list, status, removed, returned>>

LEMMA AddTournamentDoes ==
  ASSUME NEW t \in TournamentIds, NEW max_games \in MaxGamesArgs, Typed,
         chessAddTournament(t, max_games)
  PROVE  AddsTournament(t, max_games)
<1>1. /\ t \notin Tournaments
      /\ chess_tournament_table' = Put(chess_tournament_table, t, NewTournament(max_games))
      /\ UNCHANGED <<players_list, status, removed, returned>>
  BY DEF chessAddTournament, NewTournament, history
<1>2. /\ Tournaments' = Tournaments \cup {t}
      /\ \A u \in Tournaments : chess_tournament_table'[u] = chess_tournament_table[u]
      /\ chess_tournament_table'[t] = NewTournament(max_games)
  <2>1. PICK data : data = NewTournament(max_games)
    OBVIOUS
  <2>2. chess_tournament_table' = Put(chess_tournament_table, t, data)
    BY <1>1, <2>1
  <2>3. /\ DOMAIN chess_tournament_table' = DOMAIN chess_tournament_table \cup {t}
        /\ \A u \in DOMAIN chess_tournament_table :
             u # t => chess_tournament_table'[u] = chess_tournament_table[u]
        /\ chess_tournament_table'[t] = data
    BY <2>2 DEF Put
  <2>4. QED
    BY <1>1, <2>1, <2>3 DEF Tournaments
<1>3. << >> \in GameTables
  <2>1. << >> \in [{} -> GameTypes]
    BY SMT
  <2>2. {} \in SUBSET GameIds
    OBVIOUS
  <2>3. QED
    BY <2>1, <2>2 DEF GameTables
<1>4. NewTournament(max_games) \in TournamentTypes
  BY <1>3 DEF NewTournament, TournamentTypes
<1>5. /\ GamesIn(t)' = << >> /\ DOMAIN GamesIn(t)' = {}
      /\ chess_tournament_table'[t].in_progress
      /\ chess_tournament_table'[t].number_of_players = 0
  BY <1>2 DEF GamesIn, NewTournament
<1>6. \A u \in Tournaments : GamesIn(u)' = GamesIn(u)
  BY <1>2 DEF GamesIn
<1>7. QED
  BY <1>1, <1>2, <1>4, <1>5, <1>6 DEF AddsTournament

(* One more game: who plays it, and what becomes of the other entries.     *)
NewGame(p, q, winner, play_time) ==
  [player |-> [first |-> p, second |-> q], game_result |-> winner,
   game_time |-> play_time, deleted |-> [first |-> FALSE, second |-> FALSE]]

IsGame(game, p, q) ==
  /\ game \in GameTypes
  /\ game.player["first"] = p /\ game.player["second"] = q
  /\ ~ game.deleted["first"] /\ ~ game.deleted["second"]

LEMMA NewGameType ==
  ASSUME NEW pair \in Pairings, NEW winner \in Results, NEW play_time \in PlayTimes
  PROVE  IsGame(NewGame(pair[1], pair[2], winner, play_time), pair[1], pair[2])
<1>1. pair[1] \in PlayerIds /\ pair[2] \in PlayerIds /\ pair[1] # pair[2]
      /\ winner \in Sides \cup {"draw"}
  BY ConstantFacts
<1>2. /\ [first |-> pair[1], second |-> pair[2]] \in [Sides -> PlayerIds]
      /\ [first |-> FALSE, second |-> FALSE] \in [Sides -> BOOLEAN]
  <2>1. /\ [Sides -> PlayerIds] = [first : PlayerIds, second : PlayerIds]
        /\ [Sides -> BOOLEAN] = [first : BOOLEAN, second : BOOLEAN]
    BY DEF Sides
  <2>2. QED
    BY <1>1, <2>1
<1>3. NewGame(pair[1], pair[2], winner, play_time) \in Games
  BY <1>1, <1>2 DEF NewGame, Games
<1>4. /\ NewGame(pair[1], pair[2], winner, play_time).player["first"] = pair[1]
      /\ NewGame(pair[1], pair[2], winner, play_time).player["second"] = pair[2]
      /\ ~ NewGame(pair[1], pair[2], winner, play_time).deleted["first"]
      /\ ~ NewGame(pair[1], pair[2], winner, play_time).deleted["second"]
  BY DEF NewGame
<1>5. QED
  BY <1>1, <1>3, <1>4 DEF IsGame, GameTypes

(* What addPlayer and updatePlayerScore do for both players.               *)
LEMMA CreditedBoth ==
  ASSUME Typed, NEW p, NEW q, p # q, NEW game \in GameTypes, IsGame(game, p, q),
         players_list' = Credited(Credited(players_list, p, game), q, game)
  PROVE  /\ Listed' = Listed \cup {p, q}
         /\ \A r \in Listed' :
              players_list'[r] = Plus(IF r \in Listed THEN players_list[r] ELSE NoRecord,
                                      Tally(r, <<game>>))
         /\ \A r : Tally(r, <<game>>) \in Record
<1> DEFINE one == <<game>>
           record(r) == IF r \in Listed THEN players_list[r] ELSE NoRecord
<1>1. DOMAIN one = {1} /\ one[1] = game
  OBVIOUS
<1>2. IsTimed(one, DOMAIN one)
  <2>1. IsFiniteSet({1})
    BY FS_Singleton
  <2>2. QED
    BY <1>1, <2>1, GameFields DEF IsTimed
<1>3. \A r : Tally(r, one) \in Record
  BY <1>2, TallyType
<1>4. \A r : r \notin {p, q} => Tally(r, one) = NoRecord
  <2>1. \A r : r \notin {p, q} => PlayedBy(r, one) = {}
    BY <1>1 DEF PlayedBy, IsGame, Sides
  <2>2. QED
    BY <2>1, TallyOfNone
<1> HIDE DEF one
<1>5. PICK middle : middle = Credited(players_list, p, one[1])
  OBVIOUS
<1>6. /\ DOMAIN middle = Listed \cup {p}
      /\ middle[p] = Plus(record(p), Tally(p, one))
      /\ \A r \in Listed : r # p => middle[r] = players_list[r]
  BY <1>1, <1>5 DEF Credited, Put, Listed, one
<1>7. /\ Listed' = DOMAIN middle \cup {q}
      /\ players_list'[q] = Plus(IF q \in DOMAIN middle THEN middle[q] ELSE NoRecord, Tally(q, one))
      /\ \A r \in DOMAIN middle : r # q => players_list'[r] = middle[r]
  BY <1>1, <1>5 DEF Credited, Put, Listed, one
<1>8. players_list'[q] = Plus(record(q), Tally(q, one))
  BY <1>6, <1>7
<1>9. players_list'[p] = Plus(record(p), Tally(p, one))
  BY <1>6, <1>7
<1>10. ASSUME NEW r \in Listed, r \notin {p, q}
       PROVE  players_list'[r] = Plus(record(r), Tally(r, one))
  <2>1. players_list'[r] = players_list[r] /\ players_list[r] \in Record
    BY <1>6, <1>7, <1>10 DEF Typed
  <2>2. NoRecord \in Record /\ Tally(r, one) = NoRecord
    BY <1>4, <1>10 DEF NoRecord, Record
  <2>3. Plus(players_list[r], NoRecord) = players_list[r]
    <3>1. PICK x \in Record : x = players_list[r]
      BY <2>1
    <3>2. Plus(x, NoRecord) = x
      BY PlusNone
    <3>3. QED
      BY <3>1, <3>2
  <2>4. QED
    BY <2>1, <2>2, <2>3
<1>11. QED
  BY <1>3, <1>6, <1>7, <1>8, <1>9, <1>10 DEF one

AddsGame(t, p, q, id, game) ==
  /\ t \in Tournaments /\ Tournaments' = Tournaments
  /\ chess_tournament_table[t].in_progress
  /\ id \in GameIds \ UsedIds /\ id \notin DOMAIN GamesIn(t)
  /\ p \in PlayerIds /\ q \in PlayerIds /\ p # q /\ IsGame(game, p, q)
  /\ ~ checkAlreadyExistGame(GamesIn(t), p, q)
  /\ ~ exceeded(chess_tournament_table[t], p) /\ ~ exceeded(chess_tournament_table[t], q)
  /\ \A u \in Tournaments : u # t => /\ chess_tournament_table'[u] = chess_tournament_table[u]
                                     /\ GamesIn(u)' = GamesIn(u)
  /\ chess_tournament_table'[t] \in TournamentTypes
  /\ chess_tournament_table'[t].in_progress
  /\ chess_tournament_table'[t].number_of_players
       = chess_tournament_table[t].number_of_players + newPlayers(GamesIn(t)', p, q)
  /\ chess_tournament_table'[t].max_games_per_player
       = chess_tournament_table[t].max_games_per_player
  /\ DOMAIN GamesIn(t)' = DOMAIN GamesIn(t) \cup {id}
  /\ GamesIn(t)'[id] = game
  /\ \A i \in DOMAIN GamesIn(t) : GamesIn(t)'[i] = GamesIn(t)[i]
  /\ Listed' = Listed \cup {p, q}
  /\ \A r \in Listed' :
       players_list'[r] = Plus(IF r \in Listed THEN players_list[r] ELSE NoRecord,
                               Tally(r, <<game>>))
  /\ \A r : Tally(r, <<game>>) \in Record
  /\ returned' = returned \cup (removed \cap {p, q})
  /\ UNCHANGED <<status, removed>>

LEMMA AddGameDoes ==
  ASSUME NEW t \in TournamentIds, NEW pair \in Pairings, NEW winner \in Results,
         NEW play_time \in PlayTimes, Typed, GameIdsUnique,
         chessAddGame(t, pair[1], pair[2], winner, play_time)
  PROVE  \E id, game : AddsGame(t, pair[1], pair[2], id, game)
<1> DEFINE p == pair[1]
           q == pair[2]
           table == chess_tournament_table
<1>1. PICK id : id = generateGameId(t)
  OBVIOUS
<1>2. PICK game : game = NewGame(p, q, winner, play_time)
  OBVIOUS
<1>3. PICK games : games = Put(GamesIn(t), id, game)
  OBVIOUS
<1>4. /\ t \in Tournaments /\ Cardinality(DOMAIN AllGames) < MaxGames
      /\ table' = [table EXCEPT ![t].games = games,
                                ![t].number_of_players = @ + newPlayers(games, p, q)]
      /\ players_list' = Credited(Credited(players_list, p, game), q, game)
  BY <1>1, <1>2, <1>3 DEF chessAddGame, NewGame, GamesIn
<1>5. /\ table[t].in_progress /\ ~ checkAlreadyExistGame(GamesIn(t), p, q)
      /\ ~ exceeded(table[t], p) /\ ~ exceeded(table[t], q)
      /\ returned' = returned \cup (removed \cap {p, q})
      /\ UNCHANGED <<status, removed>>
  BY DEF chessAddGame, GamesIn
<1>6. id \in GameIds \ UsedIds /\ id \notin DOMAIN GamesIn(t)
  BY <1>1, <1>4, FreshId DEF UsedIds
<1>7. game \in GameTypes /\ IsGame(game, p, q) /\ p \in PlayerIds /\ q \in PlayerIds /\ p # q
  BY <1>2, NewGameType, ConstantFacts DEF IsGame
<1>8. /\ DOMAIN games = DOMAIN GamesIn(t) \cup {id} /\ games[id] = game
      /\ games = [i \in DOMAIN games |-> games[i]]
      /\ \A i \in DOMAIN GamesIn(t) : games[i] = GamesIn(t)[i]
  BY <1>3, <1>6 DEF Put
<1>9. games \in GameTables
  <2>1. DOMAIN games \subseteq GameIds /\ \A i \in DOMAIN games : games[i] \in GameTypes
    BY <1>4, <1>6, <1>7, <1>8, TournamentFields
  <2>2. QED
    BY <1>8, <2>1, TableFields
<1>10. newPlayers(games, p, q) \in Nat
  <2>1. IsFiniteSet({p, q})
    <3>1. IsFiniteSet({p} \cup {q})
      BY FS_Singleton, FS_AddElement
    <3>2. {p, q} = {p} \cup {q}
      OBVIOUS
    <3>3. QED
      BY <3>1, <3>2
  <2>2. QED
    BY <2>1, FS_Subset, FS_CardinalityType DEF newPlayers
<1>11. /\ Tournaments' = Tournaments
       /\ \A u \in Tournaments : u # t => table'[u] = table[u]
       /\ table'[t] = [table[t] EXCEPT !.games = games,
                                       !.number_of_players = @ + newPlayers(games, p, q)]
  BY <1>4 DEF Tournaments
<1>12. /\ table'[t] \in TournamentTypes
       /\ table'[t].games = games
       /\ table'[t].in_progress = table[t].in_progress
       /\ table'[t].number_of_players = table[t].number_of_players + newPlayers(games, p, q)
       /\ table'[t].max_games_per_player = table[t].max_games_per_player
  <2>1. table[t] \in TournamentTypes
    BY <1>4 DEF Typed
  <2>2. PICK n : n = table[t].number_of_players + newPlayers(games, p, q)
    OBVIOUS
  <2>3. n \in Nat
    BY <1>10, <2>1, <2>2 DEF TournamentTypes
  <2>4. table'[t] = [table[t] EXCEPT !.games = games, !.number_of_players = n]
    BY <1>11, <2>2
  <2>5. /\ table'[t] \in TournamentTypes
        /\ table'[t].games = games /\ table'[t].number_of_players = n
        /\ table'[t].in_progress = table[t].in_progress
        /\ table'[t].max_games_per_player = table[t].max_games_per_player
    <3> HIDE DEF table
    <3>1. QED
      BY <1>9, <2>1, <2>3, <2>4 DEF TournamentTypes
  <2>6. QED
    BY <2>2, <2>5
<1>13. GamesIn(t)' = games /\ \A u \in Tournaments : u # t => GamesIn(u)' = GamesIn(u)
  BY <1>11, <1>12 DEF GamesIn
<1>14. /\ Listed' = Listed \cup {p, q}
       /\ \A r \in Listed' :
            players_list'[r] = Plus(IF r \in Listed THEN players_list[r] ELSE NoRecord,
                                    Tally(r, <<game>>))
       /\ \A r : Tally(r, <<game>>) \in Record
  <2> HIDE DEF p, q
  <2>1. QED
    BY <1>4, <1>7, CreditedBoth
<1>15. AddsGame(t, p, q, id, game)
  BY <1>4, <1>5, <1>6, <1>7, <1>8, <1>11, <1>12, <1>13, <1>14 DEF AddsGame
<1>16. QED
  BY <1>15

RemovesTournament(t) ==
  /\ t \in Tournaments /\ Tournaments' = Tournaments \ {t}
  /\ \A u \in Tournaments' : /\ chess_tournament_table'[u] = chess_tournament_table[u]
                              /\ GamesIn(u)' = GamesIn(u)
  /\ Listed' = Listed
  /\ \A p \in Listed : players_list'[p] = Minus(players_list[p], Tally(p, GamesIn(t)))
  /\ UNCHANGED <<status, removed, returned>>

LEMMA RemoveTournamentDoes ==
  ASSUME NEW t, Typed, chessRemoveTournament(t)
  PROVE  RemovesTournament(t)
<1>1. /\ t \in Tournaments
      /\ chess_tournament_table' = Removed(chess_tournament_table, t)
      /\ players_list' = [p \in Listed |-> Minus(players_list[p], Tally(p, GamesIn(t)))]
      /\ UNCHANGED <<status, removed, returned>>
  BY DEF chessRemoveTournament, history
<1>2. /\ Tournaments' = Tournaments \ {t}
      /\ \A u \in Tournaments \ {t} : chess_tournament_table'[u] = chess_tournament_table[u]
  BY <1>1, RemovedProperties DEF Tournaments
<1>3. \A u \in Tournaments' : GamesIn(u)' = GamesIn(u)
  BY <1>2 DEF GamesIn
<1>4. QED
  BY <1>1, <1>2, <1>3 DEF RemovesTournament, Listed

(* A game after the removal of one of its players.                         *)
LEMMA WithoutPlayerIs ==
  ASSUME NEW g \in GameTypes, NEW p, NEW side \in Sides, g.player[side] = p
  PROVE  LET h == withoutPlayer(p, g)
             o == OtherSide(side)
         IN  /\ h \in GameTypes
             /\ h.player = g.player /\ h.game_time = g.game_time
             /\ h.deleted[side] /\ h.deleted[o] = g.deleted[o]
             /\ h.game_result = IF g.player[o] \in Listed THEN o ELSE g.game_result
             /\ o \in Sides /\ o # side /\ g.player[o] # p
<1> DEFINE o == OtherSide(side)
<1>1. o \in Sides /\ o # side /\ Sides = {side, o}
  BY DEF OtherSide, Sides
<1>2. g.player[o] # p
  BY <1>1, GameFields DEF Sides
<1>3. SideOf(p, g) = side
  BY <1>1, <1>2 DEF SideOf
<1>4. withoutPlayer(p, g) =
        [g EXCEPT !.deleted[side] = TRUE,
                  !.game_result = IF g.player[o] \in Listed THEN o ELSE @]
  BY <1>3 DEF withoutPlayer
<1>5. g \in Games /\ g.player["first"] # g.player["second"]
  BY DEF GameTypes
<1>6. g.deleted \in [Sides -> BOOLEAN] /\ g.game_result \in Sides \cup {"draw"}
  BY <1>5 DEF Games
<1>7. /\ withoutPlayer(p, g) \in Games
      /\ withoutPlayer(p, g).player = g.player /\ withoutPlayer(p, g).game_time = g.game_time
      /\ withoutPlayer(p, g).deleted = [g.deleted EXCEPT ![side] = TRUE]
      /\ withoutPlayer(p, g).game_result = IF g.player[o] \in Listed THEN o ELSE g.game_result
  <2> DEFINE d == [g.deleted EXCEPT ![side] = TRUE]
             r == IF g.player[o] \in Listed THEN o ELSE g.game_result
  <2>1. d \in [Sides -> BOOLEAN] /\ r \in Sides \cup {"draw"}
    BY <1>1, <1>6
  <2>2. withoutPlayer(p, g) = [g EXCEPT !.deleted = d, !.game_result = r]
    BY <1>4, <1>5 DEF Games
  <2> HIDE DEF d, r
  <2>3. /\ withoutPlayer(p, g) \in Games
        /\ withoutPlayer(p, g).player = g.player /\ withoutPlayer(p, g).game_time = g.game_time
        /\ withoutPlayer(p, g).deleted = d /\ withoutPlayer(p, g).game_result = r
    BY <1>5, <2>1, <2>2 DEF Games
  <2>4. QED
    BY <2>3 DEF d, r
<1>8. QED
  BY <1>1, <1>2, <1>5, <1>6, <1>7 DEF GameTypes

LEMMA Concerns ==
  ASSUME NEW p, Typed, NEW t \in Tournaments, NEW id \in DOMAIN GamesIn(t), concerns(p, t, id)
  PROVE  \E side \in Sides : GamesIn(t)[id] \in GameTypes /\ GamesIn(t)[id].player[side] = p
<1>1. id \in PlayedBy(p, GamesIn(t))
  BY DEF concerns
<1>2. GamesIn(t)[id] \in GameTypes
  BY TournamentFields
<1>3. QED
  BY <1>1, <1>2 DEF PlayedBy

(* The games that the removal of a player changes, before and after.       *)
Before(p) == Restrict(AllGames, {x \in DOMAIN AllGames : concerns(p, x[1], x[2])})

After(p) == [x \in DOMAIN Before(p) |-> withoutPlayer(p, Before(p)[x])]

Changed(p, t, id) ==
  IF concerns(p, t, id) THEN withoutPlayer(p, GamesIn(t)[id]) ELSE GamesIn(t)[id]

LEMMA BeforeAndAfter ==
  ASSUME NEW p
  PROVE  /\ DOMAIN Before(p) = {x \in DOMAIN AllGames : concerns(p, x[1], x[2])}
         /\ DOMAIN After(p) = DOMAIN Before(p)
         /\ \A x \in DOMAIN Before(p) : Before(p)[x] = AllGames[x]
         /\ \A x \in DOMAIN Before(p) : After(p)[x] = withoutPlayer(p, AllGames[x])
         /\ \A t \in Tournaments : \A id \in DOMAIN GamesIn(t) :
              /\ <<t, id>> \in DOMAIN After(p) <=> concerns(p, t, id)
              /\ concerns(p, t, id) => After(p)[<<t, id>>] = withoutPlayer(p, GamesIn(t)[id])
<1>1. /\ DOMAIN Before(p) = {x \in DOMAIN AllGames : concerns(p, x[1], x[2])}
      /\ \A x \in DOMAIN Before(p) : Before(p)[x] = AllGames[x]
  BY DEF Before, Restrict
<1>2. /\ DOMAIN After(p) = DOMAIN Before(p)
      /\ \A x \in DOMAIN Before(p) : After(p)[x] = withoutPlayer(p, AllGames[x])
  BY <1>1 DEF After
<1>3. ASSUME NEW t \in Tournaments, NEW id \in DOMAIN GamesIn(t)
      PROVE  /\ <<t, id>> \in DOMAIN After(p) <=> concerns(p, t, id)
             /\ concerns(p, t, id) => After(p)[<<t, id>>] = withoutPlayer(p, GamesIn(t)[id])
  <2>1. <<t, id>> \in DOMAIN AllGames /\ AllGames[<<t, id>>] = GamesIn(t)[id]
    BY AllGamesIs
  <2>2. <<t, id>> \in DOMAIN After(p) <=> concerns(p, t, id)
    BY <1>1, <1>2, <2>1
  <2>3. QED
    BY <1>2, <2>1, <2>2
<1>4. QED
  BY <1>1, <1>2, <1>3

LEMMA ChangedTimed ==
  ASSUME Typed, GameIdsUnique, NEW p
  PROVE  IsTimed(Before(p), DOMAIN Before(p)) /\ IsTimed(After(p), DOMAIN After(p))
<1>1. /\ DOMAIN Before(p) \in SUBSET DOMAIN AllGames /\ DOMAIN After(p) = DOMAIN Before(p)
      /\ \A x \in DOMAIN Before(p) : Before(p)[x] = AllGames[x]
      /\ \A x \in DOMAIN Before(p) : After(p)[x] = withoutPlayer(p, AllGames[x])
  BY BeforeAndAfter
<1>2. IsTimed(AllGames, DOMAIN Before(p))
  BY <1>1, AllGamesCount, TimedPart
<1>3. ASSUME NEW x \in DOMAIN Before(p)
      PROVE  After(p)[x].game_time \in Int
  <2>1. x[1] \in Tournaments /\ x[2] \in DOMAIN GamesIn(x[1]) /\ AllGames[x] = GamesIn(x[1])[x[2]]
    BY <1>1, AllGamesIs
  <2>2. concerns(p, x[1], x[2])
    BY BeforeAndAfter
  <2>3. PICK side \in Sides : AllGames[x] \in GameTypes /\ AllGames[x].player[side] = p
    BY <2>1, <2>2, Concerns
  <2>4. PICK g \in GameTypes : g = AllGames[x]
    BY <2>3
  <2>5. withoutPlayer(p, g).game_time = g.game_time
    BY <2>3, <2>4, WithoutPlayerIs
  <2>6. QED
    BY <1>1, <2>4, <2>5, GameFields
<1>4. QED
  BY <1>1, <1>2, <1>3 DEF IsTimed

RemovesPlayer(p) ==
  /\ p \in Listed /\ Tournaments' = Tournaments
  /\ Listed' = Listed \ {p} /\ removed' = removed \cup {p}
  /\ status' = status /\ returned' = returned
  /\ \A t \in Tournaments :
       /\ \E games \in GameTables :
            chess_tournament_table'[t] = [chess_tournament_table[t] EXCEPT !.games = games]
       /\ chess_tournament_table'[t] \in TournamentTypes
       /\ chess_tournament_table'[t].in_progress = chess_tournament_table[t].in_progress
       /\ chess_tournament_table'[t].winner_id = chess_tournament_table[t].winner_id
       /\ chess_tournament_table'[t].number_of_players
            = chess_tournament_table[t].number_of_players
       /\ chess_tournament_table'[t].max_games_per_player
            = chess_tournament_table[t].max_games_per_player
       /\ GamesIn(t)' = [id \in DOMAIN GamesIn(t) |-> Changed(p, t, id)]
       /\ DOMAIN GamesIn(t)' = DOMAIN GamesIn(t)
       /\ \A id \in DOMAIN GamesIn(t) : GamesIn(t)'[id] = Changed(p, t, id)
  /\ \A q \in Listed' :
       players_list'[q] = Plus(Minus(players_list[q], Tally(q, Before(p))), Tally(q, After(p)))

LEMMA RemovePlayerDoes ==
  ASSUME NEW p, Typed, chessRemovePlayer(p)
  PROVE  RemovesPlayer(p)
<1> DEFINE table == chess_tournament_table
           games(t) == [id \in DOMAIN GamesIn(t) |->
                          IF <<t, id>> \in DOMAIN After(p) THEN After(p)[<<t, id>>]
                          ELSE GamesIn(t)[id]]
           mine(t) == [id \in DOMAIN GamesIn(t) |-> Changed(p, t, id)]
<1>1. /\ p \in Listed /\ removed' = removed \cup {p} /\ status' = status /\ returned' = returned
      /\ chess_tournament_table' =
           [t \in Tournaments |->
              [chess_tournament_table[t] EXCEPT
                 !.games = [id \in DOMAIN @ |->
                              IF <<t, id>> \in DOMAIN After(p) THEN After(p)[<<t, id>>] ELSE @[id]]]]
      /\ players_list' =
           [q \in Listed \ {p} |->
              Plus(Minus(players_list[q], Tally(q, Before(p))), Tally(q, After(p)))]
  BY DEF chessRemovePlayer, Before, After
<1>2. chess_tournament_table' =
        [t \in Tournaments |-> [chess_tournament_table[t] EXCEPT !.games = games(t)]]
  BY <1>1 DEF GamesIn
<1>3. ASSUME NEW t \in Tournaments
      PROVE  games(t) = mine(t) /\ mine(t) \in GameTables /\ DOMAIN mine(t) = DOMAIN GamesIn(t)
  <2>1. ASSUME NEW id \in DOMAIN GamesIn(t)
        PROVE  /\ Changed(p, t, id) = IF <<t, id>> \in DOMAIN After(p) THEN After(p)[<<t, id>>]
                                      ELSE GamesIn(t)[id]
               /\ Changed(p, t, id) \in GameTypes
    <3>1. CASE concerns(p, t, id)
      <4>1. PICK side \in Sides : GamesIn(t)[id] \in GameTypes /\ GamesIn(t)[id].player[side] = p
        BY <3>1, Concerns
      <4>2. PICK g \in GameTypes : g = GamesIn(t)[id]
        BY <4>1
      <4>3. withoutPlayer(p, g) \in GameTypes
        BY <4>1, <4>2, WithoutPlayerIs
      <4>4. QED
        BY <3>1, <4>2, <4>3, BeforeAndAfter DEF Changed
    <3>2. CASE ~ concerns(p, t, id)
      BY <3>2, BeforeAndAfter, TournamentFields DEF Changed
    <3>3. QED
      BY <3>1, <3>2
  <2>2. mine(t) \in [DOMAIN GamesIn(t) -> GameTypes] /\ games(t) = mine(t)
    BY <2>1
  <2>3. DOMAIN GamesIn(t) \in SUBSET GameIds
    BY TournamentFields
  <2>4. QED
    BY <2>2, <2>3 DEF GameTables
<1>4. ASSUME NEW t \in Tournaments
      PROVE  /\ table'[t] = [table[t] EXCEPT !.games = mine(t)]
             /\ table'[t] \in TournamentTypes
             /\ table'[t].in_progress = table[t].in_progress
             /\ table'[t].winner_id = table[t].winner_id
             /\ table'[t].number_of_players = table[t].number_of_players
             /\ table'[t].max_games_per_player = table[t].max_games_per_player
             /\ table'[t].games = mine(t)
  <2>1. table[t] \in TournamentTypes
    BY DEF Typed
  <2>2. table'[t] = [table[t] EXCEPT !.games = mine(t)]
    BY <1>2, <1>3
  <2>3. mine(t) \in GameTables
    BY <1>3
  <2> HIDE DEF mine
  <2>4. QED
    BY <2>1, <2>2, <2>3 DEF TournamentTypes
<1>5. Tournaments' = Tournaments /\ Listed' = Listed \ {p}
  BY <1>1, <1>2 DEF Tournaments, Listed
<1>6. ASSUME NEW t \in Tournaments
      PROVE  /\ GamesIn(t)' = mine(t) /\ DOMAIN GamesIn(t)' = DOMAIN GamesIn(t)
             /\ \A id \in DOMAIN GamesIn(t) : GamesIn(t)'[id] = Changed(p, t, id)
  <2>1. GamesIn(t)' = mine(t)
    BY <1>4 DEF GamesIn
  <2>2. QED
    BY <2>1
<1>7. \A q \in Listed' :
        players_list'[q] = Plus(Minus(players_list[q], Tally(q, Before(p))), Tally(q, After(p)))
  BY <1>1, <1>5
<1>8. QED
  BY <1>1, <1>3, <1>4, <1>5, <1>6, <1>7 DEF RemovesPlayer

EndsTournament(t) ==
  /\ t \in Tournaments /\ Tournaments' = Tournaments
  /\ chess_tournament_table[t].in_progress /\ DOMAIN GamesIn(t) # {}
  /\ \A u \in Tournaments : u # t => chess_tournament_table'[u] = chess_tournament_table[u]
  /\ \A u \in Tournaments : GamesIn(u)' = GamesIn(u)
  /\ chess_tournament_table'[t] \in TournamentTypes
  /\ chess_tournament_table'[t].winner_id = checkWinner(Histogram(GamesIn(t)))
  /\ ~ chess_tournament_table'[t].in_progress
  /\ chess_tournament_table'[t].number_of_players = chess_tournament_table[t].number_of_players
  /\ chess_tournament_table'[t].max_games_per_player
       = chess_tournament_table[t].max_games_per_player
  /\ UNCHANGED <<players_list, status, removed, returned>>

LEMMA EndTournamentDoes ==
  ASSUME NEW t, Typed, chessEndTournament(t)
  PROVE  EndsTournament(t)
<1> DEFINE table == chess_tournament_table
<1>1. PICK w : w = checkWinner(Histogram(GamesIn(t)))
  OBVIOUS
<1>2. /\ t \in Tournaments /\ table[t].in_progress /\ DOMAIN GamesIn(t) # {}
      /\ table' = [table EXCEPT ![t].winner_id = w, ![t].in_progress = FALSE]
      /\ UNCHANGED <<players_list, status, removed, returned>>
  BY <1>1 DEF chessEndTournament, history
<1>3. w \in PlayerIds \cup {0}
  <2>1. PICK games \in GameTables : games = GamesIn(t)
    BY <1>2, TournamentFields
  <2>2. w \in Counted(games) \cup {0}
    BY <1>1, <1>2, <2>1, WinnerProperties
  <2>3. QED
    BY <2>2, CountedIs
<1>4. /\ Tournaments' = Tournaments
      /\ \A u \in Tournaments : u # t => table'[u] = table[u]
      /\ table'[t] = [table[t] EXCEPT !.winner_id = w, !.in_progress = FALSE]
  BY <1>2 DEF Tournaments
<1>5. /\ table'[t] \in TournamentTypes /\ table'[t].winner_id = w /\ ~ table'[t].in_progress
      /\ table'[t].games = table[t].games
      /\ table'[t].number_of_players = table[t].number_of_players
      /\ table'[t].max_games_per_player = table[t].max_games_per_player
  <2>1. table[t] \in TournamentTypes
    BY <1>2 DEF Typed
  <2>2. QED
    BY <1>3, <1>4, <2>1 DEF TournamentTypes
<1>6. \A u \in Tournaments : GamesIn(u)' = GamesIn(u)
  BY <1>4, <1>5 DEF GamesIn
<1>7. QED
  BY <1>1, <1>2, <1>4, <1>5, <1>6 DEF EndsTournament

-----------------------------------------------------------------------------
(* A step, by what it does to the tables.                                  *)
SameTables ==
  /\ UNCHANGED <<chess_tournament_table, players_list, removed, returned>>
  /\ status' \in {"running", "segfault"}
  /\ Tournaments' = Tournaments /\ Listed' = Listed
  /\ \A t : GamesIn(t)' = GamesIn(t)

Effect ==
  \/ \E t, max_games : AddsTournament(t, max_games)
  \/ \E t, p, q, id, game : AddsGame(t, p, q, id, game)
  \/ \E t : RemovesTournament(t)
  \/ \E t : EndsTournament(t)
  \/ \E p : RemovesPlayer(p)
  \/ SameTables

LEMMA StepDoes ==
  ASSUME Typed, GameIdsUnique, [Next]_vars
  PROVE  Effect
<1>1. CASE \E t \in TournamentIds, max_games \in MaxGamesArgs : chessAddTournament(t, max_games)
  BY <1>1, AddTournamentDoes DEF Effect
<1>2. CASE \E t \in TournamentIds, pair \in Pairings, winner \in Results, play_time \in PlayTimes :
             chessAddGame(t, pair[1], pair[2], winner, play_time)
  <2>1. PICK t \in TournamentIds, pair \in Pairings, winner \in Results, play_time \in PlayTimes :
          chessAddGame(t, pair[1], pair[2], winner, play_time)
    BY <1>2
  <2>2. \E id, game : AddsGame(t, pair[1], pair[2], id, game)
    BY <2>1, AddGameDoes
  <2>3. QED
    BY <2>2 DEF Effect
<1>3. CASE \E t \in TournamentIds : chessRemoveTournament(t) \/ chessEndTournament(t)
  BY <1>3, RemoveTournamentDoes, EndTournamentDoes DEF Effect
<1>4. CASE \E p \in PlayerIds : chessRemovePlayer(p)
  BY <1>4, RemovePlayerDoes DEF Effect
<1>5. CASE chessSaveTournamentStatistics \/ UNCHANGED vars
  <2>1. /\ UNCHANGED <<chess_tournament_table, players_list, removed, returned>>
        /\ status' \in {"running", "segfault"}
    BY <1>5 DEF chessSaveTournamentStatistics, history, vars, Typed
  <2>2. SameTables
    BY <2>1 DEF SameTables, Tournaments, Listed, GamesIn
  <2>3. QED
    BY <2>2 DEF Effect
<1>6. QED
  BY <1>1, <1>2, <1>3, <1>4, <1>5 DEF Next

(* The types are kept.                                                     *)
LEMMA TypedNext ==
  ASSUME Typed, GameIdsUnique, Effect
  PROVE  Typed'
<1>0. /\ Tournaments \subseteq TournamentIds
      /\ \A t \in Tournaments : chess_tournament_table[t] \in TournamentTypes
      /\ Listed \subseteq PlayerIds
      /\ \A p \in Listed : players_list[p] \in Record
      /\ status \in {"running", "segfault"}
      /\ removed \subseteq PlayerIds
      /\ returned \subseteq removed
  BY DEF Typed
<1>1. CASE \E t, max_games : AddsTournament(t, max_games)
  <2>1. PICK t, max_games : AddsTournament(t, max_games)
    BY <1>1
  <2>2. \A u \in Tournaments' : chess_tournament_table'[u] \in TournamentTypes
    BY <1>0, <2>1 DEF AddsTournament
  <2>3. QED
    BY <1>0, <2>1, <2>2 DEF Typed, AddsTournament, Listed
<1>2. CASE \E t, p, q, id, game : AddsGame(t, p, q, id, game)
  <2>1. PICK t, p, q, id, game : AddsGame(t, p, q, id, game)
    BY <1>2
  <2>2. \A u \in Tournaments' : chess_tournament_table'[u] \in TournamentTypes
    BY <1>0, <2>1 DEF AddsGame
  <2>3. \A r \in Listed' : players_list'[r] \in Record
    <3>1. ASSUME NEW r \in Listed'
          PROVE  players_list'[r] \in Record
      <4>1. PICK x : x = IF r \in Listed THEN players_list[r] ELSE NoRecord
        OBVIOUS
      <4>2. PICK y \in Record : y = Tally(r, <<game>>)
        BY <2>1 DEF AddsGame
      <4>3. x \in Record
        BY <1>0, <4>1, PlusNone DEF NoRecord, Record
      <4>4. Plus(x, y) \in Record
        BY <4>2, <4>3, PlusMinus
      <4>5. QED
        BY <2>1, <4>1, <4>2, <4>4 DEF AddsGame
    <3>2. QED
      BY <3>1
  <2>4. Listed' \subseteq PlayerIds /\ returned' \subseteq removed'
    BY <1>0, <2>1 DEF AddsGame
  <2>5. QED
    BY <1>0, <2>1, <2>2, <2>3, <2>4 DEF Typed, AddsGame
<1>3. CASE \E t : RemovesTournament(t)
  <2>1. PICK t : RemovesTournament(t)
    BY <1>3
  <2>2. ASSUME NEW p \in Listed
        PROVE  players_list'[p] \in Record
    <3>1. t \in Tournaments
      BY <2>1 DEF RemovesTournament
    <3>2. PICK games \in GameTables : games = GamesIn(t)
      BY <3>1, TournamentFields
    <3>3. Tally(p, games) \in Record
      BY TableTimed, TallyType
    <3>4. PICK x \in Record, y \in Record : x = players_list[p] /\ y = Tally(p, games)
      BY <1>0, <3>3
    <3>5. Minus(x, y) \in Record
      BY PlusMinus
    <3>6. QED
      BY <2>1, <3>2, <3>4, <3>5 DEF RemovesTournament
  <2>3. QED
    BY <1>0, <2>1, <2>2 DEF Typed, RemovesTournament
<1>4. CASE \E t : EndsTournament(t)
  <2>1. PICK t : EndsTournament(t)
    BY <1>4
  <2>2. \A u \in Tournaments' : chess_tournament_table'[u] \in TournamentTypes
    BY <1>0, <2>1 DEF EndsTournament
  <2>3. QED
    BY <1>0, <2>1, <2>2 DEF Typed, EndsTournament, Listed
<1>5. CASE \E p : RemovesPlayer(p)
  <2>1. PICK p : RemovesPlayer(p)
    BY <1>5
  <2>2. ASSUME NEW q \in Listed'
        PROVE  players_list'[q] \in Record
    <3>1. IsTimed(Before(p), DOMAIN Before(p)) /\ IsTimed(After(p), DOMAIN After(p))
      BY ChangedTimed
    <3>2. Tally(q, Before(p)) \in Record /\ Tally(q, After(p)) \in Record
      BY <3>1, TallyType
    <3>3. PICK x \in Record, y \in Record, z \in Record :
            x = players_list[q] /\ y = Tally(q, Before(p)) /\ z = Tally(q, After(p))
      BY <1>0, <2>1, <3>2 DEF RemovesPlayer
    <3>4. Minus(x, y) \in Record
      BY PlusMinus
    <3>5. Plus(Minus(x, y), z) \in Record
      BY <3>4, PlusMinus
    <3>6. QED
      BY <2>1, <3>3, <3>5 DEF RemovesPlayer
  <2>3. QED
    BY <1>0, <2>1, <2>2 DEF Typed, RemovesPlayer
<1>6. CASE SameTables
  BY <1>0, <1>6 DEF SameTables, Typed
<1>7. QED
  BY <1>1, <1>2, <1>3, <1>4, <1>5, <1>6 DEF Effect

-----------------------------------------------------------------------------
(* Identifiers, maxima and repeated games.                                 *)
LEMMA GameIdsUniqueNext ==
  ASSUME GameIdsUnique, Effect
  PROVE  GameIdsUnique'
<1>0. \A s, t \in Tournaments : s # t => DOMAIN GamesIn(s) \cap DOMAIN GamesIn(t) = {}
  BY DEF GameIdsUnique
<1> SUFFICES ASSUME NEW s \in Tournaments', NEW u \in Tournaments', s # u
             PROVE  DOMAIN GamesIn(s)' \cap DOMAIN GamesIn(u)' = {}
  BY DEF GameIdsUnique
<1>1. CASE \E t, max_games : AddsTournament(t, max_games)
  BY <1>0, <1>1 DEF AddsTournament
<1>2. CASE \E t, p, q, id, game : AddsGame(t, p, q, id, game)
  <2>1. PICK t, p, q, id, game : AddsGame(t, p, q, id, game)
    BY <1>2
  <2>2. /\ s \in Tournaments /\ u \in Tournaments
        /\ id \notin DOMAIN GamesIn(s) /\ id \notin DOMAIN GamesIn(u)
    BY <2>1 DEF AddsGame, UsedIds
  <2>3. /\ s # t => DOMAIN GamesIn(s)' = DOMAIN GamesIn(s)
        /\ u # t => DOMAIN GamesIn(u)' = DOMAIN GamesIn(u)
        /\ DOMAIN GamesIn(t)' = DOMAIN GamesIn(t) \cup {id}
    BY <2>1, <2>2 DEF AddsGame
  <2>4. QED
    BY <1>0, <2>2, <2>3
<1>3. CASE \E t : RemovesTournament(t)
  BY <1>0, <1>3 DEF RemovesTournament
<1>4. CASE \E t : EndsTournament(t)
  BY <1>0, <1>4 DEF EndsTournament
<1>5. CASE \E p : RemovesPlayer(p)
  BY <1>0, <1>5 DEF RemovesPlayer
<1>6. CASE SameTables
  BY <1>0, <1>6 DEF SameTables
<1>7. QED
  BY <1>1, <1>2, <1>3, <1>4, <1>5, <1>6 DEF Effect

(* What a removal leaves of a game.                                        *)
IsChanged(p, t, id, g, h) ==
  /\ g \in GameTypes /\ h \in GameTypes /\ h.player = g.player
  /\ concerns(p, t, id) <=> /\ chess_tournament_table[t].in_progress
                            /\ \E side \in Sides : g.player[side] = p
  /\ ~ concerns(p, t, id) => h = g
  /\ \A side \in Sides :
       h.deleted[side] <=> g.deleted[side] \/ (concerns(p, t, id) /\ g.player[side] = p)
  /\ \A side \in Sides :
       concerns(p, t, id) /\ g.player[side] = p =>
         h.game_result = IF g.player[OtherSide(side)] \in Listed THEN OtherSide(side)
                         ELSE g.game_result

LEMMA ChangedFields ==
  ASSUME Typed, NEW p, NEW t \in Tournaments, NEW id \in DOMAIN GamesIn(t)
  PROVE  IsChanged(p, t, id, GamesIn(t)[id], Changed(p, t, id))
<1>1. PICK g \in GameTypes : g = GamesIn(t)[id]
  BY TournamentFields
<1>2. concerns(p, t, id) <=> /\ chess_tournament_table[t].in_progress
                             /\ \E side \in Sides : g.player[side] = p
  BY <1>1 DEF concerns, PlayedBy
<1>3. CASE ~ concerns(p, t, id)
  BY <1>1, <1>2, <1>3 DEF Changed, IsChanged
<1>4. CASE concerns(p, t, id)
  <2>1. PICK h : h = withoutPlayer(p, g)
    OBVIOUS
  <2>2. PICK side \in Sides : g.player[side] = p
    BY <1>2, <1>4
  <2>3. PICK o : o = OtherSide(side)
    OBVIOUS
  <2>4. /\ h \in GameTypes /\ h.player = g.player
        /\ h.deleted[side] /\ h.deleted[o] = g.deleted[o]
        /\ h.game_result = IF g.player[o] \in Listed THEN o ELSE g.game_result
        /\ o \in Sides /\ o # side /\ g.player[o] # p
    BY <2>1, <2>2, <2>3, WithoutPlayerIs
  <2>5. \A s \in Sides : s = side \/ s = o
    BY <2>4 DEF Sides
  <2>6. h = Changed(p, t, id)
    BY <1>1, <1>4, <2>1 DEF Changed
  <2>7. h.deleted[o] \in BOOLEAN /\ g.deleted[o] \in BOOLEAN /\ g.deleted[side] \in BOOLEAN
    BY <2>4, GameFields
  <2>8. \A s \in Sides : h.deleted[s] <=> g.deleted[s] \/ g.player[s] = p
    BY <2>2, <2>4, <2>5, <2>7
  <2>9. \A s \in Sides : g.player[s] = p =>
          h.game_result = IF g.player[OtherSide(s)] \in Listed THEN OtherSide(s) ELSE g.game_result
    BY <2>3, <2>4, <2>5
  <2>10. QED
    BY <1>1, <1>2, <1>4, <2>4, <2>6, <2>8, <2>9 DEF IsChanged
<1>5. QED
  BY <1>3, <1>4

(* Whose games are counted after a step.                                   *)
LEMMA CountedAfterAdd ==
  ASSUME Typed, NEW t, NEW p, NEW q, NEW id, NEW game, AddsGame(t, p, q, id, game), NEW r
  PROVE  /\ CountedFor(r, GamesIn(t)') =
              CountedFor(r, GamesIn(t)) \cup (IF r \in {p, q} THEN {id} ELSE {})
         /\ IsFiniteSet(CountedFor(r, GamesIn(t))) /\ id \notin CountedFor(r, GamesIn(t))
         /\ Cardinality(CountedFor(r, GamesIn(t))) \in Nat
         /\ Cardinality(CountedFor(r, GamesIn(t)')) =
              Cardinality(CountedFor(r, GamesIn(t))) + (IF r \in {p, q} THEN 1 ELSE 0)
<1>1. PICK old \in GameTables : old = GamesIn(t)
  BY TournamentFields DEF AddsGame
<1>2. PICK new : new = GamesIn(t)'
  OBVIOUS
<1>3. /\ DOMAIN new = DOMAIN old \cup {id} /\ id \notin DOMAIN old /\ new[id] = game
      /\ \A i \in DOMAIN old : new[i] = old[i]
      /\ IsGame(game, p, q)
  BY <1>1, <1>2 DEF AddsGame
<1>4. (\E side \in Sides : game.player[side] = r /\ ~ game.deleted[side]) <=> r \in {p, q}
  BY <1>3 DEF IsGame, Sides
<1>5. CountedFor(r, new) = CountedFor(r, old) \cup (IF r \in {p, q} THEN {id} ELSE {})
  BY <1>3, <1>4 DEF CountedFor
<1>6. CountedFor(r, old) \in SUBSET DOMAIN old /\ IsFiniteSet(DOMAIN old)
  BY TableTimed DEF CountedFor
<1>7. IsFiniteSet(CountedFor(r, old)) /\ id \notin CountedFor(r, old)
  BY <1>3, <1>6, FS_Subset
<1>8. Cardinality(CountedFor(r, old)) \in Nat
  BY <1>7, FS_CardinalityType
<1>9. Cardinality(CountedFor(r, new)) =
        Cardinality(CountedFor(r, old)) + (IF r \in {p, q} THEN 1 ELSE 0)
  <2>1. Cardinality(CountedFor(r, old) \cup {id}) = Cardinality(CountedFor(r, old)) + 1
    BY <1>7, FS_AddElement
  <2>2. CASE r \in {p, q}
    BY <1>5, <2>1, <2>2
  <2>3. CASE r \notin {p, q}
    BY <1>5, <1>8, <2>3
  <2>4. QED
    BY <2>2, <2>3
<1>10. QED
  BY <1>1, <1>2, <1>5, <1>7, <1>8, <1>9

LEMMA CountedAfterRemoval ==
  ASSUME Typed, NEW p, RemovesPlayer(p), NEW t \in Tournaments, NEW r
  PROVE  /\ CountedFor(r, GamesIn(t)') \subseteq CountedFor(r, GamesIn(t))
         /\ Cardinality(CountedFor(r, GamesIn(t)')) <= Cardinality(CountedFor(r, GamesIn(t)))
<1>1. CountedFor(r, GamesIn(t)') \in SUBSET CountedFor(r, GamesIn(t))
  <2>1. ASSUME NEW id \in CountedFor(r, GamesIn(t)')
        PROVE  id \in CountedFor(r, GamesIn(t))
    <3>1. id \in DOMAIN GamesIn(t) /\ GamesIn(t)'[id] = Changed(p, t, id)
      BY <2>1 DEF RemovesPlayer, CountedFor
    <3>2. PICK g, h : g = GamesIn(t)[id] /\ h = Changed(p, t, id)
      OBVIOUS
    <3>3. /\ h.player = g.player
          /\ \A side \in Sides : ~ h.deleted[side] => ~ g.deleted[side]
      <4>1. IsChanged(p, t, id, g, h)
        BY <3>1, <3>2, ChangedFields
      <4>2. QED
        BY <4>1 DEF IsChanged
    <3>4. PICK side \in Sides : h.player[side] = r /\ ~ h.deleted[side]
      BY <2>1, <3>1, <3>2 DEF CountedFor
    <3>5. QED
      BY <3>1, <3>2, <3>3, <3>4 DEF CountedFor
  <2>2. QED
    BY <2>1
<1>2. IsFiniteSet(CountedFor(r, GamesIn(t)))
  <2>1. PICK old \in GameTables : old = GamesIn(t)
    BY TournamentFields
  <2>2. CountedFor(r, old) \in SUBSET DOMAIN old /\ IsFiniteSet(DOMAIN old)
    BY TableTimed DEF CountedFor
  <2>3. QED
    BY <2>1, <2>2, FS_Subset
<1>3. QED
  BY <1>1, <1>2, FS_Subset

(* One tournament's part of QuotaRespected.                                *)
Full(game) == TRUE \notin Range(game.deleted)

AtMost(games, max) ==
  \A p \in PlayerIds : getPlayerNumberOfGames(games, p) <= max

NoRepeats(games) ==
  \A i, j \in DOMAIN games :
    Full(games[i]) /\ Full(games[j]) /\ Range(games[i].player) = Range(games[j].player) => i = j

LEMMA QuotaIs ==
  QuotaRespected <=>
    \A t \in Tournaments : /\ AtMost(GamesIn(t), chess_tournament_table[t].max_games_per_player)
                           /\ NoRepeats(GamesIn(t))
  BY DEF QuotaRespected, AtMost, NoRepeats, Full

LEMMA QuotaIsNext ==
  QuotaRespected' <=>
    \A t \in Tournaments' :
      /\ AtMost(GamesIn(t)', chess_tournament_table'[t].max_games_per_player)
      /\ NoRepeats(GamesIn(t)')
  BY DEF QuotaRespected, AtMost, NoRepeats, Full

LEMMA FullIs ==
  ASSUME NEW g \in GameTypes
  PROVE  /\ Full(g) <=> \A side \in Sides : ~ g.deleted[side]
         /\ Range(g.player) = {g.player["first"], g.player["second"]}
<1>1. g.deleted \in [Sides -> BOOLEAN] /\ g.player \in [Sides -> PlayerIds]
  BY DEF GameTypes, Games
<1>2. QED
  BY <1>1 DEF Full, Range, Sides

LEMMA QuotaOfAdd ==
  ASSUME Typed, QuotaRespected, NEW t, NEW p, NEW q, NEW id, NEW game, AddsGame(t, p, q, id, game)
  PROVE  /\ AtMost(GamesIn(t)', chess_tournament_table'[t].max_games_per_player)
         /\ NoRepeats(GamesIn(t)')
<1>1. PICK max \in Nat : max = chess_tournament_table[t].max_games_per_player
  BY TournamentFields DEF AddsGame
<1>2. /\ t \in Tournaments
      /\ chess_tournament_table'[t].max_games_per_player = max
      /\ AtMost(GamesIn(t), max) /\ NoRepeats(GamesIn(t))
  BY <1>1, QuotaIs DEF AddsGame
<1>3. ASSUME NEW r \in PlayerIds
      PROVE  Cardinality(CountedFor(r, GamesIn(t)')) <= max
  <2>1. PICK n \in Nat : n = Cardinality(CountedFor(r, GamesIn(t)))
    BY CountedAfterAdd
  <2>2. n <= max
    BY <1>2, <2>1 DEF AtMost, getPlayerNumberOfGames
  <2>3. r \in {p, q} => ~ (n >= max)
    BY <1>1, <2>1 DEF AddsGame, exceeded, getPlayerNumberOfGames, GamesIn
  <2>4. Cardinality(CountedFor(r, GamesIn(t)')) = n + (IF r \in {p, q} THEN 1 ELSE 0)
    BY <2>1, CountedAfterAdd
  <2>5. QED
    BY <2>2, <2>3, <2>4
<1>4. NoRepeats(GamesIn(t)')
  <2>1. PICK old, new : old = GamesIn(t) /\ new = GamesIn(t)' /\ old \in GameTables
    BY <1>2, TournamentFields
  <2>2. /\ DOMAIN new = DOMAIN old \cup {id} /\ id \notin DOMAIN old /\ new[id] = game
        /\ \A i \in DOMAIN old : new[i] = old[i]
        /\ IsGame(game, p, q) /\ ~ checkAlreadyExistGame(old, p, q)
    BY <2>1 DEF AddsGame
  <2>3. Range(game.player) = {p, q}
    BY <2>2, FullIs DEF IsGame
  <2>4. \A i \in DOMAIN old : Full(old[i]) => Range(old[i].player) # {p, q}
    BY <2>2 DEF checkAlreadyExistGame, Full
  <2>5. NoRepeats(new)
    BY <1>2, <2>1, <2>2, <2>3, <2>4 DEF NoRepeats
  <2>6. QED
    BY <2>1, <2>5
<1>5. QED
  BY <1>2, <1>3, <1>4 DEF AtMost, getPlayerNumberOfGames

LEMMA QuotaNext ==
  ASSUME Typed, QuotaRespected, Effect
  PROVE  QuotaRespected'
<1>0. \A t \in Tournaments : /\ AtMost(GamesIn(t), chess_tournament_table[t].max_games_per_player)
                             /\ NoRepeats(GamesIn(t))
  BY QuotaIs
<1> SUFFICES ASSUME NEW u \in Tournaments'
             PROVE  /\ AtMost(GamesIn(u)', chess_tournament_table'[u].max_games_per_player)
                    /\ NoRepeats(GamesIn(u)')
  BY QuotaIsNext
<1>1. CASE \E t, max_games : AddsTournament(t, max_games)
  <2>1. PICK t, max_games : AddsTournament(t, max_games)
    BY <1>1
  <2>2. CASE u # t
    BY <1>0, <2>1, <2>2 DEF AddsTournament
  <2>3. CASE u = t
    <3>1. PICK new : new = GamesIn(u)'
      OBVIOUS
    <3>2. DOMAIN new = {}
      BY <2>1, <2>3, <3>1 DEF AddsTournament
    <3>3. \A p : getPlayerNumberOfGames(new, p) = 0
      <4>1. \A p : CountedFor(p, new) = {}
        BY <3>2 DEF CountedFor
      <4>2. QED
        BY <4>1, FS_EmptySet DEF getPlayerNumberOfGames
    <3>4. chess_tournament_table'[u].max_games_per_player \in Nat
      BY <2>1, <2>3, ChessAssumption DEF AddsTournament, TournamentTypes
    <3>5. PICK max \in Nat : max = chess_tournament_table'[u].max_games_per_player
      BY <3>4
    <3>6. AtMost(new, max) /\ NoRepeats(new)
      BY <3>2, <3>3 DEF AtMost, NoRepeats
    <3>7. QED
      BY <3>1, <3>5, <3>6
  <2>4. QED
    BY <2>2, <2>3
<1>2. CASE \E t, p, q, id, game : AddsGame(t, p, q, id, game)
  <2>1. PICK t, p, q, id, game : AddsGame(t, p, q, id, game)
    BY <1>2
  <2>2. CASE u # t
    BY <1>0, <2>1, <2>2 DEF AddsGame
  <2>3. CASE u = t
    BY <2>1, <2>3, QuotaOfAdd
  <2>4. QED
    BY <2>2, <2>3
<1>3. CASE \E t : RemovesTournament(t)
  BY <1>0, <1>3 DEF RemovesTournament
<1>4. CASE \E t : EndsTournament(t)
  <2>1. PICK t : EndsTournament(t)
    BY <1>4
  <2>2. /\ u \in Tournaments /\ GamesIn(u)' = GamesIn(u)
        /\ chess_tournament_table'[u].max_games_per_player
             = chess_tournament_table[u].max_games_per_player
    BY <2>1 DEF EndsTournament
  <2>3. QED
    BY <1>0, <2>2
<1>5. CASE \E p : RemovesPlayer(p)
  <2>1. PICK p : RemovesPlayer(p)
    BY <1>5
  <2>2. PICK old, new : old = GamesIn(u) /\ new = GamesIn(u)' /\ old \in GameTables
    BY <2>1, TournamentFields DEF RemovesPlayer
  <2>3. PICK max \in Nat : /\ max = chess_tournament_table[u].max_games_per_player
                           /\ max = chess_tournament_table'[u].max_games_per_player
    BY <2>1, TournamentFields DEF RemovesPlayer
  <2>4. AtMost(old, max) /\ NoRepeats(old) /\ DOMAIN new = DOMAIN old
    BY <1>0, <2>1, <2>2, <2>3 DEF RemovesPlayer
  <2>5. ASSUME NEW r \in PlayerIds
        PROVE  Cardinality(CountedFor(r, new)) <= max
    <3>1. Cardinality(CountedFor(r, new)) <= Cardinality(CountedFor(r, old))
      BY <2>1, <2>2, CountedAfterRemoval DEF RemovesPlayer
    <3>2. /\ IsFiniteSet(CountedFor(r, old)) /\ IsFiniteSet(CountedFor(r, new))
      <4>1. CountedFor(r, old) \in SUBSET DOMAIN old /\ CountedFor(r, new) \in SUBSET DOMAIN old
        BY <2>4 DEF CountedFor
      <4>2. QED
        BY <2>2, <4>1, TableTimed, FS_Subset
    <3>3. Cardinality(CountedFor(r, old)) \in Nat /\ Cardinality(CountedFor(r, new)) \in Nat
      BY <3>2, FS_CardinalityType
    <3>4. Cardinality(CountedFor(r, old)) <= max
      BY <2>4 DEF AtMost, getPlayerNumberOfGames
    <3>5. QED
      BY <3>1, <3>3, <3>4
  <2>6. ASSUME NEW i \in DOMAIN old
        PROVE  /\ Full(new[i]) => Full(old[i])
               /\ Range(new[i].player) = Range(old[i].player)
    <3>1. PICK g, h : g = old[i] /\ h = new[i]
      OBVIOUS
    <3>2. /\ u \in Tournaments /\ i \in DOMAIN GamesIn(u)
          /\ g = GamesIn(u)[i] /\ h = Changed(p, u, i)
      BY <2>1, <2>2, <3>1 DEF RemovesPlayer
    <3>3. /\ g \in GameTypes /\ h \in GameTypes /\ h.player = g.player
          /\ \A side \in Sides : ~ h.deleted[side] => ~ g.deleted[side]
      <4>1. IsChanged(p, u, i, g, h)
        BY <3>2, ChangedFields
      <4>2. QED
        BY <4>1 DEF IsChanged
    <3>4. QED
      BY <3>1, <3>3, FullIs
  <2>7. NoRepeats(new)
    BY <2>4, <2>6 DEF NoRepeats
  <2>8. QED
    BY <2>2, <2>3, <2>5, <2>7 DEF AtMost, getPlayerNumberOfGames
<1>6. CASE SameTables
  BY <1>0, <1>6 DEF SameTables
<1>7. QED
  BY <1>1, <1>2, <1>3, <1>4, <1>5, <1>6 DEF Effect

-----------------------------------------------------------------------------
(* Who is marked as deleted was removed; who plays is listed or was        *)
(* removed; and who was removed and is listed came back.                   *)
Accounted(game, known, gone) ==
  \A side \in Sides : /\ game.deleted[side] => game.player[side] \in gone
                      /\ game.player[side] \in known

History ==
  /\ \A t \in Tournaments : \A id \in DOMAIN GamesIn(t) :
       Accounted(GamesIn(t)[id], Listed \cup removed, removed)
  /\ Listed \cap removed \subseteq returned

(* One game's part of OpponentWins.                                        *)
Fair(game, listed) ==
  \A side \in Sides :
    /\ game.deleted[side] /\ ~ game.deleted[OtherSide(side)] =>
         game.game_result = OtherSide(side)
    /\ ~ game.deleted[side] => game.player[side] \in listed

LEMMA OpponentWinsIs ==
  OpponentWins <=>
    \A t \in Tournaments : chess_tournament_table[t].in_progress =>
      \A id \in DOMAIN GamesIn(t) : Fair(GamesIn(t)[id], Listed)
  BY DEF OpponentWins, Fair, Ended

LEMMA OpponentWinsIsNext ==
  OpponentWins' <=>
    \A t \in Tournaments' : chess_tournament_table'[t].in_progress =>
      \A id \in DOMAIN GamesIn(t)' : Fair(GamesIn(t)'[id], Listed')
  BY DEF OpponentWins, Fair, Ended

LEMMA HistoryIsNext ==
  History' <=>
    /\ \A t \in Tournaments' : \A id \in DOMAIN GamesIn(t)' :
         Accounted(GamesIn(t)'[id], Listed' \cup removed', removed')
    /\ Listed' \cap removed' \subseteq returned'
  BY DEF History, Accounted

LEMMA MorePlayers ==
  ASSUME NEW g, NEW known, NEW gone, NEW listed, NEW known2, NEW listed2,
         known \subseteq known2, listed \subseteq listed2
  PROVE  /\ Accounted(g, known, gone) => Accounted(g, known2, gone)
         /\ Fair(g, listed) => Fair(g, listed2)
  BY DEF Accounted, Fair

LEMMA HistoryNext ==
  ASSUME Typed, History, Effect
  PROVE  History'
<1>0. /\ \A t \in Tournaments : \A id \in DOMAIN GamesIn(t) :
           Accounted(GamesIn(t)[id], Listed \cup removed, removed)
      /\ Listed \cap removed \subseteq returned
  BY DEF History
<1>1. CASE \E t, max_games : AddsTournament(t, max_games)
  <2>1. PICK t, max_games : AddsTournament(t, max_games)
    BY <1>1
  <2>2. Listed' = Listed /\ removed' = removed /\ returned' = returned
    BY <2>1 DEF AddsTournament, Listed
  <2>3. \A u \in Tournaments' : \A id \in DOMAIN GamesIn(u)' :
          Accounted(GamesIn(u)'[id], Listed \cup removed, removed)
    BY <1>0, <2>1 DEF AddsTournament
  <2>4. QED
    BY <1>0, <2>2, <2>3, HistoryIsNext
<1>2. CASE \E t, p, q, id, game : AddsGame(t, p, q, id, game)
  <2>1. PICK t, p, q, id, game : AddsGame(t, p, q, id, game)
    BY <1>2
  <2>2. /\ Listed' = Listed \cup {p, q} /\ removed' = removed
        /\ returned' = returned \cup (removed \cap {p, q})
    BY <2>1 DEF AddsGame
  <2>3. PICK known : known = Listed' \cup removed
    OBVIOUS
  <2>4. Accounted(game, known, removed)
    BY <2>1, <2>2, <2>3 DEF AddsGame, IsGame, Accounted, Sides
  <2>5. \A u \in Tournaments : \A i \in DOMAIN GamesIn(u) :
          Accounted(GamesIn(u)[i], known, removed)
    BY <1>0, <2>2, <2>3, MorePlayers DEF Accounted
  <2>6. ASSUME NEW u \in Tournaments', NEW i \in DOMAIN GamesIn(u)'
        PROVE  Accounted(GamesIn(u)'[i], known, removed)
    <3>1. CASE u = t /\ i = id
      BY <2>1, <2>4, <3>1 DEF AddsGame
    <3>2. CASE u # t \/ i # id
      <4>1. u \in Tournaments /\ i \in DOMAIN GamesIn(u) /\ GamesIn(u)'[i] = GamesIn(u)[i]
        BY <2>1, <3>2 DEF AddsGame
      <4>2. QED
        BY <2>5, <4>1
    <3>3. QED
      BY <3>1, <3>2
  <2>7. Listed' \cap removed' \subseteq returned'
    BY <1>0, <2>2
  <2>8. QED
    BY <2>2, <2>3, <2>6, <2>7, HistoryIsNext
<1>3. CASE \E t : RemovesTournament(t)
  <2>1. PICK t : RemovesTournament(t)
    BY <1>3
  <2>2. \A u \in Tournaments' : u \in Tournaments /\ GamesIn(u)' = GamesIn(u)
    BY <2>1 DEF RemovesTournament
  <2>3. Listed' = Listed /\ removed' = removed /\ returned' = returned
    BY <2>1 DEF RemovesTournament
  <2>4. QED
    BY <1>0, <2>2, <2>3, HistoryIsNext
<1>4. CASE \E t : EndsTournament(t)
  <2>1. PICK t : EndsTournament(t)
    BY <1>4
  <2>2. \A u \in Tournaments' : u \in Tournaments /\ GamesIn(u)' = GamesIn(u)
    BY <2>1 DEF EndsTournament
  <2>3. Listed' = Listed /\ removed' = removed /\ returned' = returned
    BY <2>1 DEF EndsTournament, Listed
  <2>4. QED
    BY <1>0, <2>2, <2>3, HistoryIsNext
<1>5. CASE \E p : RemovesPlayer(p)
  <2>1. PICK p : RemovesPlayer(p)
    BY <1>5
  <2>2. /\ Listed' = Listed \ {p} /\ removed' = removed \cup {p} /\ returned' = returned
        /\ p \in Listed
    BY <2>1 DEF RemovesPlayer
  <2>3. Listed' \cup removed' = Listed \cup removed
    BY <2>2
  <2>4. ASSUME NEW u \in Tournaments', NEW i \in DOMAIN GamesIn(u)'
        PROVE  Accounted(GamesIn(u)'[i], Listed \cup removed, removed')
    <3>1. /\ u \in Tournaments /\ i \in DOMAIN GamesIn(u)
          /\ GamesIn(u)'[i] = Changed(p, u, i)
      BY <2>1 DEF RemovesPlayer
    <3>2. PICK g, h : g = GamesIn(u)[i] /\ h = Changed(p, u, i)
      OBVIOUS
    <3>3. /\ h.player = g.player
          /\ \A side \in Sides : h.deleted[side] => g.deleted[side] \/ g.player[side] = p
      <4>1. IsChanged(p, u, i, g, h)
        BY <3>1, <3>2, ChangedFields
      <4>2. QED
        BY <4>1 DEF IsChanged
    <3>4. Accounted(g, Listed \cup removed, removed)
      BY <1>0, <3>1, <3>2
    <3>5. Accounted(h, Listed \cup removed, removed')
      BY <2>2, <3>3, <3>4 DEF Accounted
    <3>6. QED
      BY <3>1, <3>2, <3>5
  <2>5. Listed' \cap removed' \subseteq returned'
    BY <1>0, <2>2
  <2>6. QED
    BY <2>3, <2>4, <2>5, HistoryIsNext
<1>6. CASE SameTables
  <2>1. \A u \in Tournaments' : u \in Tournaments /\ GamesIn(u)' = GamesIn(u)
    BY <1>6 DEF SameTables
  <2>2. Listed' = Listed /\ removed' = removed /\ returned' = returned
    BY <1>6 DEF SameTables
  <2>3. QED
    BY <1>0, <2>1, <2>2, HistoryIsNext
<1>7. QED
  BY <1>1, <1>2, <1>3, <1>4, <1>5, <1>6 DEF Effect

LEMMA FairAfterRemoval ==
  ASSUME Typed, NEW p, NEW t \in Tournaments, NEW id \in DOMAIN GamesIn(t),
         chess_tournament_table[t].in_progress, Fair(GamesIn(t)[id], Listed)
  PROVE  Fair(Changed(p, t, id), Listed \ {p})
<1>1. PICK g, h : g = GamesIn(t)[id] /\ h = Changed(p, t, id)
  OBVIOUS
<1>a. IsChanged(p, t, id, g, h)
  BY <1>1, ChangedFields
<1>2. /\ g \in GameTypes /\ h \in GameTypes /\ h.player = g.player
      /\ concerns(p, t, id) <=> /\ chess_tournament_table[t].in_progress
                                /\ \E side \in Sides : g.player[side] = p
      /\ ~ concerns(p, t, id) => h = g
      /\ \A side \in Sides :
           h.deleted[side] <=> g.deleted[side] \/ (concerns(p, t, id) /\ g.player[side] = p)
      /\ \A side \in Sides :
           concerns(p, t, id) /\ g.player[side] = p =>
             h.game_result = IF g.player[OtherSide(side)] \in Listed THEN OtherSide(side)
                             ELSE g.game_result
  BY <1>a DEF IsChanged
<1>3. \A side \in Sides : ~ g.deleted[side] => g.player[side] \in Listed
  BY <1>1 DEF Fair
<1>4. CASE ~ \E side \in Sides : g.player[side] = p
  BY <1>1, <1>2, <1>4 DEF Fair
<1>5. CASE \E side \in Sides : g.player[side] = p
  <2>1. PICK side \in Sides : g.player[side] = p
    BY <1>5
  <2>2. PICK o \in Sides : /\ o = OtherSide(side) /\ o # side /\ side = OtherSide(o)
                           /\ \A s \in Sides : s = side \/ s = o
    BY DEF Sides, OtherSide
  <2>3. g.player[o] # p
    BY <1>2, <2>1, <2>2, GameFields DEF Sides
  <2>4. h.deleted[side] /\ (h.deleted[o] <=> g.deleted[o])
    BY <1>2, <2>1, <2>2, <2>3
  <2>5. ~ h.deleted[o] => h.player[o] \in Listed \ {p} /\ h.game_result = o
    BY <1>2, <1>3, <2>1, <2>2, <2>3, <2>4
  <2>6. Fair(h, Listed \ {p})
    BY <2>2, <2>4, <2>5 DEF Fair
  <2>7. QED
    BY <1>1, <2>6
<1>6. QED
  BY <1>4, <1>5

LEMMA OpponentWinsNext ==
  ASSUME Typed, OpponentWins, Effect
  PROVE  OpponentWins'
<1>0. \A t \in Tournaments : chess_tournament_table[t].in_progress =>
        \A id \in DOMAIN GamesIn(t) : Fair(GamesIn(t)[id], Listed)
  BY OpponentWinsIs
<1> SUFFICES ASSUME NEW u \in Tournaments', chess_tournament_table'[u].in_progress,
                    NEW i \in DOMAIN GamesIn(u)'
             PROVE  Fair(GamesIn(u)'[i], Listed')
  BY OpponentWinsIsNext
<1>1. CASE \E t, max_games : AddsTournament(t, max_games)
  <2>1. PICK t, max_games : AddsTournament(t, max_games)
    BY <1>1
  <2>2. /\ u \in Tournaments /\ chess_tournament_table'[u] = chess_tournament_table[u]
        /\ GamesIn(u)' = GamesIn(u)
    BY <2>1 DEF AddsTournament
  <2>3. Listed' = Listed
    BY <2>1 DEF AddsTournament, Listed
  <2>4. QED
    BY <1>0, <2>2, <2>3
<1>2. CASE \E t, p, q, id, game : AddsGame(t, p, q, id, game)
  <2>1. PICK t, p, q, id, game : AddsGame(t, p, q, id, game)
    BY <1>2
  <2>2. Listed' = Listed \cup {p, q}
    BY <2>1 DEF AddsGame
  <2>3. CASE u = t /\ i = id
    <3>1. GamesIn(u)'[i] = game /\ IsGame(game, p, q)
      BY <2>1, <2>3 DEF AddsGame
    <3>2. Fair(game, Listed')
      BY <2>2, <3>1 DEF Fair, IsGame, Sides
    <3>3. QED
      BY <3>1, <3>2
  <2>4. CASE u # t \/ i # id
    <3>1. u \in Tournaments /\ i \in DOMAIN GamesIn(u) /\ GamesIn(u)'[i] = GamesIn(u)[i]
      BY <2>1, <2>4 DEF AddsGame
    <3>2. chess_tournament_table[u].in_progress
      BY <2>1 DEF AddsGame
    <3>3. Fair(GamesIn(u)[i], Listed)
      BY <1>0, <3>1, <3>2
    <3>4. QED
      BY <2>2, <3>1, <3>3 DEF Fair
  <2>5. QED
    BY <2>3, <2>4
<1>3. CASE \E t : RemovesTournament(t)
  BY <1>0, <1>3 DEF RemovesTournament
<1>4. CASE \E t : EndsTournament(t)
  <2>1. PICK t : EndsTournament(t)
    BY <1>4
  <2>2. u # t /\ u \in Tournaments
    BY <2>1 DEF EndsTournament
  <2>3. /\ chess_tournament_table'[u] = chess_tournament_table[u]
        /\ GamesIn(u)' = GamesIn(u)
    BY <2>1, <2>2 DEF EndsTournament
  <2>4. Listed' = Listed
    BY <2>1 DEF EndsTournament, Listed
  <2>5. QED
    BY <1>0, <2>2, <2>3, <2>4
<1>5. CASE \E p : RemovesPlayer(p)
  <2>1. PICK p : RemovesPlayer(p)
    BY <1>5
  <2>2. /\ u \in Tournaments /\ chess_tournament_table[u].in_progress
        /\ i \in DOMAIN GamesIn(u) /\ GamesIn(u)'[i] = Changed(p, u, i)
        /\ Listed' = Listed \ {p}
    BY <2>1 DEF RemovesPlayer
  <2>3. QED
    BY <1>0, <2>2, FairAfterRemoval
<1>6. CASE SameTables
  BY <1>0, <1>6 DEF SameTables
<1>7. QED
  BY <1>1, <1>2, <1>3, <1>4, <1>5, <1>6 DEF Effect

-----------------------------------------------------------------------------
(* Everyone who plays in a collection of games.                            *)
Players(games) == UNION {Range(games[id].player) : id \in DOMAIN games}

LEMMA PlayersProperties ==
  ASSUME NEW games \in GameTables
  PROVE  /\ \A r : r \in Players(games) <=>
                     \E id \in DOMAIN games, side \in Sides : games[id].player[side] = r
         /\ IsFiniteSet(Players(games))
<1> DEFINE X == (DOMAIN games) \X Sides
           f == [x \in X |-> games[x[1]].player[x[2]]]
<1>1. \A id \in DOMAIN games : games[id].player \in [Sides -> PlayerIds]
  BY TableFields DEF GameTypes, Games
<1>2. \A id \in DOMAIN games :
        Range(games[id].player) = {games[id].player[side] : side \in Sides}
  BY <1>1 DEF Range
<1>3. \A r : r \in Players(games) <=>
               \E id \in DOMAIN games, side \in Sides : games[id].player[side] = r
  <2>1. \A r : r \in Players(games) <=> \E id \in DOMAIN games : r \in Range(games[id].player)
    BY DEF Players
  <2>2. \A id \in DOMAIN games : \A r :
          r \in Range(games[id].player) <=> \E side \in Sides : games[id].player[side] = r
    BY <1>2
  <2>3. QED
    BY <2>1, <2>2
<1>4. IsFiniteSet(X)
  <2>1. IsFiniteSet({"first"})
    BY FS_Singleton
  <2>2. IsFiniteSet({"first"} \cup {"second"})
    BY <2>1, FS_AddElement
  <2>3. Sides = {"first"} \cup {"second"}
    BY DEF Sides
  <2>4. IsFiniteSet(DOMAIN games)
    BY TableTimed
  <2>5. QED
    BY <2>2, <2>3, <2>4, FS_Product
<1>5. f \in Surjection(X, Players(games))
  <2>1. \A x \in X : f[x] \in Players(games)
    BY <1>3
  <2>2. ASSUME NEW r \in Players(games)
        PROVE  \E x \in X : f[x] = r
    <3>1. PICK id \in DOMAIN games, side \in Sides : games[id].player[side] = r
      BY <1>3
    <3>2. <<id, side>> \in X /\ f[<<id, side>>] = r
      BY <3>1
    <3>3. QED
      BY <3>2
  <2>3. QED
    BY <2>1, <2>2 DEF Surjection
<1>6. IsFiniteSet(Players(games))
  BY <1>4, <1>5, FS_Surjection
<1>7. QED
  BY <1>3, <1>6

LEMMA PlayersCountedIs ==
  PlayersCounted <=>
    \A t \in Tournaments :
      Players(GamesIn(t)) \cap returned = {} =>
        chess_tournament_table[t].number_of_players = Cardinality(Players(GamesIn(t)))
  BY DEF PlayersCounted, Players

LEMMA PlayersCountedIsNext ==
  PlayersCounted' <=>
    \A t \in Tournaments' :
      Players(GamesIn(t)') \cap returned' = {} =>
        chess_tournament_table'[t].number_of_players = Cardinality(Players(GamesIn(t)'))
  BY DEF PlayersCounted, Players

(* chessSystem.c:421-431: a new game counts those who play their first.    *)
LEMMA NewPlayersAreNew ==
  ASSUME Typed, History, NEW t, NEW p, NEW q, NEW id, NEW game, AddsGame(t, p, q, id, game),
         p \notin removed, q \notin removed
  PROVE  /\ Players(GamesIn(t)') = Players(GamesIn(t)) \cup {p, q}
         /\ newPlayers(GamesIn(t)', p, q) = Cardinality({p, q} \ Players(GamesIn(t)))
<1>1. PICK old, new : old = GamesIn(t) /\ new = GamesIn(t)' /\ old \in GameTables
  BY TournamentFields DEF AddsGame
<1>2. /\ DOMAIN new = DOMAIN old \cup {id} /\ id \notin DOMAIN old /\ new[id] = game
      /\ \A i \in DOMAIN old : new[i] = old[i]
      /\ IsGame(game, p, q)
  BY <1>1 DEF AddsGame
<1>3. Players(new) = Players(old) \cup {p, q}
  <2>1. Range(game.player) = {p, q}
    BY <1>2, FullIs DEF IsGame
  <2>2. QED
    BY <1>2, <2>1 DEF Players
<1>4. ASSUME NEW r \in {p, q}
      PROVE  getPlayerNumberOfGames(new, r) = 1 <=> r \notin Players(old)
  <2>1. \A i \in DOMAIN old, side \in Sides : old[i].player[side] = r => ~ old[i].deleted[side]
    BY <1>1 DEF AddsGame, History, Accounted
  <2>2. CountedFor(r, old) = {} <=> r \notin Players(old)
    BY <1>1, <2>1, PlayersProperties DEF CountedFor
  <2>3. PICK c : c = CountedFor(r, old)
    OBVIOUS
  <2>4. /\ IsFiniteSet(c) /\ Cardinality(c) \in Nat
        /\ Cardinality(CountedFor(r, new)) = Cardinality(c) + 1
    BY <1>1, <2>3, CountedAfterAdd
  <2>5. Cardinality(c) = 0 <=> c = {}
    BY <2>4, FS_EmptySet
  <2>6. QED
    BY <2>2, <2>3, <2>4, <2>5 DEF getPlayerNumberOfGames
<1>5. {player \in {p, q} : getPlayerNumberOfGames(new, player) = 1} = {p, q} \ Players(old)
  BY <1>4
<1>6. QED
  BY <1>1, <1>3, <1>5 DEF newPlayers

LEMMA PlayersCountedNext ==
  ASSUME Typed, History, PlayersCounted, Effect
  PROVE  PlayersCounted'
<1>0. \A t \in Tournaments :
        Players(GamesIn(t)) \cap returned = {} =>
          chess_tournament_table[t].number_of_players = Cardinality(Players(GamesIn(t)))
  BY PlayersCountedIs
<1> SUFFICES ASSUME NEW u \in Tournaments', Players(GamesIn(u)') \cap returned' = {}
             PROVE  chess_tournament_table'[u].number_of_players
                      = Cardinality(Players(GamesIn(u)'))
  BY PlayersCountedIsNext
<1>1. CASE \E t, max_games : AddsTournament(t, max_games)
  <2>1. PICK t, max_games : AddsTournament(t, max_games)
    BY <1>1
  <2>2. CASE u # t
    BY <1>0, <2>1, <2>2 DEF AddsTournament
  <2>3. CASE u = t
    <3>1. PICK new : new = GamesIn(u)' /\ DOMAIN new = {}
      BY <2>1, <2>3 DEF AddsTournament
    <3>2. Players(new) = {}
      BY <3>1 DEF Players
    <3>3. QED
      BY <2>1, <2>3, <3>1, <3>2, FS_EmptySet DEF AddsTournament
  <2>4. QED
    BY <2>2, <2>3
<1>2. CASE \E t, p, q, id, game : AddsGame(t, p, q, id, game)
  <2>1. PICK t, p, q, id, game : AddsGame(t, p, q, id, game)
    BY <1>2
  <2>2. returned' = returned \cup (removed \cap {p, q})
    BY <2>1 DEF AddsGame
  <2>3. CASE u # t
    BY <1>0, <2>1, <2>2, <2>3 DEF AddsGame
  <2>4. CASE u = t
    <3>1. PICK old, new : old = GamesIn(t) /\ new = GamesIn(t)' /\ old \in GameTables
      BY <2>1, TournamentFields DEF AddsGame
    <3>2. p \in Players(new) /\ q \in Players(new)
      <4>1. id \in DOMAIN new /\ new[id] = game /\ Range(game.player) = {p, q}
        BY <2>1, <3>1, FullIs DEF AddsGame, IsGame
      <4>2. QED
        BY <4>1 DEF Players
    <3>3. p \notin removed /\ q \notin removed
      BY <2>2, <2>4, <3>1, <3>2
    <3>4. /\ Players(new) = Players(old) \cup {p, q}
          /\ newPlayers(new, p, q) = Cardinality({p, q} \ Players(old))
      <4>1. /\ Players(GamesIn(t)') = Players(GamesIn(t)) \cup {p, q}
            /\ newPlayers(GamesIn(t)', p, q) = Cardinality({p, q} \ Players(GamesIn(t)))
        BY <2>1, <3>3, NewPlayersAreNew
      <4>2. QED
        BY <3>1, <4>1
    <3>5. chess_tournament_table[t].number_of_players = Cardinality(Players(old))
      <4>1. t \in Tournaments
        BY <2>1 DEF AddsGame
      <4>2. Players(old) \cap returned = {}
        BY <2>2, <2>4, <3>1, <3>4
      <4>3. QED
        BY <1>0, <3>1, <4>1, <4>2
    <3>6. Cardinality(Players(new)) = Cardinality(Players(old)) + Cardinality({p, q} \ Players(old))
      <4>1. PICK a, b : a = Players(old) /\ b = {p, q} \ Players(old)
        OBVIOUS
      <4>2. IsFiniteSet(a)
        BY <3>1, <4>1, PlayersProperties
      <4>3. IsFiniteSet(b)
        <5>1. IsFiniteSet({p} \cup {q})
          BY FS_Singleton, FS_AddElement
        <5>2. b \in SUBSET ({p} \cup {q})
          BY <4>1
        <5>3. QED
          BY <5>1, <5>2, FS_Subset
      <4>4. a \cap b = {} /\ Players(new) = a \cup b
        BY <3>4, <4>1
      <4>5. QED
        BY <4>1, <4>2, <4>3, <4>4, DisjointCardinality
    <3>7. QED
      BY <2>1, <2>4, <3>1, <3>4, <3>5, <3>6 DEF AddsGame
  <2>5. QED
    BY <2>3, <2>4
<1>3. CASE \E t : RemovesTournament(t)
  BY <1>0, <1>3 DEF RemovesTournament
<1>4. CASE \E t : EndsTournament(t)
  <2>1. PICK t : EndsTournament(t)
    BY <1>4
  <2>2. /\ u \in Tournaments /\ GamesIn(u)' = GamesIn(u) /\ returned' = returned
        /\ chess_tournament_table'[u].number_of_players
             = chess_tournament_table[u].number_of_players
    BY <2>1 DEF EndsTournament
  <2>3. QED
    BY <1>0, <2>2
<1>5. CASE \E p : RemovesPlayer(p)
  <2>1. PICK p : RemovesPlayer(p)
    BY <1>5
  <2>2. /\ u \in Tournaments /\ returned' = returned
        /\ chess_tournament_table'[u].number_of_players
             = chess_tournament_table[u].number_of_players
    BY <2>1 DEF RemovesPlayer
  <2>3. PICK old, new : old = GamesIn(u) /\ new = GamesIn(u)'
    OBVIOUS
  <2>4. DOMAIN new = DOMAIN old
    BY <2>1, <2>2, <2>3 DEF RemovesPlayer
  <2>5. \A i \in DOMAIN old : new[i].player = old[i].player
    <3>1. ASSUME NEW i \in DOMAIN old
          PROVE  new[i].player = old[i].player
      <4>1. PICK g, h : g = GamesIn(u)[i] /\ h = Changed(p, u, i)
        OBVIOUS
      <4>2. IsChanged(p, u, i, g, h)
        BY <2>2, <2>3, <4>1, ChangedFields
      <4>3. new[i] = h
        BY <2>1, <2>2, <2>3, <4>1 DEF RemovesPlayer
      <4>4. QED
        BY <2>3, <4>1, <4>2, <4>3 DEF IsChanged
    <3>2. QED
      BY <3>1
  <2>6. Players(new) = Players(old)
    BY <2>4, <2>5 DEF Players
  <2>7. QED
    BY <1>0, <2>2, <2>3, <2>6
<1>6. CASE SameTables
  BY <1>0, <1>6 DEF SameTables
<1>7. QED
  BY <1>1, <1>2, <1>3, <1>4, <1>5, <1>6 DEF Effect

-----------------------------------------------------------------------------
(* Ended tournaments.                                                      *)
LEMMA EndedKept ==
  ASSUME Typed, Effect, NEW u \in Ended, u \in Tournaments'
  PROVE  chess_tournament_table'[u] = chess_tournament_table[u] /\ GamesIn(u)' = GamesIn(u)
<1>0. u \in Tournaments /\ ~ chess_tournament_table[u].in_progress
  BY DEF Ended
<1>1. CASE \E t, max_games : AddsTournament(t, max_games)
  BY <1>0, <1>1 DEF AddsTournament
<1>2. CASE \E t, p, q, id, game : AddsGame(t, p, q, id, game)
  BY <1>0, <1>2 DEF AddsGame
<1>3. CASE \E t : RemovesTournament(t)
  BY <1>3 DEF RemovesTournament
<1>4. CASE \E t : EndsTournament(t)
  BY <1>0, <1>4 DEF EndsTournament
<1>5. CASE \E p : RemovesPlayer(p)
  <2>1. PICK p : RemovesPlayer(p)
    BY <1>5
  <2>2. \A id \in DOMAIN GamesIn(u) : Changed(p, u, id) = GamesIn(u)[id]
    BY <1>0 DEF Changed, concerns
  <2>3. GamesIn(u)' = [id \in DOMAIN GamesIn(u) |-> GamesIn(u)[id]]
    BY <1>0, <2>1, <2>2 DEF RemovesPlayer
  <2>4. GamesIn(u) = [id \in DOMAIN GamesIn(u) |-> GamesIn(u)[id]]
    BY <1>0, TournamentFields, TableFields
  <2>5. GamesIn(u)' = GamesIn(u)
    BY <2>3, <2>4
  <2>6. PICK games \in GameTables :
          chess_tournament_table'[u] = [chess_tournament_table[u] EXCEPT !.games = games]
    BY <1>0, <2>1 DEF RemovesPlayer
  <2>7. chess_tournament_table[u] \in TournamentTypes
    BY <1>0 DEF Typed
  <2>8. games = chess_tournament_table[u].games
    BY <2>5, <2>6, <2>7 DEF GamesIn, TournamentTypes
  <2>9. QED
    BY <2>5, <2>6, <2>7, <2>8 DEF TournamentTypes
<1>6. CASE SameTables
  BY <1>6 DEF SameTables
<1>7. QED
  BY <1>1, <1>2, <1>3, <1>4, <1>5, <1>6 DEF Effect

LEMMA NewlyEnded ==
  ASSUME Effect, NEW u \in Tournaments', ~ chess_tournament_table'[u].in_progress
  PROVE  u \in Ended \/ EndsTournament(u)
<1>1. CASE \E t, max_games : AddsTournament(t, max_games)
  BY <1>1 DEF AddsTournament, Ended
<1>2. CASE \E t, p, q, id, game : AddsGame(t, p, q, id, game)
  BY <1>2 DEF AddsGame, Ended
<1>3. CASE \E t : RemovesTournament(t)
  BY <1>3 DEF RemovesTournament, Ended
<1>4. CASE \E t : EndsTournament(t)
  <2>1. PICK t : EndsTournament(t)
    BY <1>4
  <2>2. CASE u = t
    BY <2>1, <2>2
  <2>3. CASE u # t
    BY <2>1, <2>3 DEF EndsTournament, Ended
  <2>4. QED
    BY <2>2, <2>3
<1>5. CASE \E p : RemovesPlayer(p)
  BY <1>5 DEF RemovesPlayer, Ended
<1>6. CASE SameTables
  BY <1>6 DEF SameTables, Ended
<1>7. QED
  BY <1>1, <1>2, <1>3, <1>4, <1>5, <1>6 DEF Effect

(* Who wins or draws a game that is counted has points.                    *)
LEMMA PointsOfGame ==
  ASSUME NEW games \in GameTables, NEW id \in DOMAIN games, NEW side \in Sides,
         ~ games[id].deleted[side], games[id].game_result \in {"draw", side}
  PROVE  /\ games[id].player[side] \in Counted(games)
         /\ Column(games[id].player[side], games).points > 0
<1>1. PICK r : r = games[id].player[side]
  OBVIOUS
<1>2. PICK mine : mine = CountedFor(r, games)
  OBVIOUS
<1>3. id \in mine /\ mine \in SUBSET DOMAIN games
  BY <1>1, <1>2 DEF CountedFor
<1>4. r \in Counted(games) /\ r \in PlayerIds
  BY <1>2, <1>3, CountedIs
<1>5. PICK part : part = Restrict(games, mine)
  OBVIOUS
<1>6. DOMAIN part = mine /\ part[id] = games[id] /\ IsTimed(part, mine)
  BY <1>2, <1>3, <1>4, <1>5, ColumnType DEF Restrict
<1>7. id \in PlayedBy(r, part)
  BY <1>1, <1>3, <1>6 DEF PlayedBy
<1>8. id \in Drawn(r, part) \/ id \in Won(r, part)
  <2>1. CASE games[id].game_result = "draw"
    BY <1>6, <1>7, <2>1 DEF Drawn
  <2>2. CASE games[id].game_result = side
    <3>1. side # "draw"
      BY DEF Sides
    <3>2. id \notin Drawn(r, part)
      BY <1>6, <2>2, <3>1 DEF Drawn
    <3>3. QED
      BY <1>1, <1>6, <1>7, <2>2, <3>2 DEF Won
  <2>3. QED
    BY <2>1, <2>2
<1>9. PICK w, d : w = Cardinality(Won(r, part)) /\ d = Cardinality(Drawn(r, part))
  OBVIOUS
<1>10. w \in Nat /\ d \in Nat /\ (w # 0 \/ d # 0)
  <2>1. Won(r, part) \in SUBSET mine /\ Drawn(r, part) \in SUBSET mine
    BY <1>6 DEF Won, Drawn, PlayedBy
  <2>2. IsFiniteSet(Won(r, part)) /\ IsFiniteSet(Drawn(r, part))
    BY <1>6, <2>1, FS_Subset DEF IsTimed
  <2>3. QED
    BY <1>8, <1>9, <2>2, FS_CardinalityType, FS_EmptySet
<1>11. Column(r, games).points = 2 * w + d
  <2>1. PICK t : t = Tally(r, part)
    OBVIOUS
  <2>2. t.wins = w /\ t.draws = d
    BY <1>9, <2>1, TallyIs
  <2>3. Column(r, games).points = 2 * t.wins + t.draws
    BY <1>2, <1>5, <2>1 DEF Column
  <2>4. QED
    BY <2>2, <2>3
<1>12. QED
  BY <1>1, <1>4, <1>10, <1>11

IsWinner(winner, games) ==
  /\ winner \in Counted(games) \cup {0}
  /\ \A p \in Counted(games) :
       /\ winner # 0
       /\ \/ Column(winner, games).points > Column(p, games).points
          \/ /\ Column(winner, games).points = Column(p, games).points
             /\ Column(winner, games).loses <= Column(p, games).loses

LEMMA WinnerIsBestIs ==
  WinnerIsBest <=>
    \A t \in Ended : IsWinner(chess_tournament_table[t].winner_id, GamesIn(t))
  BY DEF WinnerIsBest, IsWinner

LEMMA WinnerIsBestIsNext ==
  WinnerIsBest' <=>
    \A t \in Tournaments' : ~ chess_tournament_table'[t].in_progress =>
      IsWinner(chess_tournament_table'[t].winner_id, GamesIn(t)')
  BY DEF WinnerIsBest, IsWinner, Ended

LEMMA WinnerAtEnd ==
  ASSUME Typed, OpponentWins, NEW t, EndsTournament(t)
  PROVE  IsWinner(checkWinner(Histogram(GamesIn(t))), GamesIn(t))
<1>1. PICK games \in GameTables : games = GamesIn(t)
  BY TournamentFields DEF EndsTournament
<1>2. DOMAIN games # {}
  BY <1>1 DEF EndsTournament
<1>3. PICK w : w = checkWinner(Histogram(games))
  OBVIOUS
<1>4. /\ w \in Counted(games) \cup {0}
      /\ (\E p \in Counted(games) : Column(p, games).points > 0) =>
           /\ w \in Counted(games) /\ w # 0
           /\ \A p \in Counted(games) :
                \/ Column(w, games).points > Column(p, games).points
                \/ /\ Column(w, games).points = Column(p, games).points
                   /\ Column(w, games).loses <= Column(p, games).loses
  BY <1>2, <1>3, WinnerProperties
<1>5. ASSUME NEW q \in Counted(games)
      PROVE  \E p \in Counted(games) : Column(p, games).points > 0
  <2>1. PICK id \in DOMAIN games, side \in Sides :
          games[id].player[side] = q /\ ~ games[id].deleted[side]
    BY DEF Counted
  <2>2. PICK g : g = games[id]
    OBVIOUS
  <2>3. Fair(g, Listed) /\ g \in GameTypes
    BY <1>1, <2>2, OpponentWinsIs, TableFields DEF EndsTournament
  <2>4. PICK o \in Sides : o = OtherSide(side) /\ side = OtherSide(o) /\ Sides = {side, o}
    BY DEF Sides, OtherSide
  <2>5. CASE g.deleted[o]
    <3>1. g.game_result = side
      BY <2>1, <2>2, <2>3, <2>4, <2>5 DEF Fair
    <3>2. QED
      BY <2>1, <2>2, <3>1, PointsOfGame
  <2>6. CASE ~ g.deleted[o]
    <3>1. g.game_result \in {"draw", side} \/ g.game_result \in {"draw", o}
      BY <2>3, <2>4, GameFields
    <3>2. QED
      BY <2>1, <2>2, <2>6, <3>1, PointsOfGame
  <2>7. QED
    BY <2>5, <2>6
<1>6. IsWinner(w, games)
  BY <1>4, <1>5 DEF IsWinner
<1>7. QED
  BY <1>1, <1>3, <1>6

LEMMA WinnerIsBestNext ==
  ASSUME Typed, OpponentWins, WinnerIsBest, Effect
  PROVE  WinnerIsBest'
<1> SUFFICES ASSUME NEW u \in Tournaments', ~ chess_tournament_table'[u].in_progress
             PROVE  IsWinner(chess_tournament_table'[u].winner_id, GamesIn(u)')
  BY WinnerIsBestIsNext
<1>1. CASE u \in Ended
  <2>1. chess_tournament_table'[u] = chess_tournament_table[u] /\ GamesIn(u)' = GamesIn(u)
    BY <1>1, EndedKept
  <2>2. QED
    BY <1>1, <2>1, WinnerIsBestIs
<1>2. CASE EndsTournament(u)
  <2>1. /\ chess_tournament_table'[u].winner_id = checkWinner(Histogram(GamesIn(u)))
        /\ GamesIn(u)' = GamesIn(u)
    BY <1>2 DEF EndsTournament
  <2>2. QED
    BY <1>2, <2>1, WinnerAtEnd
<1>3. QED
  BY <1>1, <1>2, NewlyEnded

-----------------------------------------------------------------------------
(* The records of the players and the games that exist.                    *)
LEMMA AllGamesIsNext ==
  /\ \A x \in DOMAIN AllGames' : /\ x = <<x[1], x[2]>>
                                 /\ x[1] \in Tournaments' /\ x[2] \in DOMAIN GamesIn(x[1])'
                                 /\ AllGames'[x] = GamesIn(x[1])'[x[2]]
  /\ \A t \in Tournaments' : \A id \in DOMAIN GamesIn(t)' :
       <<t, id>> \in DOMAIN AllGames' /\ AllGames'[<<t, id>>] = GamesIn(t)'[id]
<1> DEFINE D == UNION {{t} \X DOMAIN GamesIn(t)' : t \in Tournaments'}
<1>1. DOMAIN AllGames' = D /\ \A x \in D : AllGames'[x] = GamesIn(x[1])'[x[2]]
  BY DEF AllGames
<1>2. \A x \in D : x = <<x[1], x[2]>> /\ x[1] \in Tournaments' /\ x[2] \in DOMAIN GamesIn(x[1])'
  OBVIOUS
<1>3. \A t \in Tournaments' : \A id \in DOMAIN GamesIn(t)' : <<t, id>> \in D
  OBVIOUS
<1>4. QED
  BY <1>1, <1>2, <1>3

LEMMA AllGamesTimed == Typed /\ GameIdsUnique => IsTimed(AllGames, DOMAIN AllGames)
  BY AllGamesCount

LEMMA AllGamesTimedNext == Typed' /\ GameIdsUnique' => IsTimed(AllGames', DOMAIN AllGames')
<1>1. Typed' /\ GameIdsUnique' => IsTimed(AllGames, DOMAIN AllGames)'
  BY AllGamesTimed, PTL
<1>2. QED
  BY <1>1

LEMMA RecordsAre ==
  RecordsMatchGames <=> \A r \in Listed \ returned : players_list[r] = Tally(r, AllGames)
  BY DEF RecordsMatchGames

LEMMA RecordsAreNext ==
  RecordsMatchGames' <=>
    \A r \in Listed' \ returned' : players_list'[r] = Tally(r, AllGames')
  BY DEF RecordsMatchGames

LEMMA RecordsSame ==
  ASSUME Typed, GameIdsUnique, RecordsMatchGames,
         Tournaments \subseteq Tournaments',
         \A t \in Tournaments : GamesIn(t)' = GamesIn(t),
         \A t \in Tournaments' \ Tournaments : DOMAIN GamesIn(t)' = {},
         UNCHANGED <<players_list, returned>>
  PROVE  RecordsMatchGames'
<1>1. PICK old, new : old = AllGames /\ new = AllGames'
  OBVIOUS
<1>2. DOMAIN new = DOMAIN old
  <2>1. \A x \in DOMAIN old : x \in DOMAIN new
    <3>1. ASSUME NEW x \in DOMAIN old
          PROVE  x \in DOMAIN new
      <4>1. x = <<x[1], x[2]>> /\ x[1] \in Tournaments /\ x[2] \in DOMAIN GamesIn(x[1])
        BY <1>1, AllGamesIs
      <4>2. x[1] \in Tournaments' /\ x[2] \in DOMAIN GamesIn(x[1])'
        BY <4>1
      <4>3. <<x[1], x[2]>> \in DOMAIN new
        BY <1>1, <4>2, AllGamesIsNext
      <4>4. QED
        BY <4>1, <4>3
    <3>2. QED
      BY <3>1
  <2>2. \A x \in DOMAIN new : x \in DOMAIN old
    <3>1. ASSUME NEW x \in DOMAIN new
          PROVE  x \in DOMAIN old
      <4>1. x = <<x[1], x[2]>> /\ x[1] \in Tournaments' /\ x[2] \in DOMAIN GamesIn(x[1])'
        BY <1>1, AllGamesIsNext
      <4>2. x[1] \in Tournaments
        BY <4>1
      <4>3. x[2] \in DOMAIN GamesIn(x[1])
        BY <4>1, <4>2
      <4>4. <<x[1], x[2]>> \in DOMAIN old
        BY <1>1, <4>2, <4>3, AllGamesIs
      <4>5. QED
        BY <4>1, <4>4
    <3>2. QED
      BY <3>1
  <2>3. QED
    BY <2>1, <2>2
<1>3. \A x \in DOMAIN old : new[x] = old[x]
  <2>1. ASSUME NEW x \in DOMAIN old
        PROVE  new[x] = old[x]
    <3>1. x[1] \in Tournaments /\ old[x] = GamesIn(x[1])[x[2]]
      BY <1>1, AllGamesIs
    <3>2. new[x] = GamesIn(x[1])'[x[2]]
      BY <1>1, <1>2, AllGamesIsNext
    <3>3. QED
      BY <3>1, <3>2
  <2>2. QED
    BY <2>1
<1>4. IsTimed(old, DOMAIN old)
  BY <1>1, AllGamesTimed
<1>5. \A r : Tally(r, new) = Tally(r, old)
  BY <1>2, <1>3, <1>4, TallyOfSame
<1>6. Listed' = Listed
  BY DEF Listed
<1>7. QED
  BY <1>1, <1>5, <1>6, RecordsAre, RecordsAreNext

LEMMA RecordsAfterAdd ==
  ASSUME Typed, GameIdsUnique, History, RecordsMatchGames, Typed', GameIdsUnique',
         NEW t, NEW p, NEW q, NEW id, NEW game, AddsGame(t, p, q, id, game)
  PROVE  RecordsMatchGames'
<1>1. PICK old, new : old = AllGames /\ new = AllGames'
  OBVIOUS
<1>2. PICK key : key = <<t, id>>
  OBVIOUS
<1>3. /\ t \in Tournaments /\ Tournaments' = Tournaments
      /\ DOMAIN GamesIn(t)' = DOMAIN GamesIn(t) \cup {id} /\ id \notin DOMAIN GamesIn(t)
      /\ GamesIn(t)'[id] = game
      /\ \A i \in DOMAIN GamesIn(t) : GamesIn(t)'[i] = GamesIn(t)[i]
      /\ \A u \in Tournaments : u # t => GamesIn(u)' = GamesIn(u)
  BY DEF AddsGame
<1>4. key \in DOMAIN new /\ new[key] = game /\ key \notin DOMAIN old
  <2>1. key \in DOMAIN new /\ new[key] = game
    BY <1>1, <1>2, <1>3, AllGamesIsNext
  <2>2. key[1] = t /\ key[2] = id
    BY <1>2
  <2>3. key \notin DOMAIN old
    BY <1>1, <1>3, <2>2, AllGamesIs
  <2>4. QED
    BY <2>1, <2>3
<1>5. ASSUME NEW x \in DOMAIN old
      PROVE  x \in DOMAIN new /\ new[x] = old[x]
  <2>1. /\ x = <<x[1], x[2]>> /\ x[1] \in Tournaments /\ x[2] \in DOMAIN GamesIn(x[1])
        /\ old[x] = GamesIn(x[1])[x[2]]
    BY <1>1, AllGamesIs
  <2>2. x[2] \in DOMAIN GamesIn(x[1])' /\ GamesIn(x[1])'[x[2]] = GamesIn(x[1])[x[2]]
    BY <1>3, <2>1
  <2>3. <<x[1], x[2]>> \in DOMAIN new /\ new[<<x[1], x[2]>>] = GamesIn(x[1])'[x[2]]
    BY <1>1, <1>3, <2>1, <2>2, AllGamesIsNext
  <2>4. QED
    BY <2>1, <2>2, <2>3
<1>6. ASSUME NEW x \in DOMAIN new, x # key
      PROVE  x \in DOMAIN old
  <2>1. x = <<x[1], x[2]>> /\ x[1] \in Tournaments /\ x[2] \in DOMAIN GamesIn(x[1])'
    BY <1>1, <1>3, AllGamesIsNext
  <2>2. x[1] # t \/ x[2] # id
    BY <1>2, <1>6, <2>1
  <2>3. x[2] \in DOMAIN GamesIn(x[1])
    BY <1>3, <2>1, <2>2
  <2>4. <<x[1], x[2]>> \in DOMAIN old
    BY <1>1, <2>1, <2>3, AllGamesIs
  <2>5. QED
    BY <2>1, <2>4
<1>7. DOMAIN new = DOMAIN old \cup {key} /\ DOMAIN old \cap {key} = {}
  BY <1>4, <1>5, <1>6
<1>8. IsTimed(old, DOMAIN old) /\ IsTimed(new, DOMAIN new)
  BY <1>1, AllGamesTimed, AllGamesTimedNext
<1>9. PICK one : one = <<game>>
  OBVIOUS
<1>10. DOMAIN one = {1} /\ one[1] = game
  BY <1>9
<1>11. IsPart(one, [x \in {1} |-> key], {key}, new)
  <2>1. IsFiniteSet({1}) /\ game.game_time \in Int
    BY <1>4, <1>8, FS_Singleton DEF IsTimed
  <2>2. QED
    BY <1>4, <1>10, <2>1 DEF IsPart, IsTimed, Renames, Image
<1>12. IsPart(old, [x \in DOMAIN old |-> x], DOMAIN old, new)
  BY <1>5, <1>7, <1>8, PartOfItself
<1>13. ASSUME NEW r
       PROVE  Tally(r, new) = Plus(Tally(r, old), Tally(r, one))
  BY <1>7, <1>8, <1>11, <1>12, TallyOfParts
<1>14. ASSUME NEW r \in Listed' \ returned'
       PROVE  players_list'[r] = Tally(r, new)
  <2>1. /\ Listed' = Listed \cup {p, q}
        /\ returned' = returned \cup (removed \cap {p, q})
        /\ players_list'[r] = Plus(IF r \in Listed THEN players_list[r] ELSE NoRecord,
                                   Tally(r, one))
    BY <1>9 DEF AddsGame
  <2>2. CASE r \in Listed
    <3>1. players_list[r] = Tally(r, old)
      BY <1>1, <1>14, <2>1, <2>2, RecordsAre
    <3>2. QED
      BY <1>13, <2>1, <2>2, <3>1
  <2>3. CASE r \notin Listed
    <3>1. r \notin Listed \cup removed
      BY <1>14, <2>1, <2>3
    <3>2. PlayedBy(r, old) = {}
      <4>1. \A x \in DOMAIN old, side \in Sides : old[x].player[side] \in Listed \cup removed
        BY <1>1, AllGamesIs DEF History, Accounted
      <4>2. QED
        BY <3>1, <4>1 DEF PlayedBy
    <3>3. Tally(r, old) = NoRecord
      BY <3>2, TallyOfNone
    <3>4. QED
      BY <1>13, <2>1, <2>3, <3>3
  <2>4. QED
    BY <2>2, <2>3
<1>15. QED
  BY <1>1, <1>14, RecordsAreNext

LEMMA RecordsAfterRemoval ==
  ASSUME Typed, GameIdsUnique, RecordsMatchGames, Typed', GameIdsUnique',
         NEW t, RemovesTournament(t)
  PROVE  RecordsMatchGames'
<1>1. PICK old, new : old = AllGames /\ new = AllGames'
  OBVIOUS
<1>2. PICK mine : mine = GamesIn(t) /\ mine \in GameTables
  BY TournamentFields DEF RemovesTournament
<1>3. /\ t \in Tournaments /\ Tournaments' = Tournaments \ {t}
      /\ \A u \in Tournaments' : GamesIn(u)' = GamesIn(u)
      /\ Listed' = Listed /\ returned' = returned
      /\ \A p \in Listed : players_list'[p] = Minus(players_list[p], Tally(p, mine))
  BY <1>2 DEF RemovesTournament
<1>4. PICK gone : gone = {<<t, id>> : id \in DOMAIN mine}
  OBVIOUS
<1>5. ASSUME NEW x \in DOMAIN new
      PROVE  x \in DOMAIN old /\ old[x] = new[x] /\ x \notin gone
  <2>1. /\ x = <<x[1], x[2]>> /\ x[1] \in Tournaments' /\ x[2] \in DOMAIN GamesIn(x[1])'
        /\ new[x] = GamesIn(x[1])'[x[2]]
    BY <1>1, AllGamesIsNext
  <2>2. x[1] \in Tournaments /\ x[1] # t /\ GamesIn(x[1])' = GamesIn(x[1])
    BY <1>3, <2>1
  <2>3. <<x[1], x[2]>> \in DOMAIN old /\ old[<<x[1], x[2]>>] = GamesIn(x[1])[x[2]]
    BY <1>1, <2>1, <2>2, AllGamesIs
  <2>4. x \notin gone
    BY <1>4, <2>2
  <2>5. QED
    BY <2>1, <2>2, <2>3, <2>4
<1>6. \A id \in DOMAIN mine : <<t, id>> \in DOMAIN old /\ old[<<t, id>>] = mine[id]
  BY <1>1, <1>2, <1>3, AllGamesIs
<1>7. ASSUME NEW x \in DOMAIN old, x \notin gone
      PROVE  x \in DOMAIN new
  <2>1. x = <<x[1], x[2]>> /\ x[1] \in Tournaments /\ x[2] \in DOMAIN GamesIn(x[1])
    BY <1>1, AllGamesIs
  <2>2. x[1] # t
    BY <1>2, <1>4, <1>7, <2>1
  <2>3. x[1] \in Tournaments' /\ x[2] \in DOMAIN GamesIn(x[1])'
    BY <1>3, <2>1, <2>2
  <2>4. <<x[1], x[2]>> \in DOMAIN new
    BY <1>1, <2>3, AllGamesIsNext
  <2>5. QED
    BY <2>1, <2>4
<1>8. DOMAIN old = DOMAIN new \cup gone /\ DOMAIN new \cap gone = {}
  BY <1>4, <1>5, <1>6, <1>7
<1>9. IsTimed(old, DOMAIN old) /\ IsTimed(new, DOMAIN new) /\ IsTimed(mine, DOMAIN mine)
  BY <1>1, <1>2, AllGamesTimed, AllGamesTimedNext, TableTimed
<1>10. IsPart(new, [x \in DOMAIN new |-> x], DOMAIN new, old)
  BY <1>5, <1>8, <1>9, PartOfItself
<1>11. IsPart(mine, [id \in DOMAIN mine |-> <<t, id>>], gone, old)
  BY <1>4, <1>6, <1>9 DEF IsPart, Renames, Image
<1>12. ASSUME NEW r \in Listed' \ returned'
       PROVE  players_list'[r] = Tally(r, new)
  <2>1. /\ Tally(r, old) = Plus(Tally(r, new), Tally(r, mine))
        /\ Tally(r, new) \in Record /\ Tally(r, mine) \in Record
    BY <1>8, <1>9, <1>10, <1>11, TallyOfParts
  <2>2. PICK x \in Record, y \in Record : x = Tally(r, new) /\ y = Tally(r, mine)
    BY <2>1
  <2>3. players_list[r] = Plus(x, y)
    BY <1>1, <1>3, <1>12, <2>1, <2>2, RecordsAre
  <2>4. players_list'[r] = Minus(Plus(x, y), y)
    BY <1>3, <1>12, <2>2, <2>3
  <2>5. QED
    BY <2>2, <2>4, PlusThenMinus
<1>13. QED
  BY <1>1, <1>12, RecordsAreNext

LEMMA RecordsWithoutPlayer ==
  ASSUME Typed, GameIdsUnique, RecordsMatchGames, Typed', GameIdsUnique',
         NEW p, RemovesPlayer(p)
  PROVE  RecordsMatchGames'
<1>1. PICK old, new : old = AllGames /\ new = AllGames'
  OBVIOUS
<1>2. PICK before, after : before = Before(p) /\ after = After(p)
  OBVIOUS
<1>3. /\ Tournaments' = Tournaments
      /\ \A u \in Tournaments : DOMAIN GamesIn(u)' = DOMAIN GamesIn(u)
      /\ \A u \in Tournaments : \A i \in DOMAIN GamesIn(u) : GamesIn(u)'[i] = Changed(p, u, i)
      /\ Listed' = Listed \ {p} /\ returned' = returned
      /\ \A r \in Listed' :
           players_list'[r] = Plus(Minus(players_list[r], Tally(r, before)), Tally(r, after))
  BY <1>2 DEF RemovesPlayer
<1>4. /\ DOMAIN before = {x \in DOMAIN old : concerns(p, x[1], x[2])}
      /\ DOMAIN after = DOMAIN before
      /\ \A x \in DOMAIN before : before[x] = old[x]
      /\ \A x \in DOMAIN before : after[x] = withoutPlayer(p, old[x])
  BY <1>1, <1>2, BeforeAndAfter
<1>5. ASSUME NEW x \in DOMAIN old
      PROVE  /\ x \in DOMAIN new
             /\ new[x] = IF x \in DOMAIN before THEN after[x] ELSE old[x]
  <2>1. /\ x = <<x[1], x[2]>> /\ x[1] \in Tournaments /\ x[2] \in DOMAIN GamesIn(x[1])
        /\ old[x] = GamesIn(x[1])[x[2]]
    BY <1>1, AllGamesIs
  <2>2. x[1] \in Tournaments' /\ x[2] \in DOMAIN GamesIn(x[1])'
    BY <1>3, <2>1
  <2>3. <<x[1], x[2]>> \in DOMAIN new /\ new[<<x[1], x[2]>>] = GamesIn(x[1])'[x[2]]
    BY <1>1, <2>2, AllGamesIsNext
  <2>4. new[x] = Changed(p, x[1], x[2])
    BY <1>3, <2>1, <2>3
  <2>5. x \in DOMAIN before <=> concerns(p, x[1], x[2])
    BY <1>4
  <2>6. new[x] = IF x \in DOMAIN before THEN after[x] ELSE old[x]
    BY <1>4, <2>1, <2>4, <2>5 DEF Changed
  <2>7. QED
    BY <2>1, <2>3, <2>6
<1>6. ASSUME NEW x \in DOMAIN new
      PROVE  x \in DOMAIN old
  <2>1. x = <<x[1], x[2]>> /\ x[1] \in Tournaments' /\ x[2] \in DOMAIN GamesIn(x[1])'
    BY <1>1, AllGamesIsNext
  <2>2. x[1] \in Tournaments /\ x[2] \in DOMAIN GamesIn(x[1])
    BY <1>3, <2>1
  <2>3. <<x[1], x[2]>> \in DOMAIN old
    BY <1>1, <2>2, AllGamesIs
  <2>4. QED
    BY <2>1, <2>3
<1>7. PICK rest : rest = Restrict(old, DOMAIN old \ DOMAIN before)
  OBVIOUS
<1>8. /\ DOMAIN rest = DOMAIN old \ DOMAIN before
      /\ \A x \in DOMAIN rest : rest[x] = old[x]
  BY <1>7 DEF Restrict
<1>9. /\ DOMAIN old = DOMAIN rest \cup DOMAIN before
      /\ DOMAIN new = DOMAIN rest \cup DOMAIN after
      /\ DOMAIN rest \cap DOMAIN before = {} /\ DOMAIN rest \cap DOMAIN after = {}
      /\ \A x \in DOMAIN rest : new[x] = rest[x]
      /\ \A x \in DOMAIN after : new[x] = after[x]
      /\ DOMAIN rest \subseteq DOMAIN old /\ DOMAIN before \subseteq DOMAIN old
      /\ DOMAIN rest \subseteq DOMAIN new /\ DOMAIN after \subseteq DOMAIN new
  BY <1>4, <1>5, <1>6, <1>8
<1>10. /\ IsTimed(old, DOMAIN old) /\ IsTimed(new, DOMAIN new)
       /\ IsTimed(before, DOMAIN before) /\ IsTimed(after, DOMAIN after)
  BY <1>1, <1>2, AllGamesTimed, AllGamesTimedNext, ChangedTimed
<1>11. IsTimed(rest, DOMAIN rest)
  <2>1. IsTimed(old, DOMAIN rest)
    BY <1>9, <1>10, TimedPart
  <2>2. QED
    BY <1>8, <2>1 DEF IsTimed
<1>12. /\ IsPart(rest, [x \in DOMAIN rest |-> x], DOMAIN rest, old)
       /\ IsPart(before, [x \in DOMAIN before |-> x], DOMAIN before, old)
  BY <1>4, <1>8, <1>9, <1>10, <1>11, PartOfItself
<1>13. /\ IsPart(rest, [x \in DOMAIN rest |-> x], DOMAIN rest, new)
       /\ IsPart(after, [x \in DOMAIN after |-> x], DOMAIN after, new)
  BY <1>9, <1>10, <1>11, PartOfItself
<1>14. ASSUME NEW r \in Listed' \ returned'
       PROVE  players_list'[r] = Tally(r, new)
  <2>1. /\ Tally(r, old) = Plus(Tally(r, rest), Tally(r, before))
        /\ Tally(r, rest) \in Record /\ Tally(r, before) \in Record
    BY <1>9, <1>10, <1>12, TallyOfParts
  <2>2. Tally(r, new) = Plus(Tally(r, rest), Tally(r, after))
    BY <1>9, <1>10, <1>13, TallyOfParts
  <2>3. PICK x \in Record, y \in Record : x = Tally(r, rest) /\ y = Tally(r, before)
    BY <2>1
  <2>4. players_list[r] = Plus(x, y)
    BY <1>1, <1>3, <1>14, <2>1, <2>3, RecordsAre
  <2>5. players_list'[r] = Plus(Minus(Plus(x, y), y), Tally(r, after))
    BY <1>3, <1>14, <2>3, <2>4
  <2>6. Minus(Plus(x, y), y) = x
    BY PlusThenMinus
  <2>7. QED
    BY <2>2, <2>3, <2>5, <2>6
<1>15. QED
  BY <1>1, <1>14, RecordsAreNext

LEMMA RecordsNext ==
  ASSUME Typed, GameIdsUnique, History, RecordsMatchGames, Effect, Typed', GameIdsUnique'
  PROVE  RecordsMatchGames'
<1>1. CASE \E t, max_games : AddsTournament(t, max_games)
  <2>1. PICK t, max_games : AddsTournament(t, max_games)
    BY <1>1
  <2>2. QED
    BY <2>1, RecordsSame DEF AddsTournament
<1>2. CASE \E t, p, q, id, game : AddsGame(t, p, q, id, game)
  BY <1>2, RecordsAfterAdd
<1>3. CASE \E t : RemovesTournament(t)
  BY <1>3, RecordsAfterRemoval
<1>4. CASE \E t : EndsTournament(t)
  <2>1. PICK t : EndsTournament(t)
    BY <1>4
  <2>2. QED
    BY <2>1, RecordsSame DEF EndsTournament
<1>5. CASE \E p : RemovesPlayer(p)
  BY <1>5, RecordsWithoutPlayer
<1>6. CASE SameTables
  BY <1>6, RecordsSame DEF SameTables
<1>7. QED
  BY <1>1, <1>2, <1>3, <1>4, <1>5, <1>6 DEF Effect

-----------------------------------------------------------------------------
(* The inductive invariant: the properties, the types, and who was removed *)
(* and who came back.                                                      *)
Inv ==
  /\ Typed /\ GameIdsUnique /\ QuotaRespected /\ History /\ OpponentWins
  /\ PlayersCounted /\ RecordsMatchGames /\ WinnerIsBest

LEMMA InitInv == Init => Inv
<1> SUFFICES ASSUME Init
             PROVE  Inv
  OBVIOUS
<1>1. /\ Tournaments = {} /\ Listed = {} /\ Ended = {}
      /\ status = "running" /\ removed = {} /\ returned = {}
  BY DEF Init, Tournaments, Listed, Ended
<1>2. Typed
  BY <1>1 DEF Typed
<1>3. GameIdsUnique /\ QuotaRespected /\ History /\ OpponentWins
  BY <1>1 DEF GameIdsUnique, QuotaRespected, History, OpponentWins
<1>4. PlayersCounted /\ RecordsMatchGames /\ WinnerIsBest
  BY <1>1 DEF PlayersCounted, RecordsMatchGames, WinnerIsBest
<1>5. QED
  BY <1>2, <1>3, <1>4 DEF Inv

LEMMA NextInv == Inv /\ [Next]_vars => Inv'
<1> SUFFICES ASSUME Inv, [Next]_vars
             PROVE  Inv'
  OBVIOUS
<1>1. /\ Typed /\ GameIdsUnique /\ QuotaRespected /\ History /\ OpponentWins
      /\ PlayersCounted /\ RecordsMatchGames /\ WinnerIsBest
  BY DEF Inv
<1>2. Effect
  BY <1>1, StepDoes
<1>3. Typed' /\ GameIdsUnique'
  BY <1>1, <1>2, TypedNext, GameIdsUniqueNext
<1>4. QuotaRespected' /\ History' /\ OpponentWins'
  BY <1>1, <1>2, QuotaNext, HistoryNext, OpponentWinsNext
<1>5. PlayersCounted' /\ WinnerIsBest'
  BY <1>1, <1>2, PlayersCountedNext, WinnerIsBestNext
<1>6. RecordsMatchGames'
  BY <1>1, <1>2, <1>3, RecordsNext
<1>7. QED
  BY <1>3, <1>4, <1>5, <1>6 DEF Inv

LEMMA InvHolds == Spec => []Inv
<1>1. Init => Inv
  BY InitInv
<1>2. Inv /\ [Next]_vars => Inv'
  BY NextInv
<1>3. QED
  BY <1>1, <1>2, PTL DEF Spec

(* The tables always hold tournaments, games and records of their types,   *)
(* whatever chessSystem.c's operations are called with.                    *)
THEOREM TablesTyped == Spec => []TypeOK
<1>1. Inv => TypeOK
  BY TypedIsOK DEF Inv
<1>2. QED
  BY <1>1, InvHolds, PTL

(* chessAddGame never gives a number that another game has, never lets a   *)
(* player exceed a tournament's maximum and never repeats a valid game.    *)
THEOREM GamesStayLegal == Spec => []GamesLegal
<1>1. Inv => GamesLegal
  BY DEF Inv, GamesLegal
<1>2. QED
  BY <1>1, InvHolds, PTL

(* chessRemovePlayer: the opponent wins the games of a removed player in   *)
(* running tournaments, and those who play there are listed.               *)
THEOREM OpponentsWin == Spec => []OpponentWins
<1>1. Inv => OpponentWins
  BY DEF Inv
<1>2. QED
  BY <1>1, InvHolds, PTL

(* number_of_players, which chessSaveTournamentStatistics prints, is that  *)
(* of the players in the games, unless one of them was removed and back.   *)
THEOREM PlayersStayCounted == Spec => []PlayersCounted
<1>1. Inv => PlayersCounted
  BY DEF Inv
<1>2. QED
  BY <1>1, InvHolds, PTL

(* The totals that the players table keeps are those of the games in the   *)
(* tournaments table, for everyone who was not removed and listed again.   *)
THEOREM RecordsStayRight == Spec => []RecordsMatchGames
<1>1. Inv => RecordsMatchGames
  BY DEF Inv
<1>2. QED
  BY <1>1, InvHolds, PTL

(* chessEndTournament: the winner has the highest score and, among those   *)
(* who have it, the fewest losses, however many games and players.         *)
THEOREM WinnersAreBest == Spec => []WinnerIsBest
<1>1. Inv => WinnerIsBest
  BY DEF Inv
<1>2. QED
  BY <1>1, InvHolds, PTL

(* An ended tournament keeps its games, results and winner until it is     *)
(* removed: chessRemovePlayer passes it over.                              *)
THEOREM EndedStaysFinal == Spec => EndedIsFinal
<1>1. Inv /\ [Next]_vars =>
        [\A t \in Ended : t \in DOMAIN chess_tournament_table' =>
           chess_tournament_table'[t] = chess_tournament_table[t]]_vars
  <2> SUFFICES ASSUME Inv, [Next]_vars, NEW t \in Ended, t \in DOMAIN chess_tournament_table'
               PROVE  chess_tournament_table'[t] = chess_tournament_table[t]
    OBVIOUS
  <2>1. Typed /\ Effect
    BY StepDoes DEF Inv
  <2>2. t \in Tournaments'
    BY DEF Tournaments
  <2>3. QED
    BY <2>1, <2>2, EndedKept
<1>2. QED
  BY <1>1, InvHolds, PTL DEF Spec, EndedIsFinal

-----------------------------------------------------------------------------
(* The printed order of levels.  Finitely many players are ever listed.    *)
FewListed == IsFiniteSet(Listed)

LEMMA FewListedNext ==
  ASSUME FewListed, Effect
  PROVE  FewListed'
<1>1. IsFiniteSet(Listed)
  BY DEF FewListed
<1>2. CASE \E t, p, q, id, game : AddsGame(t, p, q, id, game)
  <2>1. PICK p, q : Listed' = Listed \cup {p, q}
    BY <1>2 DEF AddsGame
  <2>2. Listed' = (Listed \cup {p}) \cup {q}
    BY <2>1
  <2>3. IsFiniteSet(Listed \cup {p})
    BY <1>1, FS_AddElement
  <2>4. IsFiniteSet((Listed \cup {p}) \cup {q})
    BY <2>3, FS_AddElement
  <2>5. IsFiniteSet(Listed')
    BY <2>2, <2>4
  <2>6. QED
    BY <2>5 DEF FewListed
<1>3. CASE ~ \E t, p, q, id, game : AddsGame(t, p, q, id, game)
  <2>1. Listed' \in SUBSET Listed
    BY <1>3 DEF Effect, AddsTournament, RemovesTournament, EndsTournament, RemovesPlayer,
                SameTables, Listed
  <2>2. IsFiniteSet(Listed')
    BY <1>1, <2>1, FS_Subset
  <2>3. QED
    BY <2>2 DEF FewListed
<1>4. QED
  BY <1>2, <1>3

LEMMA LevelsAreInOrder == Inv /\ FewListed => LevelsInOrder
<1> SUFFICES ASSUME Inv, FewListed
             PROVE  LevelsInOrder
  OBVIOUS
<1>1. PICK players : players = players_list
  OBVIOUS
<1>2. /\ DOMAIN players = Listed /\ DOMAIN players \subseteq Int
      /\ \A p \in DOMAIN players : players[p] \in Record
  <2>1. Listed \subseteq PlayerIds /\ \A p \in Listed : players_list[p] \in Record
    BY DEF Inv, Typed
  <2>2. DOMAIN players = Listed
    BY <1>1 DEF Listed
  <2>3. PlayerIds \subseteq Int
    BY ConstantFacts
  <2>4. QED
    BY <1>1, <2>1, <2>2, <2>3
<1>3. IsFiniteSet(DOMAIN players)
  BY <1>2 DEF FewListed
<1>4. PICK levels : levels = Levels(players)
  OBVIOUS
<1>5. Len(levels) \in Nat /\ AreLevels(levels, Len(levels))
  BY <1>2, <1>3, <1>4, LevelsAreLevels
<1>6. FallsInOrder(Printed(levels), levels)
  BY <1>5, PrintedSorted
<1>7. QED
  BY <1>1, <1>4, <1>6 DEF LevelsInOrder, FallsInOrder

(* chessSavePlayersLevels: players are printed in falling order of levels, *)
(* equal ones by identifier, and everyone who has played exactly once.     *)
THEOREM LevelsFallInOrder == Spec => []LevelsInOrder
<1>1. Init => FewListed
  <2>1. Init => Listed = {}
    BY DEF Init, Listed
  <2>2. QED
    BY <2>1, FS_EmptySet DEF FewListed
<1>2. Inv /\ FewListed /\ [Next]_vars => FewListed'
  <2>1. Inv /\ [Next]_vars => Effect
    BY StepDoes DEF Inv
  <2>2. QED
    BY <2>1, FewListedNext
<1>3. Spec => []FewListed
  BY <1>1, <1>2, InvHolds, PTL DEF Spec
<1>4. QED
  BY <1>3, InvHolds, LevelsAreInOrder, PTL
=============================================================================
