------------------------------ MODULE GridGame ------------------------------
(***************************************************************************)
(* partB: two teams on a board of cells.  A character stands on one cell;  *)
(* it moves, attacks and reloads, each kind by its own rules, and a game   *)
(* may go on in a copy of itself.  Calls that throw leave the game as it   *)
(* is, except that nothing is checked after a change: a call below has the *)
(* guard under which none of the exceptions is thrown.                     *)
(***************************************************************************)
EXTENDS Integers, FiniteSets

CONSTANTS Rows, Cols,  \* the board
          Roster,      \* the characters the players make
          MaxPieces,   \* bound: characters on the board, one of a kind and team
          MaxStrikes,  \* bound: attacks of one sniper
          MaxPower,    \* bound: a character of more power does not attack
          MaxHealth,   \* bound: a medic's help stops here
          ReloadAt,    \* bound: a character with more ammo does not reload
          EMPTY

VARIABLES board  \* [Cells -> character or EMPTY]

vars == <<board>>

Cells == (1 .. Rows) \X (1 .. Cols)

Taken(b) == {c \in Cells : b[c] # EMPTY}

Abs(x) == IF x < 0 THEN -x ELSE x

(* GridPoint::distance, of Auxiliaries.h.                                  *)
distance(c, d) == Abs(c[1] - d[1]) + Abs(c[2] - d[2])

HalfUp(x) == (x + 1) \div 2

(* The members of a character, and two of the model's own: the power it    *)
(* was made with and whether it is a copy.                                 *)
makeCharacter(r) ==
  [type |-> r.type, team |-> r.team, health |-> r.health, ammo |-> r.ammo,
   range |-> r.range, power |-> r.power, strike |-> 0,
   made |-> r.power, copied |-> FALSE]

getSteps(type) == CASE type = "SOLDIER" -> 3 [] type = "SNIPER" -> 4 [] OTHER -> 5

getReloadAmmo(type) == CASE type = "SOLDIER" -> 3 [] type = "SNIPER" -> 2 [] OTHER -> 5

(* clone and makeCharacter: the copy of a sniper has made no attack yet.   *)
copyAndAllocate(b) ==
  [c \in Cells |-> IF b[c] = EMPTY THEN EMPTY
                   ELSE [b[c] EXCEPT !.strike = 0, !.copied = TRUE]]

Init == board = [c \in Cells |-> EMPTY]

addCharacter ==
  \E c \in Cells \ Taken(board), r \in Roster :
    /\ Cardinality(Taken(board)) < MaxPieces
    /\ \A d \in Taken(board) : <<board[d].type, board[d].team>> # <<r.type, r.team>>
    /\ board' = [board EXCEPT ![c] = makeCharacter(r)]

move ==
  \E src \in Taken(board), dst \in Cells \ Taken(board) :
    /\ distance(src, dst) <= getSteps(board[src].type)
    /\ board' = [board EXCEPT ![dst] = board[src], ![src] = EMPTY]

reload ==
  \E c \in Taken(board) :
    /\ board[c].ammo <= ReloadAt
    /\ board' = [board EXCEPT ![c].ammo = @ + getReloadAmmo(board[c].type)]

copyGame == board' = copyAndAllocate(board)

-----------------------------------------------------------------------------
possibleAttack(p, src, dst) ==
  /\ distance(src, dst) <= p.range
  /\ p.type = "SNIPER" => distance(src, dst) >= HalfUp(p.range)

(* Mutation: a medic may hurt without ammo.                                *)
enoughAmmoOfMedicToo(p, target) == p.type = "MEDIC" \/ p.ammo >= 1

(* A medic needs ammo against an enemy only.                               *)
enoughAmmo(p, target) ==
  \/ p.ammo >= 1
  \/ p.type = "MEDIC" /\ ~ (target # EMPTY /\ target.team # p.team)

(* Mutation: the dead stay when their health is exactly 0.                 *)
hurtBelowZero(q, points) ==
  IF q.health - points < 0 THEN EMPTY ELSE [q EXCEPT !.health = @ - points]

(* updateHealth, and the cell of a dead character is cleared.              *)
hurt(q, points) ==
  IF q.health - points <= 0 THEN EMPTY ELSE [q EXCEPT !.health = @ - points]

Spend(b, src) == [b EXCEPT ![src].ammo = @ - 1]

(* Mutation: the area damage does not ask for the team.                    *)
SoldierAttackAnyone(b, src, dst) ==
  LET p == b[src]
      spent == Spend(b, src)
  IN  [c \in Cells |->
         IF c \notin Taken(b) \/ distance(dst, c) > (p.range + 2) \div 3 THEN spent[c]
         ELSE hurt(spent[c], IF c = dst THEN p.power ELSE HalfUp(p.power))]

(* Soldier: along a row or a column, every enemy near the target is hurt.  *)
SoldierAttack(b, src, dst) ==
  LET p == b[src]
      damaged == {c \in Taken(b) : /\ b[c].team # p.team
                                   /\ distance(dst, c) <= (p.range + 2) \div 3}
  IN  Spend([c \in Cells |->
               IF c \notin damaged THEN b[c]
               ELSE hurt(b[c], IF c = dst THEN p.power ELSE HalfUp(p.power))], src)

(* Mutation: the power is never halved again.                              *)
attackOccurredKeepsPower(p) ==
  [p EXCEPT !.strike = @ + 1,
            !.power = IF (p.strike + 1) % 3 = 0 THEN 2 * @ ELSE @]

(* Sniper: every third attack is made with doubled power.                  *)
attackOccurred(p) ==
  LET strike == p.strike + 1
  IN  [p EXCEPT !.strike = strike,
                !.power = CASE strike % 3 = 0 -> 2 * @
                            [] strike % 3 = 1 /\ strike # 1 -> @ \div 2
                            [] OTHER -> @]

SniperAttack(b, src, dst) ==
  LET p == attackOccurred(b[src])
  IN  Spend([b EXCEPT ![src] = p, ![dst] = hurt(@, p.power)], src)

(* Medic: an enemy is hurt and a friend is helped, at no cost of ammo.     *)
MedicAttack(b, src, dst) ==
  IF b[dst].team # b[src].team
  THEN Spend([b EXCEPT ![dst] = hurt(@, b[src].power)], src)
  ELSE [b EXCEPT ![dst].health = @ + b[src].power]

(* attackByCharacter throws IllegalTarget where none of these is the case. *)
legalTarget(p, src, dst, target) ==
  CASE p.type = "SOLDIER" -> src[1] = dst[1] \/ src[2] = dst[2]
    [] p.type = "SNIPER"  -> target # EMPTY /\ target.team # p.team
    [] OTHER              -> target # EMPTY /\ src # dst

attackByCharacter(b, src, dst) ==
  CASE b[src].type = "SOLDIER" -> SoldierAttack(b, src, dst)
    [] b[src].type = "SNIPER"  -> SniperAttack(b, src, dst)
    [] OTHER                   -> MedicAttack(b, src, dst)

Bounded(p, target) ==
  /\ p.strike < MaxStrikes /\ p.power <= MaxPower
  /\ target # EMPTY /\ target.team = p.team => target.health < MaxHealth

attack ==
  \E src \in Taken(board), dst \in Cells :
    LET p == board[src] IN
    /\ possibleAttack(p, src, dst)
    /\ enoughAmmo(p, board[dst])
    /\ legalTarget(p, src, dst, board[dst])
    /\ Bounded(p, board[dst])
    /\ board' = attackByCharacter(board, src, dst)

Next == addCharacter \/ move \/ reload \/ copyGame \/ attack

Spec == Init /\ [][Next]_vars

-----------------------------------------------------------------------------
(* isOver, with a pointer for the winner.                                  *)
isOver(b) ==
  LET teams == {b[c].team : c \in Taken(b)}
  IN  IF Cardinality(teams) = 1 THEN teams ELSE {}

(* Who is on the board is alive, and no ammo was spent that was not there. *)
FitToFight ==
  \A c \in Taken(board) : board[c].health > 0 /\ board[c].ammo >= 0

(* Before a game is copied a sniper's power is doubled in its third, sixth *)
(* ... attack and is that it was made with in all others (attackOccurred). *)
SniperSchedule ==
  \A c \in Taken(board) : LET p == board[c] IN
    p.type = "SNIPER" /\ ~ p.copied =>
      p.power = (IF p.strike > 0 /\ p.strike % 3 = 0 THEN 2 ELSE 1) * p.made

(* Both at once: any order of moves leaves characters the rules allow.     *)
CharactersFit == FitToFight /\ SniperSchedule

(* An attack never hurts the attacker's own team: who loses health or the  *)
(* life is an enemy of one character that spends one piece of ammo; so no  *)
(* attack makes the other team win.                                        *)
OnlyEnemiesAreHurt ==
  [][LET Hurt == {c \in Taken(board) :
                    IF board'[c] = EMPTY THEN Taken(board') \subseteq Taken(board)
                    ELSE board'[c].health < board[c].health}
     IN  Hurt # {} =>
           \E src \in Taken(board) :
             /\ board'[src] # EMPTY /\ board'[src].ammo = board[src].ammo - 1
             /\ \A c \in Hurt : board[c].team # board[src].team
             /\ isOver(board') \subseteq {board[src].team}]_vars

=============================================================================
