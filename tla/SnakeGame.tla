----------------------------- MODULE SnakeGame -----------------------------
(***************************************************************************)
(* Snake Game.c: two snakes take turns on one board.  A place is the       *)
(* program's index row * N + column + 1; the board is an array with rows   *)
(* of N, so the places past the ends of a smaller board's rows exist and   *)
(* hold 0, on a board as wide as the array the end of a row is next to the *)
(* start of the following one, and place 0 is the word in front of the     *)
(* array.  Everything else outside is memory that holds neither a space    *)
(* nor food in this build, as is place 0 before drawMove first writes it.  *)
(***************************************************************************)
EXTENDS Integers, Sequences, FiniteSets

CONSTANTS N,         \* the array's side
          Sizes,     \* the board's sides players ask for
          MaxSteps,  \* max_steps, asked from the players
          FoodAt,    \* the places players put food at
          MaxTurns   \* bound: turns of a game

SnakeAssumption ==
  N \in Nat /\ Sizes \subseteq 4 .. N /\ MaxSteps \in Nat \ {0}

VARIABLES board_size, \* the board's side
          board,      \* what is drawn at each place
          hist,       \* [player -> places of its snake, head first]
          steps,      \* [player -> snakes[player].number_of_steps]
          turn,       \* turns made
          over        \* "no", "full", why the last mover lost, or "astray"

vars == <<board_size, board, hist, steps, turn, over>>

Players == {0, 1}

Places == {row * N + column + 1 : row, column \in 0 .. board_size - 1}

Start(p) == [i \in 1 .. 3 |-> p * N * (board_size - 1) + i]

HeadSymbol(p) == IF p = 0 THEN "%" ELSE "@"
BodySymbol(p) == IF p = 0 THEN "*" ELSE "+"

At(b, x) == IF x \in DOMAIN b THEN b[x] ELSE "outside"

(* get_snake_move also lets negative even numbers through: no direction.   *)
Moves == {"down", "up", "right", "left", "none"}

get_direct_index(move) ==
  CASE move = "down" -> N [] move = "up" -> -N
    [] move = "right" -> 1 [] move = "left" -> -1 [] OTHER -> 0

(* init_board and init_snakes.                                             *)
Empty ==
  [x \in Places \cup {0} |->
     IF x = 0 THEN "outside"
     ELSE IF \E p \in Players : x = Start(p)[1] THEN HeadSymbol(CHOOSE p \in Players : x = Start(p)[1])
     ELSE IF \E p \in Players, i \in 2 .. 3 : x = Start(p)[i]
          THEN BodySymbol(CHOOSE p \in Players : \E i \in 2 .. 3 : x = Start(p)[i])
     ELSE " "]

(* Mutation: the food may be put on a snake.                               *)
create_foodAnywhere(b, b2) ==
  \E x \in Places \cap FoodAt : b2 = [b EXCEPT ![x] = "F"]

(* The players are asked again until they name a free place.               *)
create_food(b, b2) ==
  \E x \in Places \cap FoodAt : b[x] = " " /\ b2 = [b EXCEPT ![x] = "F"]

isBoardFul(b) == \A x \in Places : b[x] # " "

Init ==
  /\ board_size \in Sizes
  /\ create_food(Empty, board)
  /\ hist = [p \in Players |-> Start(p)]
  /\ steps = [p \in Players |-> MaxSteps]
  /\ turn = 0 /\ over = "no"

-----------------------------------------------------------------------------
player == turn % 2

(* snakes[player - 1]: of player 1 it is the count of player 0, of player  *)
(* 0 it lies in front of the array, where nobody reads it.                 *)
Counted(p, n) == IF p = 1 THEN [steps EXCEPT ![0] = n] ELSE steps

illegal_snake_move(m, head) == m = "none" \/ At(board, head) \notin {" ", "F"}

(* Mutation: the snake that eats drops its tail as well.                   *)
updateSnakeHistShort(h, head, eat_food) == <<head>> \o SubSeq(h, 1, Len(h) - 1)

updateSnakeHist(h, head, eat_food) ==
  <<head>> \o (IF eat_food THEN h ELSE SubSeq(h, 1, Len(h) - 1))

(* Mutation: the old head is not drawn over.                               *)
drawMoveKeepsHead(b, p, h, head, eat_food) ==
  [x \in DOMAIN b |->
     CASE x = 0 /\ ~ eat_food -> " "
       [] x = head -> HeadSymbol(p)
       [] ~ eat_food /\ x = h[Len(h)] -> " "
       [] OTHER -> b[x]]

(* The tail's place was cleared by updateSnakeHist; unless the snake ate,  *)
(* the loop runs on to the histogram's 0 and clears place 0 with it.       *)
drawMove(b, p, h, head, eat_food) ==
  [x \in DOMAIN b |->
     CASE x = 0 /\ ~ eat_food -> " "
       [] x = head -> HeadSymbol(p)
       [] x = h[1] -> BodySymbol(p)
       [] ~ eat_food /\ x = h[Len(h)] -> " "
       [] OTHER -> b[x]]

Playing == over = "no" /\ ~ isBoardFul(board) /\ turn < MaxTurns

Starve ==
  /\ Playing /\ steps[player] = 0
  /\ over' = "starved"
  /\ UNCHANGED <<board_size, board, hist, steps, turn>>

Move(m) ==
  LET p        == player
      head     == hist[p][1] + get_direct_index(m)
      eat_food == At(board, head) = "F"
      drawn    == drawMove(board, p, hist[p], head, eat_food)
  IN  /\ Playing /\ steps[p] # 0 /\ ~ illegal_snake_move(m, head)
      /\ hist[p][1] # 0
      /\ hist' = [hist EXCEPT ![p] = updateSnakeHist(@, head, eat_food)]
      /\ IF eat_food THEN create_food(drawn, board') ELSE board' = drawn
      /\ steps' = IF eat_food THEN Counted(p, MaxSteps) ELSE Counted(p, steps[0] - 1)
      /\ turn' = turn + 1 /\ over' = "no" /\ UNCHANGED board_size

(* For checkSnakeLen a snake whose head is at place 0 has no length: if it *)
(* moves on, updateSnakeHist reads snake_hist[-1], which is undefined, or, *)
(* if it eats, shifts nothing.  The game is not followed any further.      *)
MoveAstray(m) ==
  /\ Playing /\ steps[player] # 0 /\ hist[player][1] = 0
  /\ ~ illegal_snake_move(m, get_direct_index(m))
  /\ over' = "astray"
  /\ UNCHANGED <<board_size, board, hist, steps, turn>>

IllegalMove(m) ==
  /\ Playing /\ steps[player] # 0
  /\ illegal_snake_move(m, hist[player][1] + get_direct_index(m))
  /\ over' = "illegal move"
  /\ steps' = Counted(player, steps[0] - 1)
  /\ UNCHANGED <<board_size, board, hist, turn>>

FullBoard ==
  /\ over = "no" /\ isBoardFul(board)
  /\ over' = "full"
  /\ UNCHANGED <<board_size, board, hist, steps, turn>>

Next == Starve \/ FullBoard \/ \E m \in Moves : Move(m) \/ MoveAstray(m) \/ IllegalMove(m)

Spec == Init /\ [][Next]_vars

-----------------------------------------------------------------------------
OnBoard == \A p \in Players : hist[p][1] \in Places

(* While both heads are on the board it shows the snakes and one piece of  *)
(* food and nothing else: each snake is a path of its own, drawn where its *)
(* histogram says, and no longer than three and what it ate.               *)
BoardShowsSnakes ==
  OnBoard =>
    /\ \A p \in Players :
         /\ board[hist[p][1]] = HeadSymbol(p)
         /\ \A i \in 2 .. Len(hist[p]) :
              /\ board[hist[p][i]] = BodySymbol(p)
              /\ hist[p][i] - hist[p][i - 1] \in {1, -1, N, -N}
    /\ Cardinality({x \in Places : board[x] = "F"}) = 1
    /\ Cardinality({x \in Places : board[x] \notin {" ", "F"}}) = Len(hist[0]) + Len(hist[1])

(* The squares of the board one step from place 0: the first and, on a     *)
(* board as wide as the array, the last of row 0.                          *)
Beside == Places \cap {get_direct_index(m) : m \in Moves}

(* A head leaves the board only over a corner beside place 0, where the    *)
(* writes in front of the array have put a space.  It can only go on over  *)
(* the other corner of a board that has both; elsewhere it has lost.       *)
LeavesOnlyOverTheCorner ==
  \A p \in Players : hist[p][1] \notin Places =>
    /\ hist[p][1] = 0 /\ hist[p][2] \in Beside
    /\ \A m \in Moves : \/ illegal_snake_move(m, get_direct_index(m))
                        \/ get_direct_index(m) \in Beside \ {hist[p][2]}
=============================================================================
