--------------------------- MODULE AvoidanceGame ---------------------------
(***************************************************************************)
(* hw3q1.c: avoidance tic-tac-toe.  Two players fill a square board in     *)
(* turn; a negative number takes moves back; who completes a line loses.   *)
(* Input that print_error answers leaves the game as it is.                *)
(***************************************************************************)
EXTENDS Integers, Sequences

CONSTANTS Size,        \* the board's side
          FirstMoves,  \* bound: squares of the first move
          MaxUndo      \* bound: moves taken back at once

VARIABLES board,  \* [Squares -> "_", "X" or "O"]
          moves,  \* the squares of the moves made; its length is *move_ptr
          ended   \* what was printed: "no", "tie", "first" or "second"

vars == <<board, moves, ended>>

Squares == (0 .. Size - 1) \X (0 .. Size - 1)

Blank(b, s) == b[s] = "_"

(* The first player makes the moves at even places, counted from 0.        *)
playerTurn(n) == IF n % 2 = 0 THEN "first" ELSE "second"

(* check_column, check_row and check_diagonal_1: every pair of neighbours  *)
(* is of one symbol.                                                       *)
Alike(b, s, t) == b[s] = b[t] /\ ~ Blank(b, s) /\ ~ Blank(b, t)

check_column(b) == \E i \in 0 .. Size - 1 : \A j \in 1 .. Size - 1 : Alike(b, <<i, j - 1>>, <<i, j>>)

check_row(b) == \E j \in 0 .. Size - 1 : \A i \in 1 .. Size - 1 : Alike(b, <<i - 1, j>>, <<i, j>>)

check_diagonal_1(b) == \A i \in 1 .. Size - 1 : Alike(b, <<i, i>>, <<i - 1, i - 1>>)

(* The second test reads board[i][i], a square of the other diagonal.      *)
check_diagonal_2(b) ==
  \A j \in 1 .. Size - 1 :
    LET i == Size - 1 - j IN
    /\ b[<<i, j>>] = b[<<i + 1, j - 1>>]
    /\ ~ Blank(b, <<i, i>>) /\ ~ Blank(b, <<i + 1, j - 1>>)

(* Mutation: the rows are not looked at.                                   *)
check_for_winNoRows(b) ==
  Size # 1 /\ (check_column(b) \/ check_diagonal_1(b) \/ check_diagonal_2(b))

check_for_win(b) ==
  Size # 1 /\ (check_column(b) \/ check_row(b) \/ check_diagonal_1(b) \/ check_diagonal_2(b))

(* Asked after the last move: a full board is a tie, line or not.          *)
check_which_kind_of_win(n) == IF n = Size * Size /\ Size # 1 THEN "tie" ELSE playerTurn(n)

(* The test of startgame's loop.                                           *)
status(b, n) == IF check_for_win(b) \/ n >= Size * Size THEN check_which_kind_of_win(n) ELSE "no"

-----------------------------------------------------------------------------
Init ==
  /\ board = [s \in Squares |-> "_"]
  /\ moves = << >>
  /\ ended = "no"

excute_turn ==
  /\ ended = "no"
  /\ \E s \in Squares :
       /\ Blank(board, s) /\ (moves = << >> => s \in FirstMoves)
       /\ board' = [board EXCEPT ![s] = IF Len(moves) % 2 = 0 THEN "X" ELSE "O"]
       /\ moves' = Append(moves, s)
  /\ ended' = status(board', Len(moves'))

(* Check_if_row_legal: an odd number of moves, no more than were made.     *)
legalUndo(n) == n % 2 = 1 /\ n <= Len(moves) /\ n <= MaxUndo

(* Mutation: the last of the moves taken back stays on the board.          *)
undoLeavesOne ==
  /\ ended = "no"
  /\ \E n \in 1 .. Len(moves) :
       /\ legalUndo(n)
       /\ board' = [s \in Squares |->
                      IF \E i \in 0 .. n - 2 : moves[Len(moves) - i] = s THEN "_" ELSE board[s]]
       /\ moves' = SubSeq(moves, 1, Len(moves) - n)
  /\ ended' = status(board', Len(moves'))

undo ==
  /\ ended = "no"
  /\ \E n \in 1 .. Len(moves) :
       /\ legalUndo(n)
       /\ board' = [s \in Squares |->
                      IF \E i \in 0 .. n - 1 : moves[Len(moves) - i] = s THEN "_" ELSE board[s]]
       /\ moves' = SubSeq(moves, 1, Len(moves) - n)
  /\ ended' = status(board', Len(moves'))

Next == excute_turn \/ undo

Spec == Init /\ [][Next]_vars

-----------------------------------------------------------------------------
(* Whatever was taken back, the board shows the moves that are left, those *)
(* of the first player as X, of the second as O, and nothing else.         *)
BoardShowsMoves ==
  \A s \in Squares :
    LET at == {i \in 1 .. Len(moves) : moves[i] = s}
    IN  IF at = {} THEN Blank(board, s)
        ELSE \E i \in at : at = {i} /\ board[s] = (IF i % 2 = 1 THEN "X" ELSE "O")

FullLines(b) ==
  LET Places == 0 .. Size - 1
      Lines  == {{<<i, j>> : j \in Places} : i \in Places}
                  \cup {{<<i, j>> : i \in Places} : j \in Places}
                  \cup {{<<i, i>> : i \in Places}}
  IN  {line \in Lines : \E x \in {"X", "O"} : \A s \in line : b[s] = x}

(* A row, a column or the falling diagonal ends the game at the move that  *)
(* completes it: the game does not go on with one on the board, and unless *)
(* the board is full the player who did not complete it is the winner.     *)
LinesEndTheGame ==
  FullLines(board) # {} =>
    /\ ended # "no"
    /\ \A line \in FullLines(board) : moves[Len(moves)] \in line
    /\ ended # "tie" => \A line \in FullLines(board) : \A s \in line :
                             board[s] = (IF ended = "first" THEN "O" ELSE "X")
=============================================================================
