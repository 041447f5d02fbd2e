---------------------------- MODULE MCChessSystem ----------------------------
(***************************************************************************)
(* Instances of ChessSystem for TLC.                                       *)
(***************************************************************************)
EXTENDS ChessSystem

(* Player 2 meets both others, so that his quota is the first to be used.  *)
ChainPairings == {<<1, 2>>, <<3, 2>>}

(* Enough for a tie that the number of wins has to break.                  *)
TiePairings == {<<1, 4>>, <<2, 4>>, <<2, 5>>, <<3, 1>>}
=============================================================================
