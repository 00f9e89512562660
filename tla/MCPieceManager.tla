--------------------------- MODULE MCPieceManager ---------------------------
(* Three files over two pieces: piece 0 crosses the empty second file into *)
(* the third, which it shares with the short last piece.                   *)
EXTENDS PieceManager, TLC

CONSTANTS w1, w2

CrossingLayout == [lengths |-> <<1, 0, 2>>, pieceLength |-> 2]
TwoThreads == {w1, w2}

Symmetric == Permutations(Threads)
=============================================================================
