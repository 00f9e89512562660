--------------------------- MODULE MCPieceHashing ---------------------------
(* All layouts of up to three files of at most MaxLength bytes. *)
EXTENDS PieceHashing

CONSTANTS MaxLength, MaxPiece

SmallLayouts ==
    [lengths     : UNION {[1..n -> 0..MaxLength] : n \in 1..3},
     pieceLength : 1..MaxPiece]
=============================================================================
