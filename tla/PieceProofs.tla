---------------------------- MODULE PieceProofs ----------------------------
(***************************************************************************)
(* Proofs about PieceLayout: what its arithmetic guarantees for every      *)
(* layout; about PieceHashing: where the generator cuts the pieces, what   *)
(* the loader accepts; and about PieceManager, which reads and writes the  *)
(* pieces of a torrent that was loaded.                                    *)
(***************************************************************************)
EXTENDS PieceHashing, PieceManager, DataLemmas

-----------------------------------------------------------------------------
(* Files and pieces.  Layouts are those that Metainfo.validate accepts.    *)
IsLayout(L) == L.lengths \in Seq(Nat) /\ L.pieceLength \in Nat \ {0}

LEMMA TotalIsNatural == ASSUME NEW L, IsLayout(L) PROVE TotalLength(L) \in Nat
BY SumNatural DEF IsLayout, TotalLength, Offset

(* Segments are in order and lie within the total.                         *)
LEMMA FileFacts ==
    ASSUME NEW L, IsLayout(L), NEW f \in Files(L)
    PROVE  /\ f \in 1..Len(L.lengths)
           /\ L.lengths[f] \in Nat
           /\ SegmentStart(L, f) \in Nat
           /\ SegmentEnd(L, f) = SegmentStart(L, f) + L.lengths[f]
           /\ SegmentEnd(L, f) = Offset(L)[f]
           /\ SegmentEnd(L, f) <= TotalLength(L)
<1> DEFINE n == Len(L.lengths)
<1>1. f \in 1..n /\ L.lengths[f] \in Nat /\ n \in Nat
  BY DEF IsLayout, Files
<1>2. f - 1 \in 0..n /\ f \in 0..n /\ n \in 0..n /\ f <= n
  BY <1>1
<1>3. Offset(L) \in [0..n -> Nat]
  BY SumNatural DEF IsLayout, Offset
<1>4. Offset(L)[f] = Offset(L)[f - 1] + L.lengths[f]
  BY <1>1, SumSteps DEF IsLayout, Offset
<1>5. Offset(L)[f] <= Offset(L)[n]
  BY <1>2, SumMonotone DEF IsLayout, Offset
<1> QED
  BY <1>1, <1>2, <1>3, <1>4, <1>5 DEF SegmentStart, SegmentEnd, TotalLength

(* Every position of the content is in exactly one file.                   *)
LEMMA PositionHasFile ==
    ASSUME NEW L, IsLayout(L), NEW x \in Nat, x < TotalLength(L)
    PROVE  \E f \in Files(L) : SegmentStart(L, f) <= x /\ x < SegmentEnd(L, f)
<1>1. PICK f \in 1..Len(L.lengths) : Offset(L)[f - 1] <= x /\ x < Offset(L)[f]
  BY SumLocates DEF IsLayout, Offset, TotalLength
<1>2. f \in Files(L)
  BY DEF Files, IsLayout
<1> QED
  BY <1>1, <1>2, FileFacts DEF SegmentStart

LEMMA PositionHasOneFile ==
    ASSUME NEW L, IsLayout(L), NEW x \in Nat,
           NEW f \in Files(L), SegmentStart(L, f) <= x, x < SegmentEnd(L, f),
           NEW g \in Files(L), SegmentStart(L, g) <= x, x < SegmentEnd(L, g)
    PROVE  f = g
<1>1. /\ f \in 1..Len(L.lengths) /\ Offset(L)[f - 1] <= x /\ x < Offset(L)[f]
      /\ g \in 1..Len(L.lengths) /\ Offset(L)[g - 1] <= x /\ x < Offset(L)[g]
  BY FileFacts DEF SegmentStart
<1> QED
  BY <1>1, SumSeparates DEF IsLayout, Offset

(* Pieces are never empty, all but the last have the full length, and they *)
(* end where the content ends.                                             *)
LEMMA CountFacts ==
    ASSUME NEW L, IsLayout(L)
    PROVE  /\ PieceCount(L) \in Nat
           /\ TotalLength(L) <= PieceCount(L) * L.pieceLength
           /\ PieceCount(L) # 0 => (PieceCount(L) - 1) * L.pieceLength < TotalLength(L)
           /\ PieceCount(L) = 0 <=> TotalLength(L) = 0
<1> DEFINE p == L.pieceLength
           t == TotalLength(L)
<1>1. p \in Nat \ {0} /\ t \in Nat
  BY TotalIsNatural DEF IsLayout
<1>2. CASE t = 0
  BY <1>1, <1>2 DEF PieceCount
<1>3. CASE t # 0
  <2>1. PieceCount(L) = (t + p - 1) \div p
    BY <1>3 DEF PieceCount
  <2> HIDE DEF p, t
  <2> DEFINE c == (t + p - 1) \div p
  <2>2. c \in Nat /\ c * p <= t + p - 1 /\ t + p - 1 < c * p + p
    BY <1>1
  <2>3. t <= c * p /\ c # 0
    BY <1>1, <1>3, <2>2
  <2>4. (c - 1) * p = c * p - p
    BY <1>1, <2>2
  <2> HIDE DEF c
  <2>5. (c - 1) * p < t
    BY <1>1, <2>2, <2>4
  <2> QED
    BY <1>3, <2>1, <2>2, <2>3, <2>5 DEF c, p, t
<1> QED
  BY <1>2, <1>3

LEMMA PieceFacts ==
    ASSUME NEW L, IsLayout(L), NEW i \in Pieces(L)
    PROVE  /\ i \in Nat /\ i < PieceCount(L)
           /\ PieceStart(L, i) \in Nat
           /\ PieceSize(L, i) \in 1..L.pieceLength
           /\ PieceEnd(L, i) = PieceStart(L, i) + PieceSize(L, i)
           /\ PieceEnd(L, i) = IF i = PieceCount(L) - 1 THEN TotalLength(L) ELSE PieceStart(L, i + 1)
           /\ PieceEnd(L, i) <= TotalLength(L)
<1> DEFINE p == L.pieceLength
           t == TotalLength(L)
           c == PieceCount(L)
<1>1. p \in Nat \ {0} /\ t \in Nat /\ c \in Nat
  BY TotalIsNatural, CountFacts DEF IsLayout
<1>2. i \in Nat /\ i < c /\ c # 0
  BY <1>1 DEF Pieces
<1>3. t <= c * p /\ (c - 1) * p < t
  BY <1>2, CountFacts
<1>4. (i + 1) * p = i * p + p /\ c * p = (c - 1) * p + p /\ i * p \in Nat /\ p * (c - 1) = (c - 1) * p
  BY <1>1, <1>2
<1>5. PieceStart(L, i) = i * p /\ PieceStart(L, i + 1) = (i + 1) * p
  BY DEF PieceStart
<1>6. CASE i = c - 1
  <2>1. PieceSize(L, i) = t - p * (c - 1)
    BY <1>1, <1>6 DEF PieceSize
  <2>2. PieceStart(L, i) = (c - 1) * p
    BY <1>5, <1>6
  <2> HIDE DEF p, t, c
  <2>3. PieceSize(L, i) \in 1..p /\ PieceStart(L, i) + PieceSize(L, i) = t
    BY <1>1, <1>2, <1>3, <1>4, <2>1, <2>2
  <2> QED
    BY <1>1, <1>2, <1>4, <1>5, <1>6, <2>3 DEF p, t, c, PieceEnd
<1>7. CASE i # c - 1
  <2>1. PieceSize(L, i) = p
    BY <1>1, <1>2, <1>7 DEF PieceSize
  <2> HIDE DEF p, t, c
  <2>2. (i + 1) * p <= (c - 1) * p
    BY <1>1, <1>2, <1>7
  <2>3. PieceStart(L, i + 1) <= t
    BY <1>1, <1>2, <1>3, <1>4, <1>5, <2>2
  <2> QED
    BY <1>1, <1>2, <1>4, <1>5, <1>7, <2>1, <2>3 DEF p, t, c, PieceEnd
<1> QED
  BY <1>6, <1>7

(* Every position is in exactly one piece.                                 *)
LEMMA PositionHasPiece ==
    ASSUME NEW L, IsLayout(L), NEW x \in Nat, x < TotalLength(L)
    PROVE  \E i \in Pieces(L) : PieceStart(L, i) <= x /\ x < PieceEnd(L, i)
<1> DEFINE p == L.pieceLength
           t == TotalLength(L)
           c == PieceCount(L)
           i == x \div p
<1>1. p \in Nat \ {0} /\ t \in Nat /\ c \in Nat
  BY TotalIsNatural, CountFacts DEF IsLayout
<1>2. i \in Nat /\ i * p <= x /\ x < i * p + p
  BY <1>1
<1>3. t <= c * p
  BY CountFacts
<1>4. i < c
  <2> HIDE DEF p, t, c, i
  <2>1. x < c * p
    BY <1>1, <1>3 DEF t
  <2>2. ASSUME c <= i
        PROVE  FALSE
    <3>1. c * p <= i * p
      BY <1>1, <1>2, <2>2
    <3> QED
      BY <1>1, <1>2, <2>1, <3>1
  <2> QED
    BY <1>1, <1>2, <2>2
<1>5. i \in Pieces(L)
  BY <1>1, <1>2, <1>4 DEF Pieces
<1>6. PieceStart(L, i) <= x
  BY <1>2 DEF PieceStart
<1>7. x < PieceEnd(L, i)
  <2>1. PieceStart(L, i + 1) = i * p + p
    BY <1>1, <1>2 DEF PieceStart
  <2> HIDE DEF i, p
  <2>2. PieceEnd(L, i) = IF i = PieceCount(L) - 1 THEN TotalLength(L) ELSE PieceStart(L, i + 1)
    BY <1>5, PieceFacts
  <2> QED
    BY <1>2, <2>1, <2>2
<1> HIDE DEF i
<1> QED
  BY <1>5, <1>6, <1>7

LEMMA PositionHasOnePiece ==
    ASSUME NEW L, IsLayout(L), NEW x \in Nat,
           NEW i \in Pieces(L), PieceStart(L, i) <= x, x < PieceEnd(L, i),
           NEW j \in Pieces(L), PieceStart(L, j) <= x, x < PieceEnd(L, j)
    PROVE  i = j
<1> DEFINE p == L.pieceLength
<1>1. /\ p \in Nat \ {0} /\ i \in Nat /\ j \in Nat
      /\ PieceSize(L, i) <= p /\ PieceSize(L, i) \in Nat
      /\ PieceSize(L, j) <= p /\ PieceSize(L, j) \in Nat
  BY PieceFacts DEF IsLayout
<1>2. /\ i * p <= x /\ x < i * p + PieceSize(L, i)
      /\ j * p <= x /\ x < j * p + PieceSize(L, j)
  BY DEF PieceStart, PieceEnd
<1> HIDE DEF p
<1>3. x < i * p + p /\ x < j * p + p
  BY <1>1, <1>2
<1>4. (i + 1) * p = i * p + p /\ (j + 1) * p = j * p + p
  BY <1>1
<1>5. ASSUME i < j
      PROVE  FALSE
  <2>1. (i + 1) * p <= j * p
    BY <1>1, <1>5
  <2> QED
    BY <1>1, <1>2, <1>3, <1>4, <2>1
<1>6. ASSUME j < i
      PROVE  FALSE
  <2>1. (j + 1) * p <= i * p
    BY <1>1, <1>6
  <2> QED
    BY <1>1, <1>2, <1>3, <1>4, <2>1
<1> QED
  BY <1>1, <1>5, <1>6

-----------------------------------------------------------------------------
(* The chunk of a piece in a file is exactly the bytes of that file whose  *)
(* position in the content lies in the piece.                              *)
Position(L, f, o) == SegmentStart(L, f) + o
InPiece(L, i, x) == PieceStart(L, i) <= x /\ x < PieceEnd(L, i)

LEMMA ChunkFacts ==
    ASSUME NEW L, IsLayout(L), NEW f \in Files(L), NEW i \in Pieces(L)
    PROVE  /\ Overlaps(L, i, f) => /\ LocalOffset(L, i, f) \in Nat
                                   /\ ChunkSize(L, i, f) \in Nat \ {0}
                                   /\ LocalOffset(L, i, f) + ChunkSize(L, i, f) <= L.lengths[f]
           /\ \A o \in 0..(L.lengths[f] - 1) :
                  InPiece(L, i, Position(L, f, o)) <=> Overlaps(L, i, f) /\ o \in Chunk(L, i, f)
<1> DEFINE ps == PieceStart(L, i)
           pe == PieceEnd(L, i)
           ss == SegmentStart(L, f)
           se == SegmentEnd(L, f)
           len == L.lengths[f]
<1>1. /\ ps \in Nat /\ pe \in Nat /\ ps < pe
      /\ ss \in Nat /\ se \in Nat /\ len \in Nat /\ se = ss + len
  BY FileFacts, PieceFacts
<1>2. Overlaps(L, i, f) <=> len # 0 /\ ~(se <= ps \/ ss >= pe)
  BY DEF Overlaps
<1>3. LocalOffset(L, i, f) = (IF ps >= ss THEN ps ELSE ss) - ss
  BY <1>1, MaxOfTwo DEF LocalOffset, OverlapStart
<1>4. ChunkSize(L, i, f) = (IF pe <= se THEN pe ELSE se) - (IF ps >= ss THEN ps ELSE ss)
  BY <1>1, MaxOfTwo, MinOfTwo DEF ChunkSize, OverlapStart, OverlapEnd
<1>5. \A o : InPiece(L, i, Position(L, f, o)) <=> ps <= ss + o /\ ss + o < pe
  BY DEF InPiece, Position
<1>6. Chunk(L, i, f) = LocalOffset(L, i, f)..(LocalOffset(L, i, f) + ChunkSize(L, i, f) - 1)
  BY DEF Chunk
<1> DEFINE lo == LocalOffset(L, i, f)
           cs == ChunkSize(L, i, f)
<1> HIDE DEF ps, pe, ss, se, len, lo, cs
<1>7. Overlaps(L, i, f) => lo \in Nat /\ cs \in Nat \ {0} /\ lo + cs <= len
  BY <1>1, <1>2, <1>3, <1>4 DEF lo, cs
<1>8. ASSUME NEW o \in 0..(len - 1)
      PROVE  (ps <= ss + o /\ ss + o < pe) <=> Overlaps(L, i, f) /\ o \in lo..(lo + cs - 1)
  BY <1>1, <1>2, <1>3, <1>4, <1>8 DEF lo, cs
<1> QED
  BY <1>5, <1>6, <1>7, <1>8 DEF len, lo, cs

(* The places PieceManager reads a piece from and writes it to lie within  *)
(* the declared lengths of its files.                                      *)
THEOREM ChunksLieInTheirFiles ==
    ASSUME NEW L, IsLayout(L), NEW i \in Pieces(L), NEW f \in FilesOf(L, i)
    PROVE  Chunk(L, i, f) # {} /\ Chunk(L, i, f) \subseteq 0..(L.lengths[f] - 1)
<1>1. f \in Files(L) /\ Overlaps(L, i, f)
  BY DEF FilesOf
<1>2. /\ LocalOffset(L, i, f) \in Nat
      /\ ChunkSize(L, i, f) \in Nat \ {0}
      /\ LocalOffset(L, i, f) + ChunkSize(L, i, f) <= L.lengths[f]
      /\ L.lengths[f] \in Nat
  BY <1>1, ChunkFacts, FileFacts
<1> QED
  BY <1>2 DEF Chunk

(* Every byte of every file belongs to exactly one piece.                  *)
THEOREM PiecesPartitionTheFiles ==
    ASSUME NEW L, IsLayout(L), NEW f \in Files(L), NEW o \in 0..(L.lengths[f] - 1)
    PROVE  /\ \E i \in Pieces(L) : f \in FilesOf(L, i) /\ o \in Chunk(L, i, f)
           /\ \A i, j \in Pieces(L) :
                 /\ f \in FilesOf(L, i) /\ o \in Chunk(L, i, f)
                 /\ f \in FilesOf(L, j) /\ o \in Chunk(L, j, f)
                 => i = j
<1> DEFINE x == Position(L, f, o)
<1>1. x \in Nat /\ x < TotalLength(L)
  BY FileFacts, TotalIsNatural DEF Position
<1>2. \A i \in Pieces(L) : f \in FilesOf(L, i) /\ o \in Chunk(L, i, f) <=> InPiece(L, i, x)
  BY ChunkFacts DEF FilesOf
<1>3. \E i \in Pieces(L) : InPiece(L, i, x)
  BY <1>1, PositionHasPiece DEF InPiece
<1>4. \A i, j \in Pieces(L) : InPiece(L, i, x) /\ InPiece(L, j, x) => i = j
  BY <1>1, PositionHasOnePiece DEF InPiece
<1> HIDE DEF x
<1> QED
  BY <1>2, <1>3, <1>4

-----------------------------------------------------------------------------
(* `left`.                                                                 *)
LEMMA DownloadedFacts ==
    ASSUME NEW L, IsLayout(L), NEW have \in SUBSET Pieces(L)
    PROVE  /\ DownloadedBytes(L, have) \in Nat
           /\ DownloadedBytes(L, have) <= TotalLength(L)
           /\ DownloadedBytes(L, have) = TotalLength(L) <=> have = Pieces(L)
<1> DEFINE c == PieceCount(L)
           terms == [n \in 1..c |-> IF n - 1 \in have THEN PieceSize(L, n - 1) ELSE 0]
           sum == RunningSum(terms)
           full(n) == IF n = 0 THEN 0 ELSE PieceEnd(L, n - 1)
           T == {n \in 0..c : /\ sum[n] \in Nat /\ full(n) \in Nat /\ sum[n] <= full(n)
                              /\ sum[n] = full(n) <=> \A i \in 0..(n - 1) : i \in have}
<1>1. c \in Nat /\ Pieces(L) = 0..(c - 1)
  BY CountFacts DEF Pieces
<1>2. \A n \in 1..c : PieceSize(L, n - 1) \in Nat \ {0}
  BY <1>1, PieceFacts
<1>3. terms \in Seq(Nat) /\ Len(terms) = c
  BY <1>1, <1>2
<1>4. /\ sum[0] = 0
      /\ \A n \in 1..c : sum[n] = sum[n - 1] + terms[n]
  BY <1>1, <1>3, SumSteps
<1>5. ASSUME NEW n \in 1..c
      PROVE  full(n) = full(n - 1) + PieceSize(L, n - 1)
  <2>1. n - 1 \in Pieces(L) /\ PieceEnd(L, n - 1) = PieceStart(L, n - 1) + PieceSize(L, n - 1)
    BY <1>1, PieceFacts
  <2>2. PieceStart(L, n - 1) = full(n - 1)
    <3>1. CASE n = 1
      BY <3>1 DEF PieceStart, IsLayout
    <3>2. CASE n # 1
      <4>1. n - 2 \in Pieces(L) /\ n - 2 # c - 1 /\ n - 2 + 1 = n - 1
        BY <1>1, <3>2
      <4>2. PieceEnd(L, n - 2) = PieceStart(L, n - 1)
        BY <4>1, PieceFacts
      <4> QED
        BY <3>2, <4>2
    <3> QED
      BY <3>1, <3>2
  <2> QED
    BY <2>1, <2>2
<1>6. 0 \in T
  BY <1>1, <1>4
<1>7. ASSUME NEW n \in 1..c, n - 1 \in T
      PROVE  n \in T
  <2>1. sum[n] = sum[n - 1] + (IF n - 1 \in have THEN PieceSize(L, n - 1) ELSE 0)
    BY <1>4
  <2>2. PieceSize(L, n - 1) \in Nat \ {0}
    BY <1>2
  <2>3. /\ sum[n - 1] \in Nat /\ full(n - 1) \in Nat /\ sum[n - 1] <= full(n - 1)
        /\ sum[n - 1] = full(n - 1) <=> \A i \in 0..(n - 2) : i \in have
    BY <1>7
  <2>4. (\A i \in 0..(n - 1) : i \in have) <=> n - 1 \in have /\ \A i \in 0..(n - 2) : i \in have
    BY <1>1
  <2>5. full(n) = full(n - 1) + PieceSize(L, n - 1)
    BY <1>5
  <2> HIDE DEF sum, full
  <2>6. /\ sum[n] \in Nat /\ full(n) \in Nat /\ sum[n] <= full(n)
        /\ sum[n] = full(n) <=> n - 1 \in have /\ sum[n - 1] = full(n - 1)
    BY <2>1, <2>2, <2>3, <2>5
  <2>7. n \in 0..c
    BY <1>1
  <2> QED
    BY <2>3, <2>4, <2>6, <2>7
<1>8. c \in T
  <2> HIDE DEF T, c
  <2>1. 0..c \subseteq T
    BY <1>1, <1>6, <1>7, Induction
  <2> QED
    BY <1>1, <2>1
<1>9. full(c) = TotalLength(L)
  <2>1. CASE c = 0
    BY <2>1, CountFacts
  <2>2. CASE c # 0
    BY <1>1, <2>2, PieceFacts
  <2> QED
    BY <2>1, <2>2
<1>10. (\A i \in 0..(c - 1) : i \in have) <=> have = Pieces(L)
  BY <1>1
<1> QED
  BY <1>8, <1>9, <1>10 DEF DownloadedBytes

(* A peer reports left = 0, and so counts as a seed, exactly when it has   *)
(* every piece; left is never negative.                                    *)
THEOREM LeftIsZeroForSeeds ==
    ASSUME NEW L, IsLayout(L), NEW have \in SUBSET Pieces(L)
    PROVE  Left(L, have) \in Nat /\ (Left(L, have) = 0 <=> have = Pieces(L))
BY DownloadedFacts, TotalIsNatural DEF Left

-----------------------------------------------------------------------------
(* The byte at position x of the content is the x+1st of the stream.       *)
LEMMA StreamFacts ==
    ASSUME NEW L, IsLayout(L)
    PROVE  /\ Stream(L) \in Seq(Files(L) \X Nat)
           /\ Len(Stream(L)) = TotalLength(L)
           /\ \A f \in Files(L) : \A o \in 0..(L.lengths[f] - 1) :
                 Stream(L)[Position(L, f, o) + 1] = <<f, o>>
<1> DEFINE S == Files(L) \X Nat
           seqs == [f \in Files(L) |-> [k \in 1..L.lengths[f] |-> <<f, k - 1>>]]
<1>1. /\ Files(L) = 1..Len(L.lengths) /\ Len(L.lengths) \in Nat
      /\ \A f \in Files(L) : L.lengths[f] \in Nat
      /\ L.lengths = [f \in 1..Len(L.lengths) |-> L.lengths[f]]
  BY DEF Files, IsLayout
<1>2. ASSUME NEW f \in Files(L)
      PROVE  /\ seqs[f] \in Seq(S) /\ Len(seqs[f]) = L.lengths[f]
             /\ \A k \in 1..L.lengths[f] : seqs[f][k] = <<f, k - 1>>
  <2>1. PICK len \in Nat : len = L.lengths[f]
    BY <1>1
  <2> DEFINE t == [k \in 1..len |-> <<f, k - 1>>]
  <2>2. seqs[f] = t
    BY <2>1
  <2>3. \A k \in 1..len : <<f, k - 1>> \in S
    BY <2>1
  <2>4. t \in Seq(S) /\ Len(t) = len /\ \A k \in 1..len : t[k] = <<f, k - 1>>
    <3> HIDE DEF S
    <3> QED
      BY <2>3
  <2> HIDE DEF t, seqs
  <2> QED
    BY <2>1, <2>2, <2>4
<1>3. seqs \in Seq(Seq(S)) /\ Len(seqs) = Len(L.lengths)
  <2>1. seqs = [f \in 1..Len(L.lengths) |-> seqs[f]]
    BY <1>1
  <2>2. \A f \in 1..Len(L.lengths) : seqs[f] \in Seq(S)
    BY <1>1, <1>2
  <2> HIDE DEF seqs
  <2> QED
    BY <1>1, <2>1, <2>2
<1> HIDE DEF seqs
<1>4. Lengths(seqs) = L.lengths
  BY <1>1, <1>2, <1>3 DEF Lengths
<1>5. FlattenSeq(seqs) \in Seq(S) /\ Flattens(FlattenSeq(seqs), seqs, Len(seqs))
  BY <1>3, FlattenFacts
<1>6. FlattenSeq(seqs) = Stream(L)
  BY DEF Stream, seqs
<1>7. Len(Stream(L)) = TotalLength(L)
  BY <1>3, <1>4, <1>5, <1>6 DEF Flattens, TotalLength, Offset
<1>8. ASSUME NEW f \in Files(L), NEW o \in 0..(L.lengths[f] - 1)
      PROVE  Stream(L)[Position(L, f, o) + 1] = <<f, o>>
  <2>1. o + 1 \in 1..L.lengths[f] /\ f \in 1..Len(seqs) /\ Len(seqs[f]) = L.lengths[f] /\ o \in Int
    BY <1>1, <1>2, <1>3
  <2>2. Stream(L)[RunningSum(Lengths(seqs))[f - 1] + (o + 1)] = seqs[f][o + 1]
    BY <1>5, <1>6, <2>1 DEF Flattens
  <2>3. seqs[f][o + 1] = <<f, o>>
    BY <1>2, <2>1
  <2>4. RunningSum(Lengths(seqs))[f - 1] = SegmentStart(L, f) /\ SegmentStart(L, f) \in Nat
    BY <1>4, FileFacts DEF SegmentStart, Offset
  <2>5. Position(L, f, o) + 1 = SegmentStart(L, f) + (o + 1)
    BY <2>1, <2>4 DEF Position
  <2> QED
    BY <2>2, <2>3, <2>4, <2>5
<1> QED
  BY <1>5, <1>6, <1>7, <1>8

(* The i-th slice holds the bytes whose positions lie in piece i.          *)
LEMMA SliceFacts ==
    ASSUME NEW L, IsLayout(L), NEW i \in Pieces(L)
    PROVE  /\ Slice(L, i) \in Seq(Files(L) \X Nat)
           /\ Len(Slice(L, i)) = PieceSize(L, i)
           /\ \A k \in 1..PieceSize(L, i) : Slice(L, i)[k] = Stream(L)[PieceStart(L, i) + k]
<1> DEFINE p == L.pieceLength
           s == Stream(L)
           end == Min({(i + 1) * p, Len(s)})
<1>1. /\ i \in Nat /\ p \in Nat /\ PieceCount(L) \in Nat /\ i < PieceCount(L)
      /\ PieceStart(L, i) \in Nat /\ PieceSize(L, i) \in Nat
      /\ PieceEnd(L, i) = PieceStart(L, i) + PieceSize(L, i)
      /\ PieceEnd(L, i) <= TotalLength(L)
      /\ PieceSize(L, i) <= p
      /\ TotalLength(L) \in Nat
  BY PieceFacts, TotalIsNatural, CountFacts DEF IsLayout
<1>2. s \in Seq(Files(L) \X Nat) /\ Len(s) = TotalLength(L)
  BY StreamFacts
<1>3. (i + 1) * p = PieceStart(L, i) + p /\ (i + 1) * p \in Nat
  BY <1>1 DEF PieceStart
<1>4. end = PieceEnd(L, i)
  <2>1. PieceEnd(L, i) = IF i = PieceCount(L) - 1 THEN TotalLength(L) ELSE (i + 1) * p
    BY PieceFacts DEF PieceStart
  <2>2. PICK q \in Nat : q = (i + 1) * p
    BY <1>3
  <2>3. Min({q, TotalLength(L)}) = IF q <= TotalLength(L) THEN q ELSE TotalLength(L)
    BY <1>1, MinOfTwo
  <2> HIDE DEF p
  <2>4. Min({q, TotalLength(L)}) = PieceEnd(L, i)
    BY <1>1, <1>3, <2>1, <2>2, <2>3
  <2> QED
    BY <1>2, <2>2, <2>4
<1>5. Slice(L, i) = SubSeq(s, PieceStart(L, i) + 1, PieceEnd(L, i))
  BY <1>4 DEF Slice, PieceStart
<1> HIDE DEF s, end
<1>6. /\ PieceStart(L, i) + 1 \in Nat /\ PieceEnd(L, i) \in Nat
      /\ 1 <= PieceStart(L, i) + 1 /\ PieceStart(L, i) + 1 <= PieceEnd(L, i) + 1
      /\ PieceEnd(L, i) <= Len(s)
      /\ PieceEnd(L, i) - (PieceStart(L, i) + 1) + 1 = PieceSize(L, i)
  <2>1. PICK start \in Nat, size1 \in Nat : start = PieceStart(L, i) /\ size1 = PieceSize(L, i)
    BY <1>1
  <2>2. PieceEnd(L, i) = start + size1 /\ PieceEnd(L, i) <= Len(s)
    BY <1>1, <1>2, <2>1
  <2> QED
    BY <2>1, <2>2
<1> DEFINE a == PieceStart(L, i) + 1
           b == PieceEnd(L, i)
<1>7. a \in Nat /\ b \in Nat /\ 1 <= a /\ a <= b + 1 /\ b <= Len(s)
  BY <1>6
<1>8. /\ SubSeq(s, a, b) \in Seq(Files(L) \X Nat)
      /\ Len(SubSeq(s, a, b)) = b - a + 1
      /\ \A k \in 1..(b - a + 1) : SubSeq(s, a, b)[k] = s[a + k - 1]
  <2> HIDE DEF a, b
  <2> QED
    BY ONLY <1>2, <1>7, SubSeqFacts
<1>9. \A k \in 1..PieceSize(L, i) : PieceStart(L, i) + 1 + k - 1 = PieceStart(L, i) + k
  BY <1>1
<1> QED
  BY <1>5, <1>6, <1>8, <1>9 DEF s

-----------------------------------------------------------------------------
(* How much of piece i lies before position x.                             *)
Before(L, i, x) == IF x <= PieceStart(L, i) THEN 0
                   ELSE IF x >= PieceEnd(L, i) THEN PieceSize(L, i)
                   ELSE x - PieceStart(L, i)

ChunkSizes(L, i) ==
    [f \in Files(L) |-> IF Overlaps(L, i, f) THEN ChunkSize(L, i, f) ELSE 0]

LEMMA ChunkSizesFacts ==
    ASSUME NEW L, IsLayout(L), NEW i \in Pieces(L)
    PROVE  /\ ChunkSizes(L, i) \in Seq(Nat)
           /\ Len(ChunkSizes(L, i)) = Len(L.lengths)
           /\ Files(L) = 1..Len(L.lengths)
           /\ Consumed(L, i) = RunningSum(ChunkSizes(L, i))
<1>1. Files(L) = 1..Len(L.lengths) /\ Len(L.lengths) \in Nat
  BY DEF Files, IsLayout
<1>2. \A f \in Files(L) : ChunkSizes(L, i)[f] \in Nat
  BY ChunkFacts DEF ChunkSizes
<1>3. ChunkSizes(L, i) \in Seq(Nat) /\ Len(ChunkSizes(L, i)) = Len(L.lengths)
  <2> DEFINE cs == ChunkSizes(L, i)
             m == Len(L.lengths)
  <2>1. cs = [f \in 1..m |-> cs[f]]
    BY <1>1 DEF ChunkSizes
  <2>2. m \in Nat /\ \A f \in 1..m : cs[f] \in Nat
    BY <1>1, <1>2
  <2> HIDE DEF cs, m
  <2>3. cs \in Seq(Nat) /\ Len(cs) = m
    BY <2>1, <2>2
  <2> QED
    BY <2>3 DEF cs, m
<1>4. Consumed(L, i) = RunningSum(ChunkSizes(L, i))
  BY DEF Consumed, ChunkSizes
<1> QED
  BY <1>1, <1>2, <1>3, <1>4

(* The chunk of one file is what lies in the piece between its ends.       *)
LEMMA ChunkIsBetween ==
    ASSUME NEW L, IsLayout(L), NEW i \in Pieces(L), NEW f \in Files(L)
    PROVE  /\ Before(L, i, SegmentEnd(L, f)) = Before(L, i, SegmentStart(L, f)) + ChunkSizes(L, i)[f]
           /\ Before(L, i, SegmentStart(L, f)) \in Nat
           /\ Overlaps(L, i, f) => Before(L, i, SegmentStart(L, f))
                                      = SegmentStart(L, f) + LocalOffset(L, i, f) - PieceStart(L, i)
<1> DEFINE ps == PieceStart(L, i)
           pe == PieceEnd(L, i)
           n == PieceSize(L, i)
           ss == SegmentStart(L, f)
           se == SegmentEnd(L, f)
           len == L.lengths[f]
<1>1. /\ ps \in Nat /\ pe \in Nat /\ n \in Nat \ {0} /\ pe = ps + n
      /\ se \in Nat
      /\ ss \in Nat /\ len \in Nat /\ se = ss + len
  BY FileFacts, PieceFacts
<1>2. Overlaps(L, i, f) <=> len # 0 /\ ~(se <= ps \/ ss >= pe)
  BY DEF Overlaps
<1>3. LocalOffset(L, i, f) = (IF ps >= ss THEN ps ELSE ss) - ss
  BY <1>1, MaxOfTwo DEF LocalOffset, OverlapStart
<1>4. ChunkSize(L, i, f) = (IF pe <= se THEN pe ELSE se) - (IF ps >= ss THEN ps ELSE ss)
  BY <1>1, MaxOfTwo, MinOfTwo DEF ChunkSize, OverlapStart, OverlapEnd
<1>5. ChunkSizes(L, i)[f] = IF Overlaps(L, i, f) THEN ChunkSize(L, i, f) ELSE 0
  BY DEF ChunkSizes
<1>6. /\ Before(L, i, se) = IF se <= ps THEN 0 ELSE IF se >= pe THEN n ELSE se - ps
      /\ Before(L, i, ss) = IF ss <= ps THEN 0 ELSE IF ss >= pe THEN n ELSE ss - ps
  BY DEF Before
<1> HIDE DEF ps, pe, n, ss, se, len
<1> QED
  <2>1. Before(L, i, se) = Before(L, i, ss) + ChunkSizes(L, i)[f] /\ Before(L, i, ss) \in Nat
    BY <1>1, <1>2, <1>4, <1>5, <1>6
  <2>2. Overlaps(L, i, f) => Before(L, i, ss) = ss + LocalOffset(L, i, f) - ps
    BY <1>1, <1>2, <1>3, <1>6
  <2> QED
    BY <2>1, <2>2 DEF ss, se, ps

(* `consumed` is how much of the piece lies before the file, and in the    *)
(* end the whole piece: _write_virtual never reports a partial write.      *)
LEMMA ConsumedFacts ==
    ASSUME NEW L, IsLayout(L), NEW i \in Pieces(L)
    PROVE  /\ \A f \in Files(L) : Consumed(L, i)[f - 1] = Before(L, i, SegmentStart(L, f))
           /\ Consumed(L, i)[Len(L.lengths)] = PieceSize(L, i)
<1> DEFINE n == Len(L.lengths)
           sum == Consumed(L, i)
           T == {k \in 0..n : sum[k] = Before(L, i, Offset(L)[k])}
<1>1. n \in Nat /\ Files(L) = 1..n
  BY ChunkSizesFacts DEF IsLayout
<1>2. sum[0] = 0 /\ \A f \in 1..n : sum[f] = sum[f - 1] + ChunkSizes(L, i)[f]
  BY <1>1, ChunkSizesFacts, SumSteps
<1>3. Offset(L)[0] = 0
  BY SumSteps DEF Offset, IsLayout
<1>4. 0 \in T
  BY <1>1, <1>2, <1>3, PieceFacts DEF Before
<1>5. ASSUME NEW f \in 1..n, f - 1 \in T
      PROVE  f \in T
  <2>1. f \in Files(L)
    BY <1>1
  <2>2. SegmentEnd(L, f) = Offset(L)[f] /\ SegmentStart(L, f) = Offset(L)[f - 1]
    BY <2>1, FileFacts DEF SegmentStart
  <2>3. Before(L, i, Offset(L)[f]) = Before(L, i, Offset(L)[f - 1]) + ChunkSizes(L, i)[f]
    BY <2>1, <2>2, ChunkIsBetween
  <2> QED
    BY <1>1, <1>2, <1>5, <2>3
<1>6. 0..n \subseteq T
  <2> HIDE DEF T, n
  <2> QED
    BY <1>1, <1>4, <1>5, Induction
<1>7. ASSUME NEW f \in Files(L)
      PROVE  sum[f - 1] = Before(L, i, SegmentStart(L, f))
  <2>1. f - 1 \in 0..n
    BY <1>1
  <2>2. f - 1 \in T
    BY <1>6, <2>1
  <2> QED
    BY <2>2 DEF SegmentStart
<1>8. sum[n] = PieceSize(L, i)
  <2>1. n \in T
    BY <1>1, <1>6
  <2>2. Offset(L)[n] = TotalLength(L)
    BY DEF TotalLength
  <2>3. Before(L, i, TotalLength(L)) = PieceSize(L, i)
    BY PieceFacts, TotalIsNatural DEF Before
  <2> QED
    BY <2>1, <2>2, <2>3
<1> QED
  BY <1>7, <1>8

(* The bytes that _write_virtual takes from the data of the piece for file *)
(* f are those of its chunk: the byte of <<f, o>> is the one at the        *)
(* distance of <<f, o>> from the start of the piece.                       *)
LEMMA WrittenFromFacts ==
    ASSUME NEW L, IsLayout(L), NEW i \in Pieces(L), NEW f \in FilesOf(L, i), NEW o \in Chunk(L, i, f)
    PROVE  /\ WrittenFrom(L, i, f, o) = Position(L, f, o) - PieceStart(L, i) + 1
           /\ WrittenFrom(L, i, f, o) \in 1..PieceSize(L, i)
<1>1. f \in Files(L) /\ Overlaps(L, i, f) /\ o \in 0..(L.lengths[f] - 1)
  BY ChunksLieInTheirFiles DEF FilesOf
<1>2. InPiece(L, i, Position(L, f, o))
  BY <1>1, ChunkFacts
<1>3. WrittenFrom(L, i, f, o)
        = SegmentStart(L, f) + LocalOffset(L, i, f) - PieceStart(L, i) + (o - LocalOffset(L, i, f)) + 1
  BY <1>1, ConsumedFacts, ChunkIsBetween DEF WrittenFrom
<1>4. /\ LocalOffset(L, i, f) \in Nat /\ o \in Nat
      /\ PieceStart(L, i) \in Nat /\ SegmentStart(L, f) \in Nat
      /\ PieceEnd(L, i) = PieceStart(L, i) + PieceSize(L, i) /\ PieceSize(L, i) \in Nat
  BY <1>1, ChunkFacts, FileFacts, PieceFacts
<1>5. WrittenFrom(L, i, f, o) = Position(L, f, o) - PieceStart(L, i) + 1
  BY <1>3, <1>4 DEF Position
<1> QED
  BY <1>2, <1>4, <1>5 DEF InPiece, Position

(* Where _read_virtual puts the bytes: the one at <<f, o>> is found where  *)
(* _write_virtual takes it from.                                           *)
LEMMA ReadFacts ==
    ASSUME NEW L, IsLayout(L), NEW i \in Pieces(L)
    PROVE  /\ ReadVirtual(L, i) \in Seq(Files(L) \X Int)
           /\ Len(ReadVirtual(L, i)) = PieceSize(L, i)
           /\ \A f \in FilesOf(L, i) : \A o \in Chunk(L, i, f) :
                 ReadVirtual(L, i)[WrittenFrom(L, i, f, o)] = <<f, o>>
<1> DEFINE S == Files(L) \X Int
           seqs == [f \in Files(L) |->
                      IF Overlaps(L, i, f)
                      THEN [k \in 1..ChunkSize(L, i, f) |-> <<f, LocalOffset(L, i, f) + k - 1>>]
                      ELSE <<>>]
           cs == ChunkSizes(L, i)
           n == Len(L.lengths)
<1>1. Files(L) = 1..n /\ n \in Nat
  BY DEF Files, IsLayout
<1>2. ASSUME NEW f \in Files(L)
      PROVE  /\ seqs[f] \in Seq(S)
             /\ Len(seqs[f]) = cs[f]
             /\ Overlaps(L, i, f) => /\ cs[f] = ChunkSize(L, i, f)
                                     /\ \A k \in 1..cs[f] : seqs[f][k] = <<f, LocalOffset(L, i, f) + k - 1>>
  <2>1. CASE Overlaps(L, i, f)
    <3>1. ChunkSize(L, i, f) \in Nat /\ LocalOffset(L, i, f) \in Nat
      BY <2>1, ChunkFacts
    <3>2. seqs[f] = [k \in 1..ChunkSize(L, i, f) |-> <<f, LocalOffset(L, i, f) + k - 1>>]
      BY <2>1
    <3>3. cs[f] = ChunkSize(L, i, f)
      BY <2>1 DEF ChunkSizes
    <3> HIDE DEF seqs, cs
    <3>4. \A k \in 1..ChunkSize(L, i, f) : <<f, LocalOffset(L, i, f) + k - 1>> \in S
      BY <3>1
    <3> QED
      BY <3>1, <3>2, <3>3, <3>4
  <2>2. CASE ~Overlaps(L, i, f)
    BY <2>2 DEF ChunkSizes
  <2> QED
    BY <2>1, <2>2
<1>3. seqs \in Seq(Seq(S)) /\ Len(seqs) = n
  <2>1. seqs = [f \in 1..n |-> seqs[f]]
    BY <1>1
  <2> HIDE DEF seqs, n
  <2> QED
    BY <1>1, <1>2, <2>1
<1> HIDE DEF seqs
<1>4. Lengths(seqs) = cs
  <2>1. cs = [f \in 1..n |-> cs[f]]
    BY <1>1 DEF ChunkSizes
  <2> HIDE DEF cs
  <2> QED
    BY <1>1, <1>2, <1>3, <2>1 DEF Lengths
<1>5. FlattenSeq(seqs) \in Seq(S) /\ Flattens(FlattenSeq(seqs), seqs, n)
  BY <1>3, FlattenFacts
<1>6. FlattenSeq(seqs) = ReadVirtual(L, i)
  BY DEF ReadVirtual, seqs
<1>7. RunningSum(Lengths(seqs)) = Consumed(L, i)
  BY <1>4, ChunkSizesFacts
<1>8. Len(ReadVirtual(L, i)) = PieceSize(L, i)
  BY <1>5, <1>6, <1>7, ConsumedFacts DEF Flattens
<1>9. ASSUME NEW f \in FilesOf(L, i), NEW o \in Chunk(L, i, f)
      PROVE  ReadVirtual(L, i)[WrittenFrom(L, i, f, o)] = <<f, o>>
  <2>1. f \in Files(L) /\ Overlaps(L, i, f) /\ f \in 1..n
    BY <1>1 DEF FilesOf
  <2> DEFINE lo == LocalOffset(L, i, f)
             k == o - lo + 1
  <2>2. lo \in Nat /\ ChunkSize(L, i, f) \in Nat /\ cs[f] = ChunkSize(L, i, f) /\ Len(seqs[f]) = cs[f]
    BY <1>2, <2>1, ChunkFacts
  <2>3. o \in Int /\ k \in 1..Len(seqs[f]) /\ lo + k - 1 = o
    BY <2>2 DEF Chunk
  <2>4. seqs[f][k] = <<f, o>>
    <3> HIDE DEF lo, k, cs
    <3>1. seqs[f][k] = <<f, lo + k - 1>>
      BY <1>2, <2>1, <2>2, <2>3 DEF lo
    <3> QED
      BY <2>3, <3>1
  <2>5. ReadVirtual(L, i)[Consumed(L, i)[f - 1] + k] = seqs[f][k]
    BY <1>5, <1>6, <1>7, <2>1, <2>3 DEF Flattens
  <2>6. WrittenFrom(L, i, f, o) = Consumed(L, i)[f - 1] + k
    <3>1. Consumed(L, i)[f - 1] \in Nat
      BY <2>1, ConsumedFacts, ChunkIsBetween
    <3> QED
      BY <2>2, <2>3, <3>1 DEF WrittenFrom
  <2> QED
    BY <2>4, <2>5, <2>6
<1> QED
  BY <1>5, <1>6, <1>8, <1>9

(* Each place in the data of a piece holds the byte of some file.          *)
LEMMA PlaceHasByte ==
    ASSUME NEW L, IsLayout(L), NEW i \in Pieces(L), NEW k \in 1..PieceSize(L, i)
    PROVE  \E f \in FilesOf(L, i) : \E o \in Chunk(L, i, f) :
              /\ o \in 0..(L.lengths[f] - 1)
              /\ Position(L, f, o) = PieceStart(L, i) + k - 1
              /\ WrittenFrom(L, i, f, o) = k
<1> DEFINE x == PieceStart(L, i) + k - 1
<1>1. /\ PieceStart(L, i) \in Nat /\ PieceSize(L, i) \in Nat /\ k \in Nat
      /\ PieceEnd(L, i) = PieceStart(L, i) + PieceSize(L, i)
      /\ PieceEnd(L, i) <= TotalLength(L) /\ TotalLength(L) \in Nat
  BY PieceFacts, TotalIsNatural
<1>2. x \in Nat /\ x < TotalLength(L) /\ InPiece(L, i, x)
  BY <1>1 DEF InPiece
<1>3. PICK f \in Files(L) : SegmentStart(L, f) <= x /\ x < SegmentEnd(L, f)
  BY <1>2, PositionHasFile
<1> DEFINE o == x - SegmentStart(L, f)
<1>4. o \in 0..(L.lengths[f] - 1) /\ Position(L, f, o) = x
  BY <1>2, <1>3, FileFacts DEF Position
<1> HIDE DEF o
<1>5. f \in FilesOf(L, i) /\ o \in Chunk(L, i, f)
  BY <1>2, <1>4, ChunkFacts DEF FilesOf
<1>6. WrittenFrom(L, i, f, o) = k
  BY <1>1, <1>4, <1>5, WrittenFromFacts
<1> QED
  BY <1>4, <1>5, <1>6

(* What PieceManager reads as piece i is the i-th slice of the files' bytes*)
(* put one after the other, in the same order.                             *)
THEOREM ReaderReadsTheSlice ==
    ASSUME NEW L, IsLayout(L), NEW i \in Pieces(L)
    PROVE  ReadVirtual(L, i) = Slice(L, i)
<1> DEFINE r == ReadVirtual(L, i)
           s == Slice(L, i)
           n == PieceSize(L, i)
<1>1. n \in Nat /\ r \in Seq(Files(L) \X Int) /\ Len(r) = n
  <2>1. n \in Nat
    BY PieceFacts
  <2>2. r \in Seq(Files(L) \X Int) /\ Len(r) = n
    BY ReadFacts, Zenon
  <2> QED
    BY <2>1, <2>2
<1>2. s \in Seq(Files(L) \X Nat) /\ Len(s) = n
  BY SliceFacts
<1>3. ASSUME NEW k \in 1..n
      PROVE  r[k] = s[k]
  <2>0. PICK f \in FilesOf(L, i) : \E o \in Chunk(L, i, f) :
              /\ o \in 0..(L.lengths[f] - 1)
              /\ Position(L, f, o) = PieceStart(L, i) + k - 1
              /\ WrittenFrom(L, i, f, o) = k
    BY PlaceHasByte
  <2>1. PICK o \in Chunk(L, i, f) :
              /\ o \in 0..(L.lengths[f] - 1)
              /\ Position(L, f, o) = PieceStart(L, i) + k - 1
              /\ WrittenFrom(L, i, f, o) = k
    BY <2>0
  <2>2. r[k] = <<f, o>>
    BY <2>1, ReadFacts
  <2>3. s[k] = Stream(L)[PieceStart(L, i) + k]
    BY SliceFacts
  <2>4. PieceStart(L, i) + k = Position(L, f, o) + 1
    BY <1>1, <2>1, PieceFacts
  <2>5. f \in Files(L)
    BY DEF FilesOf
  <2>6. Stream(L)[Position(L, f, o) + 1] = <<f, o>>
    BY <2>1, <2>5, StreamFacts
  <2> QED
    BY <2>2, <2>3, <2>4, <2>6
<1> HIDE DEF r, s, n
<1>4. r = s
  BY <1>1, <1>2, <1>3
<1> QED
  BY <1>4 DEF r, s

(* _write_virtual puts each byte where _read_virtual will read it, and     *)
(* takes the whole piece: each place of its data goes to some file.        *)
THEOREM WriterInvertsReader ==
    ASSUME NEW L, IsLayout(L), NEW i \in Pieces(L)
    PROVE  /\ \A f \in FilesOf(L, i) : \A o \in Chunk(L, i, f) :
                 /\ WrittenFrom(L, i, f, o) \in 1..PieceSize(L, i)
                 /\ ReadVirtual(L, i)[WrittenFrom(L, i, f, o)] = <<f, o>>
           /\ \A k \in 1..PieceSize(L, i) : \E f \in FilesOf(L, i) : \E o \in Chunk(L, i, f) :
                 WrittenFrom(L, i, f, o) = k
BY ReadFacts, WrittenFromFacts, PlaceHasByte

-----------------------------------------------------------------------------
(* The generator reads the files as one stream and cuts it: what it has    *)
(* read is in the hashes and the buffer, in order.                         *)
LayoutInv ==
    /\ IsLayout(layout)
    /\ Len(layout.lengths) # 0
    /\ layout = [lengths |-> layout.lengths, pieceLength |-> layout.pieceLength]
    /\ names \in Namings(Len(layout.lengths))

Reading == stage \in {"reading", "cutting"}

(* Where in the files calculate_piece_hashes is.                           *)
PlaceInv ==
    /\ file \in 1..(Len(layout.lengths) + 1)
    /\ offset \in Nat
    /\ IF file \in Files(layout) THEN offset <= layout.lengths[file] ELSE offset = 0

BytesRead == Offset(layout)[file - 1] + offset

(* The buffer holds the bytes after those of the hashed pieces, and less   *)
(* than a piece of them when the next chunk is read.                       *)
BufferInv ==
    /\ buffer \in Seq(Bytes)
    /\ BytesRead = Len(hashes) * layout.pieceLength + Len(buffer)
    /\ \A k \in 1..Len(buffer) : buffer[k] = Stream(layout)[Len(hashes) * layout.pieceLength + k]
    /\ stage = "reading" => Len(buffer) < layout.pieceLength

(* Until the files are read, every hash is of a full piece.                *)
FullPieces ==
    \A j \in 1..Len(hashes) :
        /\ Len(hashes[j]) = layout.pieceLength
        /\ \A k \in 1..layout.pieceLength :
              hashes[j][k] = Stream(layout)[(j - 1) * layout.pieceLength + k]

(* Afterwards there is a hash for each slice of the content.               *)
Hashed ==
    /\ Len(hashes) = PieceCount(layout)
    /\ \A i \in Pieces(layout) : hashes[i + 1] = Slice(layout, i)

HashingInv ==
    /\ LayoutInv
    /\ hashes \in Seq(Seq(Bytes))
    /\ IF Reading THEN PlaceInv /\ BufferInv /\ FullPieces ELSE Hashed

LEMMA HashingInit == GeneratorInit => HashingInv
<1> SUFFICES ASSUME GeneratorInit PROVE HashingInv
  OBVIOUS
<1> USE DEF GeneratorInit
<1>1. LayoutInv
  BY LayoutsAreSound DEF LayoutInv, IsLayout
<1>2. /\ Reading /\ hashes \in Seq(Seq(Bytes)) /\ buffer \in Seq(Bytes)
      /\ Len(hashes) = 0 /\ Len(buffer) = 0
  BY DEF Reading
<1>3. PlaceInv
  BY <1>1 DEF PlaceInv, LayoutInv, IsLayout, Files
<1>4. Offset(layout)[0] = 0
  BY <1>1, SumSteps DEF LayoutInv, IsLayout, Offset
<1>5. BufferInv /\ FullPieces
  BY <1>1, <1>2, <1>4 DEF BufferInv, BytesRead, FullPieces, LayoutInv, IsLayout
<1> QED
  BY <1>1, <1>2, <1>3, <1>5 DEF HashingInv

LEMMA ReadChunkStep == HashingInv /\ ReadChunk => HashingInv'
<1> SUFFICES ASSUME HashingInv, ReadChunk PROVE HashingInv'
  OBVIOUS
<1> DEFINE p == layout.pieceLength
           len == layout.lengths[file]
           n == Min({ReadSize, len - offset})
           chunk == [k \in 1..n |-> <<file, offset + k - 1>>]
           base == Len(hashes) * p
           b == Len(buffer)
<1>1. /\ LayoutInv /\ hashes \in Seq(Seq(Bytes)) /\ PlaceInv /\ BufferInv /\ FullPieces
      /\ file \in Files(layout) /\ n > 0 /\ buffer' = buffer \o chunk /\ offset' = offset + n
      /\ stage' = "cutting" /\ UNCHANGED <<layout, names, file, hashes>>
  BY DEF HashingInv, ReadChunk, Reading
<1>2. /\ IsLayout(layout) /\ p \in Nat /\ Len(hashes) \in Nat /\ b \in Nat /\ offset \in Nat
      /\ file \in 1..Len(layout.lengths) /\ len \in Nat /\ offset <= len
  <2>1. IsLayout(layout)
    BY <1>1 DEF LayoutInv
  <2>2. file \in 1..Len(layout.lengths) /\ len \in Nat
    BY <1>1, <2>1, FileFacts
  <2>3. offset \in Nat /\ offset <= len /\ buffer \in Seq(Bytes)
    BY <1>1 DEF PlaceInv, BufferInv
  <2> QED
    BY <1>1, <2>1, <2>2, <2>3 DEF IsLayout
<1>3. base \in Nat
  BY <1>2
<1> HIDE DEF p, base, b, len
<1>4. n \in Nat /\ offset + n <= len
  <2>1. n = IF ReadSize <= len - offset THEN ReadSize ELSE len - offset
    BY <1>2, MinOfTwo, ReadSizeIsPositive
  <2> HIDE DEF n
  <2> QED
    BY <1>1, <1>2, <2>1, ReadSizeIsPositive
<1> HIDE DEF n
<1>5. PlaceInv'
  BY <1>1, <1>2, <1>4 DEF PlaceInv, Files, len
<1>6. chunk \in Seq(Bytes) /\ Len(chunk) = n /\ \A k \in 1..n : chunk[k] = <<file, offset + k - 1>>
  BY <1>2, <1>4 DEF Bytes
<1> HIDE DEF chunk
<1>7. /\ buffer' \in Seq(Bytes) /\ Len(buffer') = b + n
      /\ \A k \in 1..(b + n) : buffer'[k] = IF k <= b THEN buffer[k] ELSE chunk[k - b]
  <2>1. buffer \in Seq(Bytes)
    BY <1>1 DEF BufferInv
  <2>2. /\ buffer \o chunk \in Seq(Bytes) /\ Len(buffer \o chunk) = b + n
        /\ \A k \in 1..(b + n) : (buffer \o chunk)[k] = IF k <= b THEN buffer[k] ELSE chunk[k - b]
    BY <1>6, <2>1, JoinFacts, Zenon DEF b
  <2> QED
    BY <1>1, <2>2
<1>8. BytesRead = SegmentStart(layout, file) + offset /\ SegmentStart(layout, file) \in Nat
  BY <1>1, <1>2, FileFacts DEF BytesRead, SegmentStart
<1>9. BytesRead = base + b
  BY <1>1 DEF BufferInv, base, b, p
<1>10. ASSUME NEW k \in 1..(b + n)
      PROVE  buffer'[k] = Stream(layout)[base + k]
  <2>1. CASE k <= b
    BY <1>1, <1>2, <1>4, <1>7, <2>1 DEF BufferInv, base, b, p
  <2>2. CASE ~(k <= b)
    <3> DEFINE o == offset + (k - b) - 1
    <3>1. k - b \in 1..n /\ o \in 0..(len - 1)
      BY <1>2, <1>4, <2>2
    <3>2. buffer'[k] = <<file, o>>
      BY <1>6, <1>7, <2>2, <3>1
    <3>3. Stream(layout)[Position(layout, file, o) + 1] = <<file, o>>
      BY <1>1, <1>2, <3>1, StreamFacts DEF len
    <3>4. Position(layout, file, o) + 1 = base + k
      BY <1>2, <1>3, <1>4, <1>8, <1>9 DEF Position
    <3> QED
      BY <3>2, <3>3, <3>4
  <2> QED
    BY <2>1, <2>2
<1>11. BytesRead' = base + (b + n)
  <2>1. BytesRead' = SegmentStart(layout, file) + offset'
    BY <1>1 DEF BytesRead, SegmentStart
  <2>2. offset' = offset + n
    BY <1>1
  <2> QED
    BY <1>2, <1>3, <1>4, <1>8, <1>9, <2>1, <2>2
<1>12. BufferInv'
  BY <1>1, <1>7, <1>10, <1>11 DEF BufferInv, base, p
<1>13. LayoutInv' /\ FullPieces' /\ Reading'
  BY <1>1 DEF LayoutInv, FullPieces, Reading
<1> QED
  BY <1>1, <1>5, <1>12, <1>13 DEF HashingInv

LEMMA EndOfFileStep == HashingInv /\ EndOfFile => HashingInv'
<1> SUFFICES ASSUME HashingInv, EndOfFile PROVE HashingInv'
  OBVIOUS
<1> DEFINE count == Len(layout.lengths)
<1>1. /\ LayoutInv /\ hashes \in Seq(Seq(Bytes)) /\ PlaceInv /\ BufferInv /\ FullPieces
      /\ stage = "reading" /\ file \in Files(layout)
      /\ offset = layout.lengths[file] /\ file' = file + 1 /\ offset' = 0
      /\ UNCHANGED <<layout, names, stage, buffer, hashes>>
  BY DEF HashingInv, EndOfFile, Reading
<1>2. IsLayout(layout)
  BY <1>1 DEF LayoutInv
<1>3. file \in 1..count /\ count \in Nat /\ Files(layout) = 1..count
  BY <1>1, <1>2 DEF IsLayout, Files
<1>4. file' \in 1..(count + 1) /\ \A f \in Files(layout) : layout.lengths[f] \in Nat
  BY <1>1, <1>2, <1>3, FileFacts
<1>5. PlaceInv'
  <2>1. file' \in Files(layout) => 0 <= layout.lengths[file']
    BY <1>4
  <2> QED
    BY <1>1, <1>4, <2>1 DEF PlaceInv, Files
<1>6. BytesRead' = BytesRead
  <2>1. /\ SegmentStart(layout, file) \in Nat /\ layout.lengths[file] \in Nat
        /\ Offset(layout)[file] = SegmentStart(layout, file) + layout.lengths[file]
    BY <1>1, <1>2, FileFacts
  <2>2. file' - 1 = file
    BY <1>1, <1>3
  <2>3. BytesRead' = Offset(layout)[file] + 0
    BY <1>1, <2>2 DEF BytesRead
  <2>4. BytesRead = SegmentStart(layout, file) + layout.lengths[file]
    BY <1>1 DEF BytesRead, SegmentStart
  <2> QED
    BY <2>1, <2>3, <2>4
<1>7. BufferInv'
  BY <1>1, <1>6 DEF BufferInv
<1>8. LayoutInv' /\ FullPieces' /\ Reading'
  BY <1>1 DEF LayoutInv, FullPieces, Reading
<1> QED
  BY <1>1, <1>5, <1>7, <1>8 DEF HashingInv

LEMMA NextProduct == ASSUME NEW h \in Nat, NEW p \in Nat PROVE (h + 1) * p = h * p + p
OBVIOUS

LEMMA CutPieceStep == HashingInv /\ CutPiece => HashingInv'
<1> SUFFICES ASSUME HashingInv, CutPiece PROVE HashingInv'
  OBVIOUS
<1> DEFINE p == layout.pieceLength
           h == Len(hashes)
           b == Len(buffer)
           head == SubSeq(buffer, 1, p)
           rest == SubSeq(buffer, p + 1, b)
           base == h * p
<1>1. /\ LayoutInv /\ hashes \in Seq(Seq(Bytes)) /\ PlaceInv /\ BufferInv /\ FullPieces
      /\ b >= p /\ stage = "cutting" /\ hashes' = Append(hashes, head) /\ buffer' = rest
      /\ UNCHANGED <<layout, names, stage, file, offset>>
  BY DEF HashingInv, CutPiece, Reading
<1>2. /\ buffer \in Seq(Bytes) /\ BytesRead = base + b
      /\ \A k \in 1..b : buffer[k] = Stream(layout)[base + k]
  BY <1>1 DEF BufferInv
<1>3. p \in Nat \ {0} /\ h \in Nat /\ b \in Nat
  BY <1>1, <1>2 DEF LayoutInv, IsLayout
<1>4. base \in Nat /\ (h + 1) * p = base + p
  BY <1>3, NextProduct
<1> HIDE DEF p, h, b, base
<1>5. /\ head \in Seq(Bytes) /\ Len(head) = p /\ \A k \in 1..p : head[k] = buffer[k]
  <2>1. 1 \in Nat /\ p \in Nat /\ 1 <= 1 /\ 1 <= p + 1 /\ p <= Len(buffer)
    BY <1>1, <1>3 DEF b
  <2>2. /\ head \in Seq(Bytes) /\ Len(head) = p - 1 + 1
        /\ \A k \in 1..(p - 1 + 1) : head[k] = buffer[1 + k - 1]
    BY <1>2, <2>1, SubSeqFacts
  <2> HIDE DEF head
  <2> QED
    BY <1>3, <2>2
<1>6. /\ rest \in Seq(Bytes) /\ Len(rest) = b - p /\ \A k \in 1..(b - p) : rest[k] = buffer[p + k]
  <2>1. p + 1 \in Nat /\ b \in Nat /\ 1 <= p + 1 /\ p + 1 <= b + 1 /\ b <= Len(buffer)
    BY <1>1, <1>3 DEF b
  <2>2. /\ rest \in Seq(Bytes) /\ Len(rest) = b - (p + 1) + 1
        /\ \A k \in 1..(b - (p + 1) + 1) : rest[k] = buffer[p + 1 + k - 1]
    BY <1>2, <2>1, SubSeqFacts
  <2> HIDE DEF rest
  <2>3. b - (p + 1) + 1 = b - p /\ \A k \in 1..(b - p) : p + 1 + k - 1 = p + k
    BY <1>1, <1>3
  <2> QED
    BY <2>2, <2>3
<1> HIDE DEF head, rest
<1>7. /\ hashes' \in Seq(Seq(Bytes)) /\ Len(hashes') = h + 1
      /\ \A j \in 1..h : hashes'[j] = hashes[j]
      /\ hashes'[h + 1] = head
  BY <1>1, <1>5, AppendFacts DEF h
<1>8. FullPieces'
  <2> SUFFICES ASSUME NEW j \in 1..(h + 1)
               PROVE  /\ Len(hashes'[j]) = p
                      /\ \A k \in 1..p : hashes'[j][k] = Stream(layout)[(j - 1) * p + k]
    BY <1>1, <1>7 DEF FullPieces, p
  <2>1. CASE j = h + 1
    <3>1. (j - 1) * p = base
      BY <1>3, <2>1 DEF base
    <3>2. \A k \in 1..p : k \in 1..b
      BY <1>1, <1>3
    <3> QED
      BY <1>2, <1>5, <1>7, <2>1, <3>1, <3>2
  <2>2. CASE j # h + 1
    <3>1. j \in 1..h
      BY <1>3, <2>2
    <3> QED
      BY <1>1, <1>7, <3>1 DEF FullPieces, p, h
  <2> QED
    BY <2>1, <2>2
<1>9. BufferInv'
  <2>1. BytesRead' = BytesRead
    BY <1>1 DEF BytesRead
  <2>2. BytesRead' = (h + 1) * p + (b - p)
    BY <1>1, <1>2, <1>3, <1>4, <2>1
  <2>3. ASSUME NEW k \in 1..(b - p) PROVE buffer'[k] = Stream(layout)[(h + 1) * p + k]
    <3>1. p + k \in 1..b /\ base + (p + k) = (h + 1) * p + k
      BY <1>1, <1>3, <1>4
    <3> QED
      BY <1>1, <1>2, <1>6, <3>1
  <2> QED
    BY <1>1, <1>6, <1>7, <2>2, <2>3 DEF BufferInv, p
<1>10. LayoutInv' /\ PlaceInv' /\ Reading'
  BY <1>1 DEF LayoutInv, PlaceInv, Reading
<1> QED
  BY <1>1, <1>7, <1>8, <1>9, <1>10 DEF HashingInv

(* h full pieces and r < p bytes more make h pieces, or h + 1.             *)
LEMMA CountByDivision ==
    ASSUME NEW L, IsLayout(L), NEW h \in Nat, NEW r \in Nat, r < L.pieceLength,
           TotalLength(L) = h * L.pieceLength + r
    PROVE  PieceCount(L) = IF r = 0 THEN h ELSE h + 1
<1> DEFINE p == L.pieceLength
           t == TotalLength(L)
           c == PieceCount(L)
<1>1. /\ p \in Nat \ {0} /\ t \in Nat /\ c \in Nat /\ t = h * p + r /\ r < p
      /\ t <= c * p /\ (c # 0 => (c - 1) * p < t) /\ (c = 0 <=> t = 0)
  BY CountFacts, TotalIsNatural DEF IsLayout
<1> HIDE DEF p, t, c
<1>2. ASSUME NEW x \in Nat, NEW y \in Nat, x < y PROVE x * p + p <= y * p
  <2>1. PICK d \in Nat : y = x + 1 + d
    <3>1. y - x - 1 \in Nat /\ y = x + 1 + (y - x - 1)
      BY <1>2
    <3> QED
      BY <3>1
  <2>2. y * p = x * p + p + d * p /\ d * p \in Nat /\ x * p \in Nat
    BY <1>1, <2>1
  <2> QED
    BY <1>1, <2>2
<1>3. h * p \in Nat /\ c * p \in Nat
  BY <1>1
<1>4. ~(c < h)
  <2> SUFFICES ASSUME c < h PROVE FALSE
    OBVIOUS
  <2> QED
    BY <1>1, <1>2, <1>3
<1>5. r # 0 => c # h
  BY <1>1, <1>3
<1>6. ~(h + 1 < c)
  <2> SUFFICES ASSUME h + 1 < c PROVE FALSE
    OBVIOUS
  <2>1. c - 1 \in Nat /\ h < c - 1 /\ (c - 1) * p \in Nat
    BY <1>1
  <2>2. h * p + p <= (c - 1) * p
    BY <1>2, <2>1
  <2> QED
    BY <1>1, <1>3, <2>1, <2>2
<1>7. r = 0 => c # h + 1
  <2> SUFFICES ASSUME r = 0, c = h + 1 PROVE FALSE
    OBVIOUS
  <2>1. c - 1 = h /\ c # 0
    BY <1>1
  <2> QED
    BY <1>1, <1>3, <2>1
<1>8. c = IF r = 0 THEN h ELSE h + 1
  BY <1>1, <1>4, <1>5, <1>6, <1>7
<1> QED
  BY <1>8 DEF c

LEMMA FlushStep == HashingInv /\ Flush => HashingInv'
<1> SUFFICES ASSUME HashingInv, Flush PROVE HashingInv'
  OBVIOUS
<1> DEFINE p == layout.pieceLength
           h == Len(hashes)
           b == Len(buffer)
           base == h * p
<1>1. /\ LayoutInv /\ hashes \in Seq(Seq(Bytes)) /\ PlaceInv /\ BufferInv /\ FullPieces
      /\ stage = "reading" /\ stage' = "done" /\ file \notin Files(layout)
      /\ hashes' = IF buffer # <<>> THEN Append(hashes, buffer) ELSE hashes
      /\ UNCHANGED <<layout, names>>
  BY DEF HashingInv, Flush, Reading
<1>2. /\ buffer \in Seq(Bytes) /\ BytesRead = base + b /\ b < p
      /\ \A k \in 1..b : buffer[k] = Stream(layout)[base + k]
  BY <1>1 DEF BufferInv
<1>3. IsLayout(layout) /\ p \in Nat \ {0} /\ h \in Nat /\ b \in Nat /\ Len(layout.lengths) \in Nat
  BY <1>1, <1>2 DEF LayoutInv, IsLayout
<1>4. base \in Nat /\ \A x \in Nat : (x + 1) * p = x * p + p
  BY <1>3, NextProduct
<1>5. TotalLength(layout) = base + b
  <2>1. file = Len(layout.lengths) + 1 /\ offset = 0
    BY <1>1, <1>3 DEF PlaceInv, Files, IsLayout
  <2>2. file - 1 = Len(layout.lengths) /\ TotalLength(layout) \in Nat
    BY <1>3, <2>1, TotalIsNatural
  <2>3. BytesRead = TotalLength(layout) + 0
    BY <2>1, <2>2 DEF BytesRead, TotalLength
  <2> QED
    BY <1>2, <2>2, <2>3
<1>6. PieceCount(layout) = IF b = 0 THEN h ELSE h + 1
  BY <1>2, <1>3, <1>5, CountByDivision
<1> HIDE DEF p, h, b, base
<1>7. /\ hashes' \in Seq(Seq(Bytes)) /\ Len(hashes') = PieceCount(layout)
      /\ \A j \in 1..h : hashes'[j] = hashes[j]
      /\ b # 0 => hashes'[h + 1] = buffer
  <2>1. CASE b = 0
    <3>1. buffer = <<>>
      BY <1>2, <2>1 DEF b
    <3> QED
      BY <1>1, <1>6, <2>1, <3>1 DEF h
  <2>2. CASE b # 0
    <3>1. hashes' = Append(hashes, buffer)
      BY <1>1, <2>2 DEF b
    <3> QED
      BY <1>1, <1>2, <1>6, <2>2, <3>1, AppendFacts DEF h
  <2> QED
    BY <2>1, <2>2
<1>8. ASSUME NEW i \in Pieces(layout)
      PROVE  hashes'[i + 1] = Slice(layout, i)
  <2> DEFINE cut == hashes'[i + 1]
             slice == Slice(layout, i)
             n == PieceSize(layout, i)
  <2>1. /\ i \in Nat /\ i < PieceCount(layout) /\ PieceCount(layout) \in Nat /\ n \in Nat
        /\ n = IF i < PieceCount(layout) - 1
               THEN p
               ELSE TotalLength(layout) - p * (PieceCount(layout) - 1)
        /\ PieceStart(layout, i) = i * p
    BY <1>3, PieceFacts, CountFacts DEF PieceSize, PieceStart, p
  <2>2. /\ slice \in Seq(Files(layout) \X Nat) /\ Len(slice) = n
        /\ \A k \in 1..n : slice[k] = Stream(layout)[i * p + k]
    BY <1>3, <2>1, SliceFacts
  <2> HIDE DEF slice, n
  <2>3. i < h \/ (i = h /\ b # 0)
    BY <1>3, <1>6, <2>1
  <2>4. /\ cut \in Seq(Bytes) /\ Len(cut) = n
        /\ \A k \in 1..n : cut[k] = Stream(layout)[i * p + k]
    <3>1. CASE i < h
      <4>1. i + 1 \in 1..h /\ i + 1 - 1 = i
        BY <1>3, <2>1, <3>1
      <4>2. cut = hashes[i + 1] /\ hashes[i + 1] \in Seq(Bytes)
        BY <1>1, <1>7, <4>1 DEF h
      <4>3. Len(cut) = p /\ \A k \in 1..p : cut[k] = Stream(layout)[i * p + k]
        <5>1. FullPieces
          BY <1>1
        <5>2. PICK j \in 1..h : j = i + 1 /\ j - 1 = i
          BY <2>1, <4>1
        <5>3. Len(hashes[j]) = p /\ \A k \in 1..p : hashes[j][k] = Stream(layout)[(j - 1) * p + k]
          BY <5>1 DEF FullPieces, p, h
        <5> QED
          BY <4>2, <5>2, <5>3
      <4>4. n = p
        <5>1. CASE i < PieceCount(layout) - 1
          BY <2>1, <5>1
        <5>2. CASE ~(i < PieceCount(layout) - 1)
          <6>1. b = 0 /\ PieceCount(layout) = h /\ PieceCount(layout) - 1 = h - 1
            BY <1>3, <1>6, <2>1, <3>1, <5>2
          <6>2. h - 1 \in Nat /\ h - 1 + 1 = h
            BY <1>3, <2>1, <3>1
          <6>3. base = (h - 1) * p + p /\ p * (h - 1) = (h - 1) * p /\ (h - 1) * p \in Nat
            <7>1. PICK q \in Nat : q = h - 1
              BY <6>2
            <7>2. (q + 1) * p = q * p + p /\ p * q = q * p /\ q * p \in Nat
              BY <1>3, NextProduct
            <7> QED
              BY <6>2, <7>1, <7>2 DEF base
          <6> QED
            BY <1>3, <1>5, <2>1, <5>2, <6>1, <6>3
        <5> QED
          BY <5>1, <5>2
      <4> QED
        BY <4>2, <4>3, <4>4
    <3>2. CASE i = h /\ b # 0
      <4>1. PieceCount(layout) - 1 = h /\ ~(i < PieceCount(layout) - 1)
        BY <1>3, <1>6, <3>2
      <4>2. p * h = base
        BY <1>3 DEF base
      <4>3. n = b
        BY <1>3, <1>4, <1>5, <2>1, <4>1, <4>2
      <4>4. cut = buffer /\ i * p = base
        BY <1>7, <3>2 DEF base
      <4> QED
        BY <1>2, <4>3, <4>4 DEF b
    <3> QED
      BY <2>3, <3>1, <3>2
  <2> HIDE DEF cut
  <2>5. \A k \in 1..n : cut[k] = slice[k]
    BY <2>2, <2>4
  <2>6. cut = slice
    <3>1. cut = [k \in 1..n |-> cut[k]]
      BY <2>4
    <3>2. slice = [k \in 1..n |-> slice[k]]
      BY <2>2
    <3> QED
      BY <2>5, <3>1, <3>2, Zenon
  <2> QED
    BY <2>6 DEF cut, slice
<1>9. LayoutInv' /\ Hashed' /\ ~Reading'
  BY <1>1, <1>7, <1>8 DEF LayoutInv, Hashed, Reading
<1> QED
  BY <1>7, <1>9 DEF HashingInv

LEMMA HashingStep == HashingInv /\ [GeneratorNext]_generatorVars => HashingInv'
<1> SUFFICES ASSUME HashingInv, [GeneratorNext]_generatorVars PROVE HashingInv'
  OBVIOUS
<1>1. ASSUME UNCHANGED hashing, Reading' = Reading,
             stage' = "reading" => stage = "reading" \/ Len(buffer) < layout.pieceLength
      PROVE  HashingInv'
  BY <1>1 DEF HashingInv, LayoutInv, PlaceInv, BufferInv, FullPieces, Hashed, BytesRead, hashing
<1>2. CASE ReadChunk
  BY <1>2, ReadChunkStep
<1>3. CASE EndOfFile
  BY <1>3, EndOfFileStep
<1>4. CASE CutPiece
  BY <1>4, CutPieceStep
<1>5. CASE ReadOn
  BY <1>1, <1>5 DEF ReadOn, Reading
<1>6. CASE Flush
  BY <1>6, FlushStep
<1>7. CASE CreateMetainfo
  BY <1>1, <1>7 DEF CreateMetainfo, Reading
<1>8. CASE EditByHand
  BY <1>1, <1>8 DEF EditByHand, Reading
<1>9. CASE Load
  BY <1>1, <1>9 DEF Load, Reading
<1>10. CASE UNCHANGED generatorVars
  BY <1>1, <1>10 DEF generatorVars, hashing, Reading
<1> QED
  BY <1>2, <1>3, <1>4, <1>5, <1>6, <1>7, <1>8, <1>9, <1>10 DEF GeneratorNext

LEMMA HashingAlways == GeneratorSpec => []HashingInv
<1>1. GeneratorInit => HashingInv
  BY HashingInit
<1>2. HashingInv /\ [GeneratorNext]_generatorVars => HashingInv'
  BY HashingStep
<1> QED
  BY <1>1, <1>2, PTL DEF GeneratorSpec

-----------------------------------------------------------------------------
(* The document: its list of files is a list, unless it is no value at all,*)
(* and what was loaded was accepted.                                       *)
HasShape(doc) == IsSingle(doc) \/ doc.files = Odd \/ \E n \in Nat : DOMAIN doc.files = 1..n

DocumentInv ==
    /\ stage \in {"written", "loaded", "refused"} => ~Reading /\ HasShape(document)
    /\ stage = "loaded" => Accepts(document)
    /\ stage = "refused" => ~Accepts(document)

LEMMA NamesFacts ==
    ASSUME LayoutInv
    PROVE  /\ Len(layout.lengths) \in Nat \ {0}
           /\ names \in Seq(Names) /\ Len(names) = Len(layout.lengths)
           /\ DOMAIN names = 1..Len(layout.lengths)
           /\ names # <<>>
<1>1. Len(layout.lengths) \in Nat \ {0}
  BY DEF LayoutInv, IsLayout
<1> DEFINE n == Len(layout.lengths)
<1>2. names \in [1..n -> Names]
  <2>1. names \in Namings(n)
    BY DEF LayoutInv
  <2> HIDE DEF n
  <2> QED
    BY <2>1 DEF Namings, Names
<1> QED
  BY <1>1, <1>2

LEMMA DocumentShape ==
    ASSUME LayoutInv, NEW sizes, NEW pieceLength, NEW pieces
    PROVE  HasShape(Document(names, sizes, pieceLength, pieces))
BY NamesFacts DEF Document, HasShape, IsSingle

LEMMA EditShape ==
    ASSUME LayoutInv, NEW d \in Edits(AsHashed)
    PROVE  HasShape(d)
<1> DEFINE doc == AsHashed
           files == doc.files
<1>1. /\ doc = [announce |-> doc.announce, name |-> doc.name, length |-> doc.length,
                files |-> files, pieceLength |-> doc.pieceLength, hashes |-> doc.hashes]
      /\ IsSingle(doc) \/ \E n \in Nat : DOMAIN doc.files = 1..n
  BY NamesFacts DEF AsHashed, Document, IsSingle
<1> HIDE DEF doc
<1>2. \/ \E v : \/ d = [doc EXCEPT !.announce = v]
                \/ d = [doc EXCEPT !.name = v]
                \/ d = [doc EXCEPT !.pieceLength = v]
                \/ d = [doc EXCEPT !.length = v]
                \/ d = [doc EXCEPT !.hashes = v]
      \/ \E v \in {Odd, Absent, <<>>} : d = [doc EXCEPT !.files = v]
      \/ \E i : d = [doc EXCEPT !.hashes[i] = Odd]
      \/ ~IsSingle(doc) /\ \E f, v : \/ d = [doc EXCEPT !.files[f].length = v]
                                     \/ d = [doc EXCEPT !.files[f].path = v]
  <2> DEFINE announces == {[doc EXCEPT !.announce = v] : v \in {Odd, Absent}}
             titles == {[doc EXCEPT !.name = v] : v \in {Odd, Absent, Unsafe}}
             pieceLengths == {[doc EXCEPT !.pieceLength = v]
                                : v \in {Odd, Absent} \cup (-1..(doc.pieceLength + 1))}
             sizes == {[doc EXCEPT !.length = v]
                         : v \in {Odd, Absent} \cup (-1..(TotalLength(layout) + 1))}
             lists == {[doc EXCEPT !.files = v] : v \in {Odd, Absent, <<>>}}
             pieces == {[doc EXCEPT !.hashes = v] : v \in {Odd, Absent, Append(hashes, <<>>)}}
             onePiece == {[doc EXCEPT !.hashes[i] = Odd] : i \in DOMAIN hashes}
             oneFile(f) == {[doc EXCEPT !.files[f].length = v] : v \in {Odd, Absent} \cup (-1..3)}
                           \cup {[doc EXCEPT !.files[f].path = v] : v \in {Odd, Absent, Unsafe, 1}}
             files1 == IF IsSingle(doc) THEN {} ELSE UNION {oneFile(f) : f \in DOMAIN doc.files}
  <2>1. d \in UNION {announces, titles, pieceLengths, sizes, lists, pieces, onePiece, files1}
    BY Zenon DEF Edits, doc
  <2> HIDE DEF announces, titles, pieceLengths, sizes, lists, pieces, onePiece, files1
  <2>2. \/ d \in announces \/ d \in titles \/ d \in pieceLengths \/ d \in sizes
        \/ d \in lists \/ d \in pieces \/ d \in onePiece \/ d \in files1
    BY <2>1, Zenon
  <2>3. d \in announces \cup titles \cup pieceLengths \cup sizes \cup pieces =>
           \E v : \/ d = [doc EXCEPT !.announce = v]
                  \/ d = [doc EXCEPT !.name = v]
                  \/ d = [doc EXCEPT !.pieceLength = v]
                  \/ d = [doc EXCEPT !.length = v]
                  \/ d = [doc EXCEPT !.hashes = v]
    BY Zenon DEF announces, titles, pieceLengths, sizes, pieces
  <2>4. d \in lists => \E v \in {Odd, Absent, <<>>} : d = [doc EXCEPT !.files = v]
    BY Zenon DEF lists
  <2>5. d \in onePiece => \E i : d = [doc EXCEPT !.hashes[i] = Odd]
    BY Zenon DEF onePiece
  <2>6. d \in files1 => ~IsSingle(doc) /\ \E f, v : \/ d = [doc EXCEPT !.files[f].length = v]
                                                    \/ d = [doc EXCEPT !.files[f].path = v]
    <3> SUFFICES ASSUME d \in files1
                 PROVE  ~IsSingle(doc) /\ \E f, v : \/ d = [doc EXCEPT !.files[f].length = v]
                                                    \/ d = [doc EXCEPT !.files[f].path = v]
      OBVIOUS
    <3>1. ~IsSingle(doc) /\ \E f : d \in oneFile(f)
      <4> HIDE DEF oneFile
      <4> QED
        BY DEF files1
    <3>2. PICK f : d \in oneFile(f)
      BY <3>1
    <3>3. \E v : d = [doc EXCEPT !.files[f].length = v] \/ d = [doc EXCEPT !.files[f].path = v]
      BY <3>2, Zenon
    <3> QED
      BY <3>1, <3>3
  <2> QED
    BY <2>2, <2>3, <2>4, <2>5, <2>6, Zenon
<1>3. \/ d.files = files
      \/ d.files \in {Odd, Absent, <<>>}
      \/ ~IsSingle(doc) /\ DOMAIN d.files = DOMAIN files
  BY <1>1, <1>2
<1>4. DOMAIN <<>> = 1..0 /\ 0 \in Nat
  OBVIOUS
<1>5. CASE d.files = files
  BY <1>1, <1>5 DEF HasShape, IsSingle
<1>6. CASE d.files \in {Odd, Absent, <<>>}
  BY <1>4, <1>6 DEF HasShape, IsSingle
<1>7. CASE ~IsSingle(doc) /\ DOMAIN d.files = DOMAIN files /\ d.files # files
  BY <1>1, <1>7 DEF HasShape
<1> QED
  BY <1>3, <1>5, <1>6, <1>7

LEMMA DocumentStep ==
    HashingInv /\ DocumentInv /\ [GeneratorNext]_generatorVars => DocumentInv'
<1> SUFFICES ASSUME HashingInv, DocumentInv, [GeneratorNext]_generatorVars PROVE DocumentInv'
  OBVIOUS
<1>1. LayoutInv
  BY DEF HashingInv
<1>2. CASE ReadChunk \/ EndOfFile \/ CutPiece \/ ReadOn \/ Flush
  <2>1. stage' \in {"reading", "cutting", "done"}
    BY <1>2 DEF ReadChunk, EndOfFile, CutPiece, ReadOn, Flush
  <2> QED
    BY <2>1 DEF DocumentInv
<1>3. CASE CreateMetainfo
  <2>1. stage' = "written" /\ HasShape(document')
    BY <1>1, <1>3, DocumentShape DEF CreateMetainfo
  <2> QED
    BY <2>1 DEF DocumentInv, Reading
<1>4. CASE EditByHand
  <2>1. stage = "written" /\ stage' = stage /\ document' \in Edits(AsHashed)
    BY <1>4 DEF EditByHand
  <2>2. HasShape(document')
    BY <1>1, <2>1, EditShape
  <2> QED
    BY <2>1, <2>2 DEF DocumentInv, Reading
<1>5. CASE Load
  BY <1>5 DEF DocumentInv, Load, Reading
<1>6. CASE UNCHANGED generatorVars
  BY <1>6 DEF DocumentInv, generatorVars, Reading
<1> QED
  BY <1>2, <1>3, <1>4, <1>5, <1>6 DEF GeneratorNext

LEMMA DocumentAlways == GeneratorSpec => [](HashingInv /\ DocumentInv)
<1>1. GeneratorInit => DocumentInv
  BY DEF GeneratorInit, DocumentInv
<1>2. HashingInv /\ DocumentInv /\ [GeneratorNext]_generatorVars => DocumentInv'
  BY DocumentStep
<1> QED
  BY <1>1, <1>2, HashingAlways, PTL DEF GeneratorSpec

(* validate accepts only layouts.                                          *)
LEMMA AcceptedIsLayout ==
    ASSUME NEW doc, Accepts(doc), HasShape(doc)
    PROVE  IsLayout(LayoutOf(doc))
<1>1. doc.pieceLength \in Nat \ {0}
  BY DEF Accepts, IsCount
<1>2. CASE IsSingle(doc)
  <2>1. doc.length \in Nat
    BY <1>2 DEF Accepts, IsCount
  <2> QED
    BY <1>1, <1>2, <2>1 DEF LayoutOf, IsLayout
<1>3. CASE ~IsSingle(doc)
  <2>1. /\ doc.files # Odd
        /\ \A f \in DOMAIN doc.files : doc.files[f].length \in Nat
    BY <1>3 DEF Accepts, SoundFiles, IsCount
  <2>2. PICK n \in Nat : DOMAIN doc.files = 1..n
    BY <1>3, <2>1 DEF HasShape
  <2> QED
    BY <1>1, <1>3, <2>1, <2>2 DEF LayoutOf, IsLayout
<1> QED
  BY <1>2, <1>3

(* A peer with a loaded document, whoever wrote it, reports left = 0       *)
(* exactly when it has every piece, and is then counted as a seed.         *)
THEOREM LeftIsZeroWhenLoaded == GeneratorSpec => []LeftIsZeroWhenComplete
<1>1. DocumentInv => LeftIsZeroWhenComplete
  <2> SUFFICES ASSUME DocumentInv, stage = "loaded", NEW have \in SUBSET Pieces(Torrent)
               PROVE  /\ Left(Torrent, have) >= 0
                      /\ Left(Torrent, have) = 0 <=> have = Pieces(Torrent)
    BY DEF LeftIsZeroWhenComplete
  <2>1. IsLayout(Torrent)
    BY AcceptedIsLayout DEF DocumentInv, Torrent
  <2> QED
    BY <2>1, LeftIsZeroForSeeds
<1> QED
  BY <1>1, DocumentAlways, PTL

(* With a loaded document, whoever wrote it, _write_virtual puts each byte *)
(* where _read_virtual looks for it, and never two into the same place.    *)
THEOREM WritesLandWhereReadsLook == GeneratorSpec => []WriteInvertsRead
<1>1. DocumentInv => WriteInvertsRead
  <2> SUFFICES ASSUME DocumentInv, stage = "loaded", NEW i \in Pieces(Torrent),
                      NEW f \in FilesOf(Torrent, i), NEW o \in Chunk(Torrent, i, f)
               PROVE  /\ ReadVirtual(Torrent, i)[WrittenFrom(Torrent, i, f, o)] = <<f, o>>
                      /\ \A g \in Files(Torrent) \ {f} :
                            PlaceOf(document, g, o) # PlaceOf(document, f, o)
    BY DEF WriteInvertsRead
  <2>1. IsLayout(Torrent)
    BY AcceptedIsLayout DEF DocumentInv, Torrent
  <2>2. ReadVirtual(Torrent, i)[WrittenFrom(Torrent, i, f, o)] = <<f, o>>
    BY <2>1, WriterInvertsReader
  <2>3. ASSUME NEW g \in Files(Torrent) \ {f}
        PROVE  PlaceOf(document, g, o) # PlaceOf(document, f, o)
    <3>1. f \in Files(Torrent)
      BY DEF FilesOf
    <3>2. CASE IsSingle(document)
      <4>1. Files(Torrent) = {1}
        BY <3>2 DEF Torrent, LayoutOf, Files
      <4> QED
        BY <3>1, <4>1
    <3>3. CASE ~IsSingle(document)
      <4>1. Files(Torrent) = DOMAIN document.files
        BY <3>3 DEF Torrent, LayoutOf, Files
      <4>2. \A x, y \in DOMAIN document.files :
               document.files[x].path = document.files[y].path => x = y
        BY <3>3 DEF DocumentInv, Accepts, SoundFiles
      <4> QED
        BY <3>1, <3>3, <4>1, <4>2 DEF PlaceOf
    <3> QED
      BY <3>2, <3>3
  <2> QED
    BY <2>2, <2>3
<1> QED
  BY <1>1, DocumentAlways, PTL

(* The document of files that did not change describes those files.        *)
LEMMA GeneratedDocument ==
    ASSUME HashingInv
    PROVE  /\ IsSingle(AsHashed) <=> Len(names) = 1
           /\ LayoutOf(AsHashed) = layout
           /\ Len(names) # 1 => AsHashed.files \in Seq([path : Names, length : Nat])
<1> DEFINE n == Len(layout.lengths)
<1>1. /\ LayoutInv /\ IsLayout(layout)
      /\ layout = [lengths |-> layout.lengths, pieceLength |-> layout.pieceLength]
      /\ layout.lengths \in Seq(Nat)
  BY DEF HashingInv, LayoutInv, IsLayout
<1>2. /\ n \in Nat \ {0} /\ names \in Seq(Names) /\ Len(names) = n /\ DOMAIN names = 1..n
  BY <1>1, NamesFacts
<1>3. CASE n = 1
  <2>1. /\ IsSingle(AsHashed) /\ AsHashed.length = layout.lengths[1]
        /\ AsHashed.pieceLength = layout.pieceLength
    BY <1>2, <1>3 DEF IsSingle, AsHashed, Document
  <2>2. layout.lengths = <<layout.lengths[1]>>
    BY <1>1, <1>3
  <2> QED
    BY <1>1, <1>2, <1>3, <2>1, <2>2 DEF LayoutOf
<1>4. CASE n # 1
  <2>1. /\ AsHashed.files = [f \in 1..n |-> [path |-> names[f], length |-> layout.lengths[f]]]
        /\ AsHashed.pieceLength = layout.pieceLength
    BY <1>2, <1>4 DEF AsHashed, Document
  <2>2. AsHashed.files \in Seq([path : Names, length : Nat])
    BY <1>1, <1>2, <2>1
  <2>3. ~IsSingle(AsHashed)
    BY <2>2, MarkersAreNoValues DEF IsSingle
  <2>4. layout.lengths = [f \in 1..n |-> AsHashed.files[f].length] /\ DOMAIN AsHashed.files = 1..n
    BY <1>1, <1>2, <2>1
  <2> QED
    BY <1>1, <1>2, <1>4, <2>1, <2>2, <2>3, <2>4 DEF LayoutOf
<1> QED
  BY <1>3, <1>4

(* What calculate_piece_hashes hashed as piece i, chunk by chunk and across*)
(* the ends of files, is what PieceManager reads as piece i.               *)
THEOREM HashesAreOfReads == GeneratorSpec => []HashesMatchReader
<1>1. HashingInv /\ DocumentInv => HashesMatchReader
  <2> SUFFICES ASSUME HashingInv, DocumentInv, stage = "loaded", document = AsHashed,
                      NEW i \in Pieces(Torrent)
               PROVE  /\ document.hashes[i + 1] = ReadVirtual(Torrent, i)
                      /\ document.hashes[i + 1] = Slice(Torrent, i)
    BY DEF HashesMatchReader
  <2>1. Torrent = layout /\ IsLayout(layout)
    BY GeneratedDocument DEF Torrent, HashingInv, LayoutInv
  <2>2. hashes[i + 1] = Slice(layout, i)
    BY <2>1 DEF HashingInv, DocumentInv, Hashed
  <2>3. document.hashes = hashes
    BY DEF AsHashed, Document
  <2> QED
    BY <2>1, <2>2, <2>3, ReaderReadsTheSlice
<1> QED
  BY <1>1, DocumentAlways, PTL

(* Metainfo.load accepts what create_metainfo wrote for files that kept    *)
(* their sizes exactly when their base names are safe and differ.          *)
THEOREM GeneratedLoads == GeneratorSpec => []GeneratedIsLoaded
<1>1. HashingInv /\ DocumentInv => GeneratedIsLoaded
  <2> SUFFICES ASSUME HashingInv, ~Reading
               PROVE  Accepts(AsHashed) <=> /\ IsInjective(names)
                                            /\ \A f \in DOMAIN names : SafeName(names[f])
    BY DEF GeneratedIsLoaded, DocumentInv
  <2> DEFINE doc == AsHashed
             n == Len(names)
  <2>1. /\ layout.pieceLength \in Nat \ {0} /\ layout.lengths \in Seq(Nat)
        /\ hashes \in Seq(Seq(Bytes)) /\ Len(hashes) = PieceCount(LayoutOf(doc))
        /\ LayoutInv
    BY GeneratedDocument DEF HashingInv, Hashed, LayoutInv, IsLayout
  <2>2. n \in Nat \ {0} /\ names \in Seq(Names) /\ DOMAIN names = 1..n /\ Len(layout.lengths) = n
    BY <2>1, NamesFacts
  <2>3. /\ doc.announce = "tracker" /\ doc.pieceLength = layout.pieceLength /\ doc.hashes = hashes
        /\ doc.name = IF n = 1 THEN names[1] ELSE "torrent"
        /\ doc.length = IF n = 1 THEN layout.lengths[1] ELSE Absent
        /\ doc.files = IF n = 1 THEN Absent
                       ELSE [f \in DOMAIN names |->
                               [path |-> names[f], length |-> layout.lengths[f]]]
    BY DEF AsHashed, Document
  <2>4. /\ doc.announce \notin {Odd, Absent} /\ IsCount(doc.pieceLength) /\ doc.pieceLength > 0
        /\ doc.hashes \notin {Odd, Absent} /\ \A i \in DOMAIN doc.hashes : doc.hashes[i] # Odd
    BY <2>1, <2>3, MarkersAreNoValues DEF IsCount
  <2>5. CASE n = 1
    <3>1. IsSingle(doc) /\ doc.length \in Nat /\ doc.length # Absent /\ doc.files = Absent
      BY <2>1, <2>2, <2>3, <2>5, MarkersAreNoValues DEF IsSingle
    <3>2. Accepts(doc) <=> SafeName(names[1])
      BY <2>1, <2>3, <2>4, <2>5, <3>1 DEF Accepts, IsCount
    <3>3. IsInjective(names) /\ DOMAIN names = {1}
      BY <2>2, <2>5 DEF IsInjective
    <3> QED
      BY <3>2, <3>3
  <2>6. CASE n # 1
    <3>1. /\ doc.files \in Seq([path : Names, length : Nat]) /\ ~IsSingle(doc)
          /\ doc.files \notin {Odd, Absent} /\ doc.length = Absent
      BY <2>3, <2>6, GeneratedDocument, MarkersAreNoValues
    <3>2. doc.files # <<>> /\ DOMAIN doc.files = DOMAIN names
      BY <2>2, <2>3, <2>6
    <3>3. \A f \in DOMAIN names : doc.files[f].path = names[f] /\ doc.files[f].length \in Nat
      BY <2>1, <2>2, <2>3, <2>6
    <3>4. SafeName(doc.name)
      BY <2>3, <2>6, MarkersAreNoValues DEF SafeName
    <3>5. SoundFiles(doc.files) <=> IsInjective(names) /\ \A f \in DOMAIN names : SafeName(names[f])
      BY <3>1, <3>2, <3>3 DEF SoundFiles, IsCount, IsInjective
    <3> QED
      BY <2>1, <2>3, <2>4, <3>1, <3>4, <3>5 DEF Accepts
  <2> QED
    BY <2>5, <2>6
<1> QED
  BY <1>1, DocumentAlways, PTL

-----------------------------------------------------------------------------
(* PieceManager, for any layout and any number of threads: writes never    *)
(* destroy a right piece, and bits are set only for right pieces, so the   *)
(* bitfield is sound.  That needs of the arithmetic only that the files    *)
(* and chunks _write_virtual visits are those _read_virtual reads; what a  *)
(* complete file holds, further down, needs PiecesPartitionTheFiles.       *)
(*                                                                         *)
(* The types the argument needs at first.                                  *)
Shape ==
    /\ exists \subseteq TheFiles
    /\ DOMAIN good = TheFiles
    /\ good = [f \in TheFiles |-> good[f]]
    /\ pc \in [Threads -> {"idle", "verified", "writing"}]
    /\ piece \in [Threads -> ThePieces \cup {0}]
    /\ todo \in [Threads -> SUBSET TheFiles]

USE DEF history

(* A writer holds the lock, and every file it has been through holds its   *)
(* chunk of the piece.                                                     *)
WrittenSoFar ==
    \A th \in Threads : pc[th] = "writing" =>
        /\ lock = th
        /\ piece[th] \in ThePieces
        /\ todo[th] \subseteq FilesOf(Layout, piece[th])
        /\ \A f \in FilesOf(Layout, piece[th]) \ todo[th] :
              f \in exists /\ Chunk(Layout, piece[th], f) \subseteq good[f]

VerifiedPiece == \A th \in Threads : pc[th] = "verified" => piece[th] \in ThePieces

WriteInv == Shape /\ WrittenSoFar /\ VerifiedPiece

LEMMA FilesOfAreFiles == \A i : FilesOf(Layout, i) \subseteq TheFiles
BY DEF FilesOf, TheFiles

(* What a step of the manager may do to the disk: only improve it.         *)
Improves ==
    /\ exists \subseteq exists'
    /\ \A f \in TheFiles : good[f] \subseteq good'[f]

LEMMA ImprovesKeepsValid ==
    ASSUME Improves, NEW i, Valid(i)
    PROVE  Valid(i)'
BY FilesOfAreFiles DEF Improves, Valid

LEMMA OpenImproves ==
    ASSUME Shape, NEW f \in TheFiles, NEW w, OpenForWrite(f, w)
    PROVE  /\ Improves
           /\ exists' \subseteq TheFiles
           /\ f \in exists' /\ w \subseteq good'[f]
           /\ DOMAIN good' = TheFiles
           /\ good' = [g \in TheFiles |-> good'[g]]
BY DEF Shape, OpenForWrite, Improves

LEMMA SameDiskImproves == UNCHANGED disk => Improves
BY DEF disk, Improves

(* Every step but Tamper improves the disk.                                *)
LEMMA StepImproves ==
    ASSUME WriteInv, Next, ~Tamper
    PROVE  Improves
<1>1. CASE Open
  <2>1. PrepareStorage
    BY <1>1 DEF Open
  <2>2. CASE CreateMissing
    BY <2>1, <2>2 DEF PrepareStorage, Improves, WriteInv, Shape
  <2>3. CASE ~CreateMissing
    BY <2>1, <2>3, SameDiskImproves DEF PrepareStorage
  <2> QED
    BY <2>2, <2>3
<1>2. ASSUME NEW th \in Threads, WriteSegment(th) \/ WriteFails(th)
      PROVE  Improves
  BY <1>2, OpenImproves, SameDiskImproves DEF WriteSegment, WriteFails, NextFile, WriteInv, Shape
<1>3. CASE UNCHANGED disk
  BY <1>3, SameDiskImproves
<1> QED
  BY <1>1, <1>2, <1>3
  DEF Next, ScanPiece, ScanEnd, WritePiece, LockForWrite, WriteDone, ReadMismatch, Crash
-----------------------------------------------------------------------------
LEMMA WriteInit == Init => WriteInv
BY DEF Init, DiskOK, WriteInv, Shape, WrittenSoFar, VerifiedPiece

LEMMA WriteStep == WriteInv /\ [Next]_vars => WriteInv'
<1> SUFFICES ASSUME WriteInv, [Next]_vars
             PROVE  WriteInv'
  OBVIOUS
<1> USE LockValues DEF WriteInv
<1>1. ASSUME NEW th \in Threads, WriteSegment(th)
      PROVE  WriteInv'
  <2>1. PICK f \in todo[th] : /\ OpenForWrite(f, Chunk(Layout, piece[th], f))
                              /\ todo' = [todo EXCEPT ![th] = @ \ {f}]
    BY <1>1 DEF WriteSegment, NextFile
  <2>2. f \in TheFiles
    BY <2>1 DEF Shape
  <2>3. Improves /\ f \in exists' /\ Chunk(Layout, piece[th], f) \subseteq good'[f]
    BY <2>1, <2>2, OpenImproves
  <2>4. Shape'
    BY <1>1, <2>1, <2>2, OpenImproves DEF Shape, WriteSegment
  <2>5. UNCHANGED <<lock, pc, piece>> /\ pc[th] = "writing" /\ lock = th
    BY <1>1 DEF WriteSegment, WrittenSoFar
  <2>6. WrittenSoFar'
    BY <2>1, <2>3, <2>5, FilesOfAreFiles DEF WrittenSoFar, Improves, Shape
  <2>7. VerifiedPiece'
    BY <2>5 DEF VerifiedPiece
  <2> QED
    BY <2>4, <2>6, <2>7
<1>2. ASSUME NEW th \in Threads, pc[th] = "writing", Release(th), Shape', Improves
      PROVE  WriteInv'
  BY <1>2 DEF Release, WrittenSoFar, VerifiedPiece, Shape
<1>3. ASSUME NEW th \in Threads, WriteFails(th)
      PROVE  WriteInv'
  <2>1. pc[th] = "writing" /\ Release(th)
    BY <1>3 DEF WriteFails
  <2>2. \/ \E f \in TheFiles : \E w : OpenForWrite(f, w)
        \/ UNCHANGED disk
    BY <1>3 DEF WriteFails, NextFile, Shape
  <2>3. Shape' /\ Improves
    BY <2>1, <2>2, OpenImproves, SameDiskImproves DEF Shape, Release, disk
  <2> QED
    BY <1>2, <2>1, <2>3
<1>4. ASSUME NEW th \in Threads, WriteDone(th)
      PROVE  WriteInv'
  <2>1. Shape' /\ Improves
    BY <1>4, SameDiskImproves DEF WriteDone, Release, disk, Shape
  <2> QED
    BY <1>2, <1>4, <2>1 DEF WriteDone
<1>5. ASSUME NEW th \in Threads, NEW i \in ThePieces, WritePiece(th, i)
      PROVE  WriteInv'
  BY <1>5 DEF WritePiece, disk, Shape, WrittenSoFar, VerifiedPiece
<1>6. ASSUME NEW th \in Threads, LockForWrite(th)
      PROVE  WriteInv'
  <2>1. Shape'
    BY <1>6, FilesOfAreFiles DEF LockForWrite, disk, Shape
  <2>2. WrittenSoFar'
    BY <1>6 DEF LockForWrite, disk, Shape, WrittenSoFar, VerifiedPiece
  <2>3. VerifiedPiece'
    BY <1>6 DEF LockForWrite, Shape, VerifiedPiece
  <2> QED
    BY <2>1, <2>2, <2>3
<1>7. ASSUME Crash \/ Open
      PROVE  WriteInv'
  <2>1. CASE Crash
    BY <2>1 DEF Crash, disk, Shape, WrittenSoFar, VerifiedPiece
  <2>2. CASE Open
    <3>1. Improves
      BY <2>2, StepImproves DEF Next, Open, Tamper
    <3>2. Shape'
      BY <2>2 DEF Open, PrepareStorage, threads, disk, Shape
    <3> QED
      BY <2>2, <3>1, <3>2, FilesOfAreFiles DEF Open, threads, Improves, WrittenSoFar, VerifiedPiece
  <2> QED
    BY <1>7, <2>1, <2>2
<1>8. ASSUME Tamper
      PROVE  WriteInv'
  <2>1. UNCHANGED threads /\ lock = Free
    BY <1>8 DEF Tamper
  <2>2. Shape'
    BY <1>8, <2>1 DEF Tamper, threads, Shape
  <2>3. WrittenSoFar' /\ VerifiedPiece'
    BY <2>1 DEF threads, WrittenSoFar, VerifiedPiece
  <2> QED
    BY <2>2, <2>3
<1>9. CASE UNCHANGED <<disk, threads>>
  BY <1>9 DEF disk, threads, Shape, WrittenSoFar, VerifiedPiece
<1> QED
  BY <1>1, <1>3, <1>4, <1>5, <1>6, <1>7, <1>8, <1>9 DEF Next, ScanPiece, ScanEnd, ReadMismatch, vars

LEMMA WriteInvAlways == Spec => []WriteInv
BY WriteInit, WriteStep, PTL DEF Spec

-----------------------------------------------------------------------------
(* Only tampering makes a right piece wrong.                               *)
LEMMA NothingLostStep ==
    WriteInv /\ [Next]_vars =>
        [Tamper \/ \A i \in ThePieces : Valid(i) => Valid(i)']_vars
<1> SUFFICES ASSUME WriteInv, Next, ~Tamper, NEW i \in ThePieces, Valid(i)
             PROVE  Valid(i)'
  OBVIOUS
<1>1. Improves
  BY StepImproves
<1> QED
  BY <1>1, ImprovesKeepsValid

(* Writes, failed writes, crashes and restarts never destroy a right       *)
(* piece, whatever files the pieces share.                                 *)
THEOREM RightPiecesStay == Spec => NothingLost
BY NothingLostStep, WriteInvAlways, PTL DEF Spec, NothingLost

LEMMA SetStep ==
    WriteInv /\ [Next]_vars => [\A i \in bitfield' \ bitfield : Valid(i)']_vars
<1> SUFFICES ASSUME WriteInv, Next, NEW i \in bitfield' \ bitfield
             PROVE  Valid(i)'
  OBVIOUS
<1>1. CASE ScanPiece
  BY <1>1 DEF ScanPiece, disk, Valid
<1>2. ASSUME NEW th \in Threads, WriteDone(th)
      PROVE  Valid(i)'
  BY <1>2 DEF WriteDone, disk, Valid, WriteInv, WrittenSoFar
<1> QED
  BY <1>1, <1>2
  DEF Next, Open, ScanEnd, WritePiece, LockForWrite, WriteSegment, WriteFails, ReadMismatch,
      Crash, Tamper

(* A bit is set only for a piece that is right on disk, even if the files  *)
(* were tampered with before.                                              *)
THEOREM BitsAreEarned == Spec => SetOnlyWhenValid
BY SetStep, WriteInvAlways, PTL DEF Spec, SetOnlyWhenValid

(* A closed manager has no bitfield, and only an open one is written to.   *)
ClosedIsEmpty ==
    /\ phase = "closed" => bitfield = {}
    /\ \A th \in Threads : pc[th] # "idle" => phase = "open"

LEMMA ClosedStep == WriteInv /\ ClosedIsEmpty /\ [Next]_vars => ClosedIsEmpty'
<1> SUFFICES ASSUME WriteInv, ClosedIsEmpty, [Next]_vars
             PROVE  ClosedIsEmpty'
  OBVIOUS
<1> USE DEF WriteInv, Shape, ClosedIsEmpty
<1>1. CASE UNCHANGED vars
  BY <1>1 DEF vars, threads
<1>2. CASE Open \/ ScanPiece \/ ScanEnd \/ Crash \/ Tamper
  BY <1>2 DEF Open, ScanPiece, ScanEnd, Crash, Tamper, threads
<1>3. ASSUME NEW th \in Threads,
             \/ \E i \in ThePieces : WritePiece(th, i)
             \/ LockForWrite(th) \/ WriteSegment(th) \/ WriteFails(th) \/ WriteDone(th)
      PROVE  ClosedIsEmpty'
  <2>1. phase = "open" /\ UNCHANGED phase
    BY <1>3 DEF WritePiece, LockForWrite, WriteSegment, WriteFails, WriteDone
  <2> QED
    BY <2>1
<1>4. ASSUME NEW i \in ThePieces, ReadMismatch(i)
      PROVE  ClosedIsEmpty'
  BY <1>4 DEF ReadMismatch, threads
<1> QED
  BY <1>1, <1>2, <1>3, <1>4 DEF Next

(* While a bit stays set, tampering does not go unnoticed.                 *)
LEMMA TamperedWhileOpen ==
    ASSUME ClosedIsEmpty, Next, ~tampered', NEW i \in bitfield \cap bitfield'
    PROVE  ~Tamper /\ ~tampered
<1>1. ~Tamper
  BY DEF Tamper, ClosedIsEmpty
<1>2. ~Crash
  BY DEF Crash
<1> QED
  BY <1>1, <1>2 DEF Next, Open, ScanPiece, ScanEnd, WritePiece, LockForWrite, WriteSegment,
     WriteFails, WriteDone, ReadMismatch

(* While nobody changes the files from outside, the bitfield lists no      *)
(* piece that is not right on disk.                                        *)
THEOREM BitfieldIsSound == Spec => []BitfieldSound
<1>1. Init => BitfieldSound /\ ClosedIsEmpty
  BY DEF Init, BitfieldSound, ClosedIsEmpty
<1>2. WriteInv /\ ClosedIsEmpty /\ BitfieldSound /\ [Next]_vars => BitfieldSound'
  <2> SUFFICES ASSUME WriteInv, ClosedIsEmpty, BitfieldSound, [Next]_vars, ~tampered',
                      NEW i \in bitfield'
               PROVE  Valid(i)'
    BY DEF BitfieldSound
  <2>1. CASE UNCHANGED vars
    BY <2>1 DEF vars, disk, BitfieldSound, Valid
  <2>2. CASE Next /\ i \in bitfield
    <3>1. ~Tamper /\ ~tampered
      BY <2>2, TamperedWhileOpen
    <3> QED
      BY <2>2, <3>1, StepImproves, ImprovesKeepsValid DEF BitfieldSound
  <2>3. CASE Next /\ i \notin bitfield
    BY <2>3, SetStep DEF vars
  <2> QED
    BY <2>1, <2>2, <2>3
<1> QED
  BY <1>1, <1>2, ClosedStep, WriteInvAlways, PTL DEF Spec

-----------------------------------------------------------------------------
(* Types, and the disk: files hold right bytes only within their lengths.  *)
LEMMA TheLayout ==
    /\ IsLayout(Layout)
    /\ PieceCount(Layout) \in Nat
    /\ ThePieces = 0..(PieceCount(Layout) - 1)
    /\ \A f \in TheFiles : Length(f) \in Nat
<1>1. IsLayout(Layout)
  BY LayoutIsSound DEF IsLayout
<1> QED
  BY <1>1, CountFacts, FileFacts DEF ThePieces, Pieces, TheFiles, Length

LEMMA OpenKeepsDisk ==
    ASSUME DiskOK, NEW f \in TheFiles, NEW w \in SUBSET Offsets(f), OpenForWrite(f, w)
    PROVE  DiskOK'
<1>1. Length(f) \in Nat /\ Slack \in Nat /\ size[f] \in Nat /\ size[f] <= Length(f) + Slack
  BY TheLayout, LayoutIsSound DEF DiskOK
<1>2. Max({size[f], Length(f)}) = IF size[f] >= Length(f) THEN size[f] ELSE Length(f)
  BY <1>1, MaxOfTwo
<1>3. /\ exists' = exists \cup {f}
      /\ size' = [size EXCEPT ![f] = Max({size[f], Length(f)})]
      /\ good' = [good EXCEPT ![f] = good[f] \cup w]
  BY DEF OpenForWrite
<1>4. /\ exists' \subseteq TheFiles
      /\ size' \in [TheFiles -> Nat]
      /\ good' \in [TheFiles -> SUBSET Nat]
  <2>1. size' \in [TheFiles -> Nat]
    BY <1>1, <1>2, <1>3 DEF DiskOK
  <2>2. w \subseteq Nat
    BY <1>1 DEF Offsets
  <2>3. good' \in [TheFiles -> SUBSET Nat]
    BY <1>3, <2>2 DEF DiskOK
  <2> QED
    BY <1>3, <2>1, <2>3 DEF DiskOK
<1>5. ASSUME NEW g \in TheFiles
      PROVE  /\ size'[g] <= Length(g) + Slack
             /\ good'[g] \subseteq Offsets(g) \cap 0..(size'[g] - 1)
             /\ g \notin exists' => size'[g] = 0
  <2>1. CASE g = f
    <3>1. size'[f] = (IF size[f] >= Length(f) THEN size[f] ELSE Length(f))
      BY <1>2, <1>3 DEF DiskOK
    <3>2. good'[f] = good[f] \cup w
      BY <1>3 DEF DiskOK
    <3>3. good[f] \subseteq Offsets(f) \cap 0..(size[f] - 1)
      BY DEF DiskOK
    <3>4. Offsets(f) \subseteq 0..(size'[f] - 1) /\ 0..(size[f] - 1) \subseteq 0..(size'[f] - 1)
      BY <1>1, <3>1 DEF Offsets
    <3>5. good'[f] \subseteq Offsets(f) \cap 0..(size'[f] - 1)
      BY <3>2, <3>3, <3>4
    <3>6. size'[f] <= Length(f) + Slack /\ f \in exists'
      BY <1>1, <1>3, <3>1
    <3> QED
      BY <2>1, <3>5, <3>6
  <2>2. CASE g # f
    BY <1>3, <2>2 DEF DiskOK
  <2> QED
    BY <2>1, <2>2
<1> QED
  BY <1>4, <1>5 DEF DiskOK

LEMMA ChunkIsOffsets ==
    ASSUME NEW i \in ThePieces, NEW f \in FilesOf(Layout, i)
    PROVE  /\ Chunk(Layout, i, f) \subseteq Offsets(f)
           /\ \A n \in 0..ChunkSize(Layout, i, f) :
                 LocalOffset(Layout, i, f)..(LocalOffset(Layout, i, f) + n - 1) \subseteq Offsets(f)
<1>1. IsLayout(Layout) /\ i \in Pieces(Layout) /\ f \in Files(Layout) /\ Overlaps(Layout, i, f)
  BY TheLayout DEF ThePieces, FilesOf
<1>2. /\ LocalOffset(Layout, i, f) \in Nat
      /\ ChunkSize(Layout, i, f) \in Nat
      /\ LocalOffset(Layout, i, f) + ChunkSize(Layout, i, f) <= Layout.lengths[f]
      /\ Layout.lengths[f] \in Nat
  BY <1>1, ChunkFacts, FileFacts
<1> QED
  BY <1>2 DEF Chunk, Offsets, Length

LEMMA TypeStep == WriteInv /\ TypeOK /\ [Next]_vars => TypeOK'
<1> SUFFICES ASSUME WriteInv, TypeOK, [Next]_vars
             PROVE  TypeOK'
  OBVIOUS
<1>0. WriteInv'
  BY WriteStep
<1> DEFINE Rest == /\ phase \in {"closed", "scanning", "open"}
                   /\ scan \in 0..PieceCount(Layout)
                   /\ bitfield \subseteq ThePieces
                   /\ tampered \in BOOLEAN
                   /\ unread \subseteq ThePieces
                   /\ lock \in Threads \cup {Free}
<1>1. DiskOK /\ Rest
  BY DEF TypeOK
<1>2. SUFFICES DiskOK' /\ Rest'
  BY <1>0, <1>2 DEF TypeOK, WriteInv, Shape
<1>3. UNCHANGED disk => DiskOK'
  BY <1>1 DEF disk, DiskOK
<1>4. CASE UNCHANGED vars
  BY <1>1, <1>3, <1>4 DEF vars, threads
<1>5. CASE Open
  <2>1. Rest'
    BY <1>1, <1>5, TheLayout DEF Open, threads
  <2>2. CASE CreateMissing
    <3>1. /\ exists' = TheFiles /\ good' = good
          /\ size' = [f \in TheFiles |-> Max({size[f], Length(f)})]
      BY <1>5, <2>2 DEF Open, PrepareStorage
    <3>2. ASSUME NEW f \in TheFiles
          PROVE  /\ size'[f] \in Nat
                 /\ size[f] <= size'[f]
                 /\ size'[f] <= Length(f) + Slack
      <4>1. size[f] \in Nat /\ Length(f) \in Nat /\ Slack \in Nat /\ size[f] <= Length(f) + Slack
        BY <1>1, TheLayout, LayoutIsSound DEF DiskOK
      <4>2. size'[f] = IF size[f] >= Length(f) THEN size[f] ELSE Length(f)
        BY <3>1, <4>1, MaxOfTwo
      <4> QED
        BY <4>1, <4>2
    <3>3. ASSUME NEW f \in TheFiles
          PROVE  good[f] \subseteq Offsets(f) \cap 0..(size'[f] - 1)
      <4>1. good[f] \subseteq Offsets(f) \cap 0..(size[f] - 1) /\ size[f] \in Nat
        BY <1>1 DEF DiskOK
      <4>2. 0..(size[f] - 1) \subseteq 0..(size'[f] - 1)
        BY <3>2, <4>1
      <4> QED
        BY <4>1, <4>2
    <3>4. size' \in [TheFiles -> Nat]
      BY <3>1, <3>2
    <3> QED
      BY <1>1, <2>1, <3>1, <3>2, <3>3, <3>4 DEF DiskOK
  <2>3. CASE ~CreateMissing
    BY <1>3, <1>5, <2>1, <2>3 DEF Open, PrepareStorage
  <2> QED
    BY <2>2, <2>3
<1>6. CASE ScanPiece
  <2>1. scan \in ThePieces /\ scan + 1 \in 0..PieceCount(Layout)
    BY <1>1, <1>6, TheLayout DEF ScanPiece
  <2> QED
    BY <1>1, <1>3, <1>6, <2>1 DEF ScanPiece, threads
<1>7. CASE ScanEnd
  BY <1>1, <1>3, <1>7 DEF ScanEnd, threads
<1>8. ASSUME NEW th \in Threads, \/ \E i \in ThePieces : WritePiece(th, i)
                                 \/ LockForWrite(th)
      PROVE  DiskOK' /\ Rest'
  BY <1>1, <1>3, <1>8 DEF WritePiece, LockForWrite
<1>9. ASSUME NEW th \in Threads, WriteSegment(th)
      PROVE  DiskOK' /\ Rest'
  <2>1. PICK f \in todo[th] : OpenForWrite(f, Chunk(Layout, piece[th], f))
    BY <1>9 DEF WriteSegment, NextFile
  <2>2. f \in TheFiles /\ f \in FilesOf(Layout, piece[th]) /\ piece[th] \in ThePieces
    BY <1>9, <2>1 DEF WriteSegment, WriteInv, Shape, WrittenSoFar
  <2>3. DiskOK'
    BY <1>1, <2>1, <2>2, ChunkIsOffsets, OpenKeepsDisk
  <2> QED
    BY <1>1, <1>9, <2>3 DEF WriteSegment
<1>10. ASSUME NEW th \in Threads, WriteFails(th)
       PROVE  DiskOK' /\ Rest'
  <2>1. PICK f \in todo[th] : \E n \in 0..ChunkSize(Layout, piece[th], f) :
           \/ OpenForWrite(f, LocalOffset(Layout, piece[th], f)..
                                (LocalOffset(Layout, piece[th], f) + n - 1))
           \/ UNCHANGED disk
    BY <1>10 DEF WriteFails, NextFile
  <2>2. f \in TheFiles /\ f \in FilesOf(Layout, piece[th]) /\ piece[th] \in ThePieces
    BY <1>10, <2>1 DEF WriteFails, WriteInv, Shape, WrittenSoFar
  <2>3. UNCHANGED disk \/ \E w \in SUBSET Offsets(f) : OpenForWrite(f, w)
    BY <2>1, <2>2, ChunkIsOffsets
  <2>4. DiskOK'
    BY <1>1, <1>3, <2>2, <2>3, OpenKeepsDisk
  <2> QED
    BY <1>1, <1>10, <2>4 DEF WriteFails, Release
<1>11. ASSUME NEW th \in Threads, WriteDone(th)
       PROVE  DiskOK' /\ Rest'
  <2>1. piece[th] \in ThePieces
    BY <1>11 DEF WriteDone, WriteInv, WrittenSoFar
  <2> QED
    BY <1>1, <1>3, <1>11, <2>1 DEF WriteDone, Release
<1>12. ASSUME NEW i \in ThePieces, ReadMismatch(i)
       PROVE  DiskOK' /\ Rest'
  BY <1>1, <1>3, <1>12 DEF ReadMismatch, threads
<1>13. CASE Crash
  <2>1. 0 \in 0..PieceCount(Layout)
    BY TheLayout
  <2>2. DiskOK'
    BY <1>3, <1>13 DEF Crash
  <2> QED
    BY <1>1, <1>13, <2>1, <2>2 DEF Crash
<1>14. CASE Tamper
  <2>1. Rest'
    BY <1>1, <1>14 DEF Tamper, threads
  <2>2. PICK f \in exists :
          \/ /\ \E o \in good[f] : good' = [good EXCEPT ![f] = @ \ {o}]
             /\ UNCHANGED <<exists, size>>
          \/ /\ exists' = exists \ {f}
             /\ size' = [size EXCEPT ![f] = 0]
             /\ good' = [good EXCEPT ![f] = {}]
          \/ /\ size[f] > 0
             /\ size' = [size EXCEPT ![f] = @ - 1]
             /\ good' = [good EXCEPT ![f] = @ \ {size[f] - 1}]
             /\ UNCHANGED exists
    BY <1>14 DEF Tamper
  <2>3. /\ f \in TheFiles /\ size[f] \in Nat /\ Length(f) \in Nat /\ Slack \in Nat
        /\ size[f] <= Length(f) + Slack
        /\ good[f] \subseteq Offsets(f) \cap 0..(size[f] - 1)
    BY <1>1, TheLayout, LayoutIsSound DEF DiskOK
  <2>4. CASE \E o \in good[f] : good' = [good EXCEPT ![f] = @ \ {o}] /\ UNCHANGED <<exists, size>>
    BY <1>1, <2>1, <2>4 DEF DiskOK
  <2>5. CASE /\ exists' = exists \ {f}
             /\ size' = [size EXCEPT ![f] = 0]
             /\ good' = [good EXCEPT ![f] = {}]
    BY <1>1, <2>1, <2>3, <2>5 DEF DiskOK
  <2>6. CASE /\ size[f] > 0
             /\ size' = [size EXCEPT ![f] = @ - 1]
             /\ good' = [good EXCEPT ![f] = @ \ {size[f] - 1}]
             /\ UNCHANGED exists
    <3>1. /\ size' = [size EXCEPT ![f] = size[f] - 1]
          /\ good' = [good EXCEPT ![f] = good[f] \ {size[f] - 1}]
      BY <2>6
    <3>2. good[f] \ {size[f] - 1} \subseteq Offsets(f) \cap 0..(size[f] - 1 - 1)
      BY <2>3
    <3>3. size[f] - 1 \in Nat /\ size[f] - 1 <= Length(f) + Slack
      BY <2>3, <2>6
    <3>4. size' \in [TheFiles -> Nat] /\ good' \in [TheFiles -> SUBSET Nat]
      BY <1>1, <2>3, <3>1, <3>3 DEF DiskOK
    <3>5. ASSUME NEW g \in TheFiles
          PROVE  /\ size'[g] <= Length(g) + Slack
                 /\ good'[g] \subseteq Offsets(g) \cap 0..(size'[g] - 1)
                 /\ g \notin exists' => size'[g] = 0
      <4>1. CASE g = f
        <5>1. size'[g] = size[f] - 1 /\ good'[g] = good[f] \ {size[f] - 1} /\ f \in exists'
          BY <1>1, <2>6, <3>1, <4>1 DEF DiskOK
        <5> QED
          BY <3>2, <3>3, <4>1, <5>1
      <4>2. CASE g # f
        BY <1>1, <2>6, <4>2 DEF DiskOK
      <4> QED
        BY <4>1, <4>2
    <3> QED
      BY <1>1, <2>1, <2>6, <3>4, <3>5 DEF DiskOK
  <2> QED
    BY <2>2, <2>4, <2>5, <2>6
<1> QED
  BY <1>4, <1>5, <1>6, <1>7, <1>8, <1>9, <1>10, <1>11, <1>12, <1>13, <1>14 DEF Next

LEMMA TypeInit == Init => TypeOK
<1>1. 0 \in 0..PieceCount(Layout)
  BY TheLayout
<1> QED
  BY <1>1 DEF Init, TypeOK

(* No step makes a state ill-typed: files never grow past their lengths    *)
(* unless they were longer, and right bytes lie within them.               *)
THEOREM TypeCorrect == Spec => []TypeOK
BY TypeInit, TypeStep, WriteInvAlways, PTL DEF Spec

-----------------------------------------------------------------------------
(* While the constructor scans, the bitfield is right for the pieces it    *)
(* could read and empty for the others: nobody else touches the files.     *)
ScannedSoFar ==
    IF phase = "scanning"
    THEN /\ bitfield = {i \in ThePieces \ unread : i < scan /\ Valid(i)}
         /\ \A i \in unread : i < scan
    ELSE unread = {}

LEMMA QuietWhileScanning ==
    ASSUME ClosedIsEmpty, Next, phase = "scanning"
    PROVE  ScanPiece \/ ScanEnd \/ Crash
BY DEF ClosedIsEmpty, Next, Open, WritePiece, LockForWrite, WriteSegment, WriteFails, WriteDone,
       ReadMismatch, Tamper

LEMMA ScanStep ==
    TypeOK /\ ClosedIsEmpty /\ ScannedSoFar /\ [Next]_vars => ScannedSoFar'
<1> SUFFICES ASSUME TypeOK, ClosedIsEmpty, ScannedSoFar, [Next]_vars
             PROVE  ScannedSoFar'
  OBVIOUS
<1>1. CASE UNCHANGED vars
  BY <1>1 DEF vars, disk, ScannedSoFar, Valid
<1>2. CASE Open
  <2>1. \A i \in ThePieces : ~(i < 0)
    BY TheLayout
  <2>2. /\ phase # "scanning" /\ phase' = "scanning"
        /\ scan' = 0 /\ bitfield' = {} /\ unread' = unread
    BY <1>2 DEF Open
  <2> QED
    BY <2>1, <2>2 DEF ScannedSoFar
<1>3. CASE ScanPiece
  <2>1. \A i : Valid(i)' <=> Valid(i)
    BY <1>3 DEF ScanPiece, disk, Valid
  <2>2. scan \in Nat /\ scan < PieceCount(Layout) /\ scan \in ThePieces
    BY <1>3, TheLayout DEF ScanPiece, TypeOK
  <2>3. \A i \in ThePieces : (i < scan + 1 <=> i < scan \/ i = scan) /\ ~(scan < scan)
    BY <2>2, TheLayout
  <2>4. /\ bitfield = {i \in ThePieces \ unread : i < scan /\ Valid(i)}
        /\ \A i \in unread : i < scan
        /\ unread \subseteq ThePieces
        /\ scan' = scan + 1 /\ phase' = "scanning"
    BY <1>3 DEF ScanPiece, ScannedSoFar, TypeOK
  <2>5. CASE /\ bitfield' = IF Valid(scan) THEN bitfield \cup {scan} ELSE bitfield \ {scan}
             /\ unread' = unread
    <3>1. bitfield' = {i \in ThePieces \ unread : i < scan + 1 /\ Valid(i)}
      BY <2>2, <2>3, <2>4, <2>5
    <3> QED
      BY <2>1, <2>3, <2>4, <2>5, <3>1 DEF ScannedSoFar
  <2>6. CASE bitfield' = bitfield \ {scan} /\ unread' = unread \cup {scan}
    <3>1. bitfield' = {i \in ThePieces \ unread' : i < scan + 1 /\ Valid(i)}
      BY <2>2, <2>3, <2>4, <2>6
    <3>2. \A i \in unread' : i < scan + 1
      BY <2>2, <2>3, <2>4, <2>6
    <3> QED
      BY <2>1, <2>4, <3>1, <3>2 DEF ScannedSoFar
  <2> QED
    BY <1>3, <2>5, <2>6 DEF ScanPiece
<1>4. CASE Next /\ ~Open /\ ~ScanPiece
  <2>1. CASE phase = "scanning"
    <3>1. ScanEnd \/ Crash
      BY <1>4, <2>1, QuietWhileScanning
    <3> QED
      BY <3>1 DEF ScanEnd, Crash, ScannedSoFar
  <2>2. CASE phase # "scanning"
    <3>1. phase' # "scanning" /\ (unread' = unread \/ unread' = {})
      BY <1>4, <2>2 DEF Next, ScanEnd, WritePiece, LockForWrite, WriteSegment, WriteFails,
         WriteDone, ReadMismatch, Crash, Tamper
    <3> QED
      BY <2>2, <3>1 DEF ScannedSoFar
  <2> QED
    BY <2>1, <2>2
<1> QED
  BY <1>1, <1>2, <1>3, <1>4

(* A restart resumes from what is on disk: when the constructor ends, the  *)
(* bitfield lists every piece that is right there and that could be read,  *)
(* and no other.                                                           *)
THEOREM RestartFindsEverything == Spec => ScanFindsAll
<1>1. Init => ClosedIsEmpty /\ ScannedSoFar
  BY DEF Init, ClosedIsEmpty, ScannedSoFar
<1>2. TypeOK /\ ClosedIsEmpty /\ ScannedSoFar /\ [Next]_vars =>
        [phase = "scanning" /\ phase' = "open" =>
            bitfield' = {i \in ThePieces \ unread : Valid(i)}]_vars
  <2> SUFFICES ASSUME TypeOK, ClosedIsEmpty, ScannedSoFar, Next, phase = "scanning", phase' = "open"
               PROVE  bitfield' = {i \in ThePieces \ unread : Valid(i)}
    OBVIOUS
  <2>1. ScanEnd
    BY QuietWhileScanning DEF ScanPiece, Crash
  <2>2. \A i \in ThePieces : i < scan
    BY <2>1, TheLayout DEF ScanEnd
  <2> QED
    BY <2>1, <2>2 DEF ScanEnd, ScannedSoFar
<1> QED
  BY <1>1, <1>2, ClosedStep, ScanStep, TypeCorrect, WriteInvAlways, PTL DEF Spec, ScanFindsAll

-----------------------------------------------------------------------------
(* An open manager has created every file, unless they were tampered with. *)
FilesExist == phase # "closed" /\ CreateMissing /\ ~tampered => exists = TheFiles

LEMMA FilesExistStep == WriteInv /\ FilesExist /\ [Next]_vars => FilesExist'
<1> SUFFICES ASSUME WriteInv, FilesExist, [Next]_vars,
                    phase' # "closed", CreateMissing, ~tampered'
             PROVE  exists' = TheFiles
  BY DEF FilesExist
<1>0. WriteInv'
  BY WriteStep
<1>1. CASE UNCHANGED vars
  BY <1>1 DEF vars, disk, FilesExist
<1>2. CASE Open
  BY <1>2 DEF Open, PrepareStorage
<1>3. CASE Next /\ ~Open
  <2>1. ~Tamper /\ ~Crash
    BY DEF Tamper, Crash
  <2>2. phase # "closed" /\ ~tampered
    BY <1>3, <2>1 DEF Next, ScanPiece, ScanEnd, WritePiece, LockForWrite, WriteSegment,
       WriteFails, WriteDone, ReadMismatch
  <2>3. exists \subseteq exists'
    BY <1>3, <2>1, StepImproves DEF Improves
  <2> QED
    BY <1>0, <2>2, <2>3 DEF FilesExist, WriteInv, Shape
<1> QED
  BY <1>1, <1>2, <1>3

(* is_complete() means that every byte of every file is right: each lies   *)
(* in the chunk of some piece, and the bitfield is sound.                  *)
LEMMA CompleteFromParts == TypeOK /\ BitfieldSound /\ FilesExist => CompleteMeansContent
<1> SUFFICES ASSUME TypeOK, BitfieldSound, FilesExist,
                    phase = "open", bitfield = ThePieces, CreateMissing, ~tampered,
                    NEW f \in TheFiles
             PROVE  f \in exists /\ good[f] = Offsets(f)
  BY DEF CompleteMeansContent
<1>1. f \in exists
  BY DEF FilesExist
<1>2. good[f] \subseteq Offsets(f)
  BY DEF TypeOK, DiskOK
<1>3. ASSUME NEW o \in Offsets(f)
      PROVE  o \in good[f]
  <2>1. f \in Files(Layout) /\ o \in 0..(Layout.lengths[f] - 1)
    BY <1>3 DEF TheFiles, Offsets, Length
  <2>2. PICK i \in Pieces(Layout) : f \in FilesOf(Layout, i) /\ o \in Chunk(Layout, i, f)
    BY <2>1, TheLayout, PiecesPartitionTheFiles
  <2>3. Valid(i)
    BY <2>2 DEF BitfieldSound, ThePieces
  <2> QED
    BY <2>2, <2>3 DEF Valid
<1> QED
  BY <1>1, <1>2, <1>3

(* While nobody else changes the files, a manager that says it is complete *)
(* has the whole content on disk, files of length zero included.           *)
THEOREM CompleteIsComplete == Spec => []CompleteMeansContent
<1>1. Init => FilesExist
  BY DEF Init, FilesExist
<1> QED
  BY <1>1, FilesExistStep, CompleteFromParts, TypeCorrect, BitfieldIsSound, WriteInvAlways, PTL DEF Spec
=============================================================================
