---------------------------- MODULE PieceLayout ----------------------------
(***************************************************************************)
(* How a torrent's pieces lie over its files: the arithmetic of            *)
(* peer/metainfo.py (piece count) and peer/piece_manager.py (segments,     *)
(* piece sizes, reading and writing across file boundaries).               *)
(*                                                                         *)
(* A layout is [lengths |-> the files' lengths in order,                   *)
(*              pieceLength |-> a positive number].                        *)
(* Pieces and offsets count from 0, files from 1.  The byte at offset o of *)
(* file f is the pair <<f, o>>.                                            *)
(***************************************************************************)
EXTENDS Integers, Sequences, SequencesExt, Functions, Sums

Files(L) == DOMAIN L.lengths

(* _build_segments: the offset after the first n files, and with it where  *)
(* each file starts and ends.                                              *)
Offset(L) == RunningSum(L.lengths)

SegmentStart(L, f) == Offset(L)[f - 1]
SegmentEnd(L, f)   == SegmentStart(L, f) + L.lengths[f]

TotalLength(L) == Offset(L)[Len(L.lengths)]

(* The number of hashes Metainfo.validate insists on.                      *)
PieceCount(L) == IF TotalLength(L) = 0
                 THEN 0
                 ELSE (TotalLength(L) + L.pieceLength - 1) \div L.pieceLength

Pieces(L) == 0..(PieceCount(L) - 1)

(* Mutant of PieceSize: every piece has the full length.                   *)
PieceSize_uniform(L, i) == L.pieceLength

PieceSize(L, i) == IF i < PieceCount(L) - 1
                   THEN L.pieceLength
                   ELSE TotalLength(L) - L.pieceLength * (PieceCount(L) - 1)

(* downloaded_bytes and left of a peer that has these pieces.              *)
DownloadedBytes(L, have) ==
    RunningSum([n \in 1..PieceCount(L) |-> IF n - 1 \in have THEN PieceSize(L, n - 1) ELSE 0])
        [PieceCount(L)]
Left(L, have) == TotalLength(L) - DownloadedBytes(L, have)

PieceStart(L, i) == i * L.pieceLength
PieceEnd(L, i)   == PieceStart(L, i) + PieceSize(L, i)

(* The loop of _read_virtual and _write_virtual over the segments: which   *)
(* files a piece overlaps, where in the file, and for how many bytes.      *)
Overlaps(L, i, f) ==
    /\ L.lengths[f] # 0
    /\ ~(SegmentEnd(L, f) <= PieceStart(L, i) \/ SegmentStart(L, f) >= PieceEnd(L, i))

OverlapStart(L, i, f) == Max({PieceStart(L, i), SegmentStart(L, f)})
OverlapEnd(L, i, f)   == Min({PieceEnd(L, i), SegmentEnd(L, f)})

(* Mutant of LocalOffset: a file is always read from its beginning.        *)
LocalOffset_zero(L, i, f) == 0

LocalOffset(L, i, f)  == OverlapStart(L, i, f) - SegmentStart(L, f)
ChunkSize(L, i, f)    == OverlapEnd(L, i, f) - OverlapStart(L, i, f)

FilesOf(L, i) == {f \in Files(L) : Overlaps(L, i, f)}

(* The offsets of file f that belong to piece i, when it overlaps f.       *)
Chunk(L, i, f) == LocalOffset(L, i, f)..(LocalOffset(L, i, f) + ChunkSize(L, i, f) - 1)

(* _read_virtual: the chunks, concatenated in file order.                  *)
ReadVirtual(L, i) ==
    FlattenSeq([f \in Files(L) |->
        IF Overlaps(L, i, f)
        THEN [k \in 1..ChunkSize(L, i, f) |-> <<f, LocalOffset(L, i, f) + k - 1>>]
        ELSE <<>>])

(* _write_virtual: `consumed` after the first n files, and with it the     *)
(* position in the piece's data of the byte written to <<f, o>>.           *)
Consumed(L, i) ==
    RunningSum([f \in Files(L) |-> IF Overlaps(L, i, f) THEN ChunkSize(L, i, f) ELSE 0])
WrittenFrom(L, i, f, o) == Consumed(L, i)[f - 1] + (o - LocalOffset(L, i, f)) + 1

-----------------------------------------------------------------------------
(* The reference: the files' bytes one after the other, cut every          *)
(* pieceLength bytes.                                                      *)
Stream(L) == FlattenSeq([f \in Files(L) |-> [k \in 1..L.lengths[f] |-> <<f, k - 1>>]])

Slice(L, i) ==
    SubSeq(Stream(L), i * L.pieceLength + 1, Min({(i + 1) * L.pieceLength, Len(Stream(L))}))
=============================================================================
