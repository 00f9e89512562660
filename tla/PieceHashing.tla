---------------------------- MODULE PieceHashing ----------------------------
(***************************************************************************)
(* From files to a loaded torrent.  calculate_piece_hashes of              *)
(* tools/create_metainfo.py reads the files in chunks into a buffer, from  *)
(* which full pieces are cut and hashed; create_metainfo asks for the      *)
(* files' sizes and writes the document; somebody may edit it by hand; a   *)
(* peer loads it (peer/metainfo.py).  The question is whether the pieces   *)
(* are where PieceManager will look for them.                              *)
(***************************************************************************)
EXTENDS MetainfoFile

CONSTANTS Layouts,    \* the layouts to try
          ReadSize,   \* bytes per read; 64 KiB in the code
          NoDocument

ASSUME ReadSizeIsPositive == ReadSize \in Nat \ {0}

(* create_metainfo insists on a file and on a positive piece length.       *)
ASSUME LayoutsAreSound ==
    \A L \in Layouts : /\ L = [lengths |-> L.lengths, pieceLength |-> L.pieceLength]
                       /\ L.lengths \in Seq(Nat) \ {<<>>}
                       /\ L.pieceLength \in Nat \ {0}

VARIABLES layout,     \* the files to share
          names,      \* their base names
          stage, file, offset, buffer, hashes,
          document,   \* the metainfo file, or NoDocument
          edited      \* history: it was changed by hand

hashing == <<layout, names, file, offset, buffer, hashes>>
generatorVars == <<hashing, stage, document, edited>>

(* Files from different directories may have the same base name, and a     *)
(* name that the file system allows need not be safe.                      *)
Namings(n) ==
    {[f \in 1..n |-> f], [f \in 1..n |-> 1], [f \in 1..n |-> IF f = n THEN Unsafe ELSE f]}

GeneratorInit ==
    /\ layout \in Layouts
    /\ stage = "reading"
    /\ file = 1
    /\ offset = 0
    /\ buffer = <<>>
    /\ hashes = <<>>
    /\ names \in Namings(Len(layout.lengths))
    /\ document = NoDocument
    /\ edited = FALSE

(* file.read returns at most ReadSize bytes; a non-empty chunk is buffered *)
ReadChunk ==
    LET n == Min({ReadSize, layout.lengths[file] - offset}) IN
    /\ stage = "reading"
    /\ file \in Files(layout)
    /\ n > 0
    /\ buffer' = buffer \o [k \in 1..n |-> <<file, offset + k - 1>>]
    /\ offset' = offset + n
    /\ stage' = "cutting"
    /\ UNCHANGED <<layout, names, file, hashes, document, edited>>

(* an empty one ends the file, and the buffer is carried into the next.    *)
EndOfFile ==
    /\ stage = "reading"
    /\ file \in Files(layout)
    /\ offset = layout.lengths[file]
    /\ file' = file + 1
    /\ offset' = 0
    /\ UNCHANGED <<layout, names, stage, buffer, hashes, document, edited>>

CutPiece ==
    /\ stage = "cutting"
    /\ Len(buffer) >= layout.pieceLength
    /\ hashes' = Append(hashes, SubSeq(buffer, 1, layout.pieceLength))
    /\ buffer' = SubSeq(buffer, layout.pieceLength + 1, Len(buffer))
    /\ UNCHANGED <<layout, names, stage, file, offset, document, edited>>

ReadOn ==
    /\ stage = "cutting"
    /\ Len(buffer) < layout.pieceLength
    /\ stage' = "reading"
    /\ UNCHANGED <<hashing, document, edited>>

(* Mutant of Flush: the short last piece is dropped.                       *)
Flush_dropsRest ==
    /\ stage = "reading"
    /\ file \notin Files(layout)
    /\ buffer' = <<>>
    /\ stage' = "done"
    /\ UNCHANGED <<layout, names, file, offset, hashes, document, edited>>

(* After the last file a non-empty rest is the short last piece.           *)
Flush ==
    /\ stage = "reading"
    /\ file \notin Files(layout)
    /\ hashes' = IF buffer # <<>> THEN Append(hashes, buffer) ELSE hashes
    /\ buffer' = <<>>
    /\ stage' = "done"
    /\ UNCHANGED <<layout, names, file, offset, document, edited>>

-----------------------------------------------------------------------------
(* create_metainfo asks for the sizes after the content was hashed: one of *)
(* the files may have changed in between.                                  *)
CreateMetainfo ==
    /\ stage = "done"
    /\ \E f \in Files(layout), change \in {-1, 0, 1} :
          /\ layout.lengths[f] + change >= 0
          /\ document' = Document(names, [layout.lengths EXCEPT ![f] = @ + change],
                                  layout.pieceLength, hashes)
    /\ stage' = "written"
    /\ UNCHANGED <<hashing, edited>>

(* The document as it would be for files that did not change.              *)
AsHashed == Document(names, layout.lengths, layout.pieceLength, hashes)

(* One field of the document, or of one of its files, is changed by hand.  *)
Edits(doc) ==
    UNION {
      {[doc EXCEPT !.announce = v] : v \in {Odd, Absent}},
      {[doc EXCEPT !.name = v] : v \in {Odd, Absent, Unsafe}},
      {[doc EXCEPT !.pieceLength = v] : v \in {Odd, Absent} \cup (-1..(doc.pieceLength + 1))},
      {[doc EXCEPT !.length = v] : v \in {Odd, Absent} \cup (-1..(TotalLength(layout) + 1))},
      {[doc EXCEPT !.files = v] : v \in {Odd, Absent, <<>>}},
      {[doc EXCEPT !.hashes = v] : v \in {Odd, Absent, Append(hashes, <<>>)}},
      {[doc EXCEPT !.hashes[i] = Odd] : i \in DOMAIN hashes},
      IF IsSingle(doc) THEN {}
      ELSE UNION {
        {[doc EXCEPT !.files[f].length = v] : v \in {Odd, Absent} \cup (-1..3)}
        \cup {[doc EXCEPT !.files[f].path = v] : v \in {Odd, Absent, Unsafe, 1}}
          : f \in DOMAIN doc.files}}

EditByHand ==
    /\ stage = "written"
    /\ document = AsHashed
    /\ document' \in Edits(document) \ {document}
    /\ edited' = TRUE
    /\ UNCHANGED <<hashing, stage>>

(* Metainfo.load *)
Load ==
    /\ stage = "written"
    /\ stage' = IF Accepts(document) THEN "loaded" ELSE "refused"
    /\ UNCHANGED <<hashing, document, edited>>

GeneratorNext ==
    \/ ReadChunk \/ EndOfFile \/ CutPiece \/ ReadOn \/ Flush
    \/ CreateMetainfo \/ EditByHand \/ Load

GeneratorSpec == GeneratorInit /\ [][GeneratorNext]_generatorVars

-----------------------------------------------------------------------------
Torrent == LayoutOf(document)

(* A document written for files that kept their size between the reading   *)
(* of their content and of their sizes is loaded, by name and by size,     *)
(* unless it has several files of which two have the same base name, or    *)
(* one has a name that is no safe path component.                          *)
GeneratedIsLoaded ==
    stage \in {"loaded", "refused"} /\ ~edited /\ document = AsHashed =>
        (stage = "loaded" <=> /\ IsInjective(names)
                              /\ \A f \in DOMAIN names : SafeName(names[f]))

(* Its i-th hash covers the very bytes that PieceManager reads, in the     *)
(* same order, to verify piece i: the i-th slice of the concatenated files.*)
HashesMatchReader ==
    stage = "loaded" /\ document = AsHashed =>
        \A i \in Pieces(Torrent) :
            /\ document.hashes[i + 1] = ReadVirtual(Torrent, i)
            /\ document.hashes[i + 1] = Slice(Torrent, i)

(* Whatever document was accepted, _write_virtual puts each byte where     *)
(* _read_virtual will read it, and no two bytes share a place on disk.     *)
WriteInvertsRead ==
    stage = "loaded" =>
        \A i \in Pieces(Torrent) : \A f \in FilesOf(Torrent, i) : \A o \in Chunk(Torrent, i, f) :
            /\ ReadVirtual(Torrent, i)[WrittenFrom(Torrent, i, f, o)] = <<f, o>>
            /\ \A g \in Files(Torrent) \ {f} : PlaceOf(document, g, o) # PlaceOf(document, f, o)

(* Whatever document was accepted, no piece is empty and the sizes add up  *)
(* to the total, so that `left`, which subtracts the sizes of the available*)
(* pieces, is 0 exactly when every piece is available - what the tracker   *)
(* counts as a seed.                                                       *)
LeftIsZeroWhenComplete ==
    stage = "loaded" =>
        \A have \in SUBSET Pieces(Torrent) :
            /\ Left(Torrent, have) >= 0
            /\ Left(Torrent, have) = 0 <=> have = Pieces(Torrent)
=============================================================================
