---------------------------- MODULE MetainfoFile ----------------------------
(***************************************************************************)
(* The JSON document that describes a torrent: what create_metainfo writes *)
(* (tools/create_metainfo.py) and what Metainfo.validate accepts           *)
(* (peer/metainfo.py).  A field holds its value, or Odd, a value of        *)
(* another JSON type, or Absent.  A piece hash is represented by the bytes *)
(* it covers, a file's path by a name.                                     *)
(***************************************************************************)
EXTENDS PieceLayout

CONSTANTS Odd, Absent,
          Unsafe   \* a name that is no safe path component

(* The places of bytes: file and offset; the names of files.               *)
Bytes == Nat \X Nat
Names == Nat \cup {Unsafe}

(* Odd and Absent are none of the values that a field should hold.         *)
ASSUME MarkersAreNoValues ==
    /\ Odd # Absent
    /\ Unsafe \notin Nat \cup {Odd, Absent, "torrent"}
    /\ \A marker \in {Odd, Absent} :
          /\ marker \notin Nat \cup {"tracker", "torrent"}
          /\ marker \notin Seq([path : Names, length : Nat])
          /\ marker \notin Seq(Bytes)
          /\ marker \notin Seq(Seq(Bytes))

(* _validate_path_component *)
SafeName(name) == name \notin {Odd, Absent, Unsafe}

(* an int, not negative, and no bool *)
IsCount(value) == value \in Nat

(* The `metainfo` of create_metainfo for files of these names and sizes.   *)
Document(names, sizes, pieceLength, hashes) ==
    LET single == Len(names) = 1 IN
    [announce    |-> "tracker",
     name        |-> IF single THEN names[1] ELSE "torrent",
     length      |-> IF single THEN sizes[1] ELSE Absent,
     files       |-> IF single THEN Absent
                     ELSE [f \in DOMAIN names |-> [path |-> names[f], length |-> sizes[f]]],
     pieceLength |-> pieceLength,
     hashes      |-> hashes]

IsSingle(doc) == doc.files = Absent

LayoutOf(doc) ==
    [lengths     |-> IF IsSingle(doc) THEN <<doc.length>>
                     ELSE [f \in DOMAIN doc.files |-> doc.files[f].length],
     pieceLength |-> doc.pieceLength]

(* _build_segments: the place on disk of the byte <<f, o>>.                *)
PlaceOf(doc, f, o) == <<IF IsSingle(doc) THEN doc.name ELSE doc.files[f].path, o>>

(* Mutant of SoundFiles: files may share a path.                           *)
SoundFiles_shared(files) ==
    /\ files \notin {Odd, <<>>}
    /\ \A f \in DOMAIN files : IsCount(files[f].length) /\ SafeName(files[f].path)

(* _validate_multiple_files *)
SoundFiles(files) ==
    /\ files \notin {Odd, <<>>}
    /\ \A f \in DOMAIN files : IsCount(files[f].length) /\ SafeName(files[f].path)
    /\ \A f, g \in DOMAIN files : files[f].path = files[g].path => f = g

(* validate *)
Accepts(doc) ==
    /\ doc.announce \notin {Odd, Absent}
    /\ SafeName(doc.name)
    /\ IsCount(doc.pieceLength) /\ doc.pieceLength > 0
    /\ doc.length = Absent <=> doc.files # Absent
    /\ IF IsSingle(doc) THEN IsCount(doc.length) ELSE SoundFiles(doc.files)
    /\ doc.hashes \notin {Odd, Absent}
    /\ Len(doc.hashes) = PieceCount(LayoutOf(doc))
    /\ \A i \in DOMAIN doc.hashes : doc.hashes[i] # Odd
=============================================================================
