---------------------------- MODULE PieceManager ----------------------------
(***************************************************************************)
(* peer/piece_manager.py: the pieces of one torrent on disk, and the       *)
(* bitfield that says which of them are there.                             *)
(*                                                                         *)
(* A file is known by its size and by the set of its offsets that hold the *)
(* right byte, the one the piece hashes were made from; a piece passes its *)
(* SHA-1 check exactly when all its bytes are right.  Threads write pieces *)
(* (the worker) and read them (the upload handlers) under one lock, the    *)
(* file system may fail half-way, the process may crash and be restarted,  *)
(* and other programs may change the files between two operations.         *)
(***************************************************************************)
EXTENDS PieceLayout

CONSTANTS Layout,         \* of the torrent
          Threads, Free,  \* callers, and the value of a lock nobody holds
          CreateMissing,  \* the constructor's create_missing
          Slack           \* bound: bytes by which a file may exceed its length

ASSUME LockValues == Free \notin Threads
ASSUME CreateMissingIsBoolean == CreateMissing \in BOOLEAN
ASSUME LayoutIsSound ==
    /\ Slack \in Nat
    /\ Layout.lengths \in Seq(Nat)
    /\ Layout.pieceLength \in Nat \ {0}

VARIABLES phase,     \* "closed", "scanning" (in the constructor) or "open"
          scan,      \* the next piece scan_existing will hash
          bitfield,  \* the pieces marked available
          exists,    \* the files on disk
          size,      \* [file |-> its size]
          good,      \* [file |-> its offsets that hold the right byte]
          tampered,  \* history: files were changed from outside while it was open
          unread,    \* history: the pieces the running scan could not read
          lock,
          pc,        \* [thread |-> "idle", "verified" or "writing"]
          piece,     \* [thread |-> the piece it writes]
          todo       \* [thread |-> the files its _write_virtual has to visit]

disk    == <<exists, size, good>>
threads == <<lock, pc, piece, todo>>
history == <<tampered, unread>>
vars    == <<phase, scan, bitfield, disk, history, threads>>

TheFiles  == Files(Layout)
ThePieces == Pieces(Layout)
Length(f) == Layout.lengths[f]
Offsets(f) == 0..(Length(f) - 1)

(* _read_piece_bytes succeeds: no file of the piece is missing or short.   *)
Readable(i) ==
    \A f \in FilesOf(Layout, i) : f \in exists /\ Chunk(Layout, i, f) \subseteq 0..(size[f] - 1)

(* ... and what it reads passes verify_piece.                              *)
Valid(i) ==
    \A f \in FilesOf(Layout, i) : f \in exists /\ Chunk(Layout, i, f) \subseteq good[f]

DiskOK ==
    /\ exists \subseteq TheFiles
    /\ size \in [TheFiles -> Nat]
    /\ good \in [TheFiles -> SUBSET Nat]
    /\ \A f \in TheFiles : /\ size[f] <= Length(f) + Slack
                           /\ good[f] \subseteq Offsets(f) \cap 0..(size[f] - 1)
                           /\ f \notin exists => size[f] = 0

TypeOK ==
    /\ DiskOK
    /\ phase \in {"closed", "scanning", "open"}
    /\ scan \in 0..PieceCount(Layout)
    /\ bitfield \subseteq ThePieces
    /\ tampered \in BOOLEAN
    /\ unread \subseteq ThePieces
    /\ lock \in Threads \cup {Free}
    /\ pc \in [Threads -> {"idle", "verified", "writing"}]
    /\ piece \in [Threads -> ThePieces \cup {0}]
    /\ todo \in [Threads -> SUBSET TheFiles]

(* The storage directory may hold anything: nothing, shorter or longer     *)
(* files, files of another content, or an earlier download.                *)
Init ==
    /\ phase = "closed" /\ scan = 0 /\ bitfield = {}
    /\ exists \in SUBSET TheFiles
    /\ size \in [TheFiles -> UNION {0..(Length(f) + Slack) : f \in TheFiles}]
    /\ good \in [TheFiles -> SUBSET UNION {Offsets(f) : f \in TheFiles}]
    /\ DiskOK
    /\ tampered = FALSE /\ unread = {}
    /\ lock = Free
    /\ pc = [th \in Threads |-> "idle"]
    /\ piece = [th \in Threads |-> 0]
    /\ todo = [th \in Threads |-> {}]

-----------------------------------------------------------------------------
(* _prepare_storage, or its absence: create the missing files and extend   *)
(* the short ones with zeros; a longer file is left as it is.              *)
PrepareStorage ==
    IF CreateMissing
    THEN /\ exists' = TheFiles
         /\ size' = [f \in TheFiles |-> Max({size[f], Length(f)})]
         /\ UNCHANGED good
    ELSE UNCHANGED disk

Open ==
    /\ phase = "closed"
    /\ phase' = "scanning"
    /\ scan' = 0
    /\ bitfield' = {}
    /\ PrepareStorage
    /\ UNCHANGED <<history, threads>>

(* Mutant of ScanPiece: a readable piece is taken without hashing it.      *)
ScanPiece_unhashed ==
    /\ phase = "scanning"
    /\ scan < PieceCount(Layout)
    /\ bitfield' = IF Readable(scan) THEN bitfield \cup {scan} ELSE bitfield \ {scan}
    /\ scan' = scan + 1
    /\ UNCHANGED <<phase, disk, history, threads>>

(* One iteration of scan_existing; a piece that cannot be read, be it for  *)
(* an error of the moment, is missing.                                     *)
ScanPiece ==
    /\ phase = "scanning"
    /\ scan < PieceCount(Layout)
    /\ \/ /\ bitfield' = IF Valid(scan) THEN bitfield \cup {scan} ELSE bitfield \ {scan}
          /\ UNCHANGED unread
       \/ /\ bitfield' = bitfield \ {scan}
          /\ unread' = unread \cup {scan}
    /\ scan' = scan + 1
    /\ UNCHANGED <<phase, disk, tampered, threads>>

(* Mutant of ScanEnd: the last piece is not looked at.                     *)
ScanEnd_early ==
    /\ phase = "scanning"
    /\ scan >= PieceCount(Layout) - 1
    /\ phase' = "open"
    /\ unread' = {}
    /\ UNCHANGED <<scan, bitfield, disk, tampered, threads>>

ScanEnd ==
    /\ phase = "scanning"
    /\ scan = PieceCount(Layout)
    /\ phase' = "open"
    /\ unread' = {}
    /\ UNCHANGED <<scan, bitfield, disk, tampered, threads>>

-----------------------------------------------------------------------------
(* write_piece.  Length and hash are checked before the lock is taken;     *)
(* data that fails them is refused and changes nothing.                    *)
WritePiece(th, i) ==
    /\ phase = "open"
    /\ pc[th] = "idle"
    /\ pc' = [pc EXCEPT ![th] = "verified"]
    /\ piece' = [piece EXCEPT ![th] = i]
    /\ UNCHANGED <<phase, scan, bitfield, disk, history, lock, todo>>

LockForWrite(th) ==
    /\ pc[th] = "verified"
    /\ lock = Free
    /\ lock' = th
    /\ pc' = [pc EXCEPT ![th] = "writing"]
    /\ todo' = [todo EXCEPT ![th] = FilesOf(Layout, piece[th])]
    /\ UNCHANGED <<phase, scan, bitfield, disk, history, piece>>

(* Mutant of OpenForWrite: the file is always opened with "w+b".           *)
OpenForWrite_truncating(f, written) ==
    /\ exists' = exists \cup {f}
    /\ size' = [size EXCEPT ![f] = Length(f)]
    /\ good' = [good EXCEPT ![f] = written]

(* Opening a file for writing: an existing one is kept ("r+b"), a missing  *)
(* one is created, and a short one is extended with zeros.                 *)
OpenForWrite(f, written) ==
    /\ exists' = exists \cup {f}
    /\ size' = [size EXCEPT ![f] = Max({@, Length(f)})]
    /\ good' = [good EXCEPT ![f] = @ \cup written]

NextFile(th) == {f \in todo[th] : \A g \in todo[th] : f <= g}

WriteSegment(th) ==
    /\ pc[th] = "writing"
    /\ \E f \in NextFile(th) :
          /\ OpenForWrite(f, Chunk(Layout, piece[th], f))
          /\ todo' = [todo EXCEPT ![th] = @ \ {f}]
    /\ UNCHANGED <<phase, scan, bitfield, history, lock, pc, piece>>

Release(th) ==
    /\ lock' = Free
    /\ pc' = [pc EXCEPT ![th] = "idle"]
    /\ piece' = [piece EXCEPT ![th] = 0]
    /\ todo' = [todo EXCEPT ![th] = {}]

(* An OSError (disk full, no permission) after some of the bytes of one    *)
(* file: earlier files stay written, the bit stays as it was.              *)
WriteFails(th) ==
    /\ pc[th] = "writing"
    /\ \E f \in NextFile(th) : \E n \in 0..ChunkSize(Layout, piece[th], f) :
          \/ OpenForWrite(f, LocalOffset(Layout, piece[th], f)..
                               (LocalOffset(Layout, piece[th], f) + n - 1))
          \/ UNCHANGED disk
    /\ Release(th)
    /\ UNCHANGED <<phase, scan, bitfield, history>>

(* Mutant of WriteDone: the bit is set with files still to write.          *)
WriteDone_early(th) ==
    /\ pc[th] = "writing"
    /\ bitfield' = bitfield \cup {piece[th]}
    /\ Release(th)
    /\ UNCHANGED <<phase, scan, disk, history>>

WriteDone(th) ==
    /\ pc[th] = "writing"
    /\ todo[th] = {}
    /\ bitfield' = bitfield \cup {piece[th]}
    /\ Release(th)
    /\ UNCHANGED <<phase, scan, disk, history>>

(* read_piece changes something only when the stored piece is readable and *)
(* no longer matches its hash; a missing or short file leaves the bit set. *)
ReadMismatch(i) ==
    /\ phase = "open"
    /\ lock = Free
    /\ i \in bitfield
    /\ Readable(i) /\ ~Valid(i)
    /\ bitfield' = bitfield \ {i}
    /\ UNCHANGED <<phase, scan, disk, history, threads>>

-----------------------------------------------------------------------------
(* The process ends or crashes at any moment; a restart opens again.       *)
Crash ==
    /\ phase # "closed"
    /\ phase' = "closed" /\ scan' = 0 /\ bitfield' = {}
    /\ tampered' = FALSE /\ unread' = {}
    /\ lock' = Free
    /\ pc' = [th \in Threads |-> "idle"]
    /\ piece' = [th \in Threads |-> 0]
    /\ todo' = [th \in Threads |-> {}]
    /\ UNCHANGED disk

(* Another program overwrites a byte, deletes or shortens a file, between  *)
(* two operations or between two runs.                                     *)
Tamper ==
    /\ lock = Free /\ phase \in {"closed", "open"}
    /\ tampered' = (phase = "open")
    /\ \E f \in exists :
          \/ /\ \E o \in good[f] : good' = [good EXCEPT ![f] = @ \ {o}]
             /\ UNCHANGED <<exists, size>>
          \/ /\ exists' = exists \ {f}
             /\ size' = [size EXCEPT ![f] = 0]
             /\ good' = [good EXCEPT ![f] = {}]
          \/ /\ size[f] > 0
             /\ size' = [size EXCEPT ![f] = @ - 1]
             /\ good' = [good EXCEPT ![f] = @ \ {size[f] - 1}]
             /\ UNCHANGED exists
    /\ UNCHANGED <<phase, scan, bitfield, unread, threads>>

Next ==
    \/ Open \/ ScanPiece \/ ScanEnd
    \/ \E th \in Threads : \/ \E i \in ThePieces : WritePiece(th, i)
                           \/ LockForWrite(th) \/ WriteSegment(th)
                           \/ WriteFails(th) \/ WriteDone(th)
    \/ \E i \in ThePieces : ReadMismatch(i)
    \/ Crash
    \/ Tamper

Spec == Init /\ [][Next]_vars

-----------------------------------------------------------------------------
(* What the bitfield promises to other peers: unless the files are changed *)
(* under the open manager, every piece it lists is on disk with all its    *)
(* bytes right, at every moment of every concurrent write, failed write    *)
(* and restart.                                                            *)
BitfieldSound == ~tampered => \A i \in bitfield : Valid(i)

(* is_complete() means the whole content is there: pieces cover every byte *)
(* of every file, and files of length zero, which no piece touches, exist. *)
CompleteMeansContent ==
    (phase = "open" /\ bitfield = ThePieces /\ CreateMissing /\ ~tampered) =>
        \A f \in TheFiles : f \in exists /\ good[f] = Offsets(f)

(* No write, failed write, crash or restart destroys a piece that is right *)
(* on disk, though pieces share files.  Only other programs do.            *)
NothingLost == [][Tamper \/ \A i \in ThePieces : Valid(i) => Valid(i)']_vars

(* A restart resumes from what is on disk: the scan finds every right      *)
(* piece it could read and no other.                                       *)
ScanFindsAll ==
    [][phase = "scanning" /\ phase' = "open" =>
          bitfield' = {i \in ThePieces \ unread : Valid(i)}]_vars

(* Whatever happened to the files since they were scanned, a bit is only   *)
(* set for a piece that is right on disk at that moment: writing recreates *)
(* deleted files and repairs shortened ones.                               *)
SetOnlyWhenValid == [][\A i \in bitfield' \ bitfield : Valid(i)']_vars
=============================================================================
