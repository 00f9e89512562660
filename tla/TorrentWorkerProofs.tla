------------------------ MODULE TorrentWorkerProofs ------------------------
(***************************************************************************)
(* Proofs about TorrentWorker, for any finite set of workers, any number   *)
(* of pieces, any choice of seeders, lingering and endless workers, any    *)
(* max_cycles, and every set of faults unless the theorem names those it   *)
(* excludes.                                                               *)
(***************************************************************************)
EXTENDS TorrentWorker, FiniteSetTheorems, TLAPS

Clients == Workers \X Events

(* A worker's pieces, with the record of those it gave up.                 *)
USE DEF storage

(* The worker is waiting for the answer to this announce, and the announce *)
(* or its answer is still on the way.                                      *)
Awaits(w, e)   == pc[w] = "asking" /\ event[w] = e
Underway(w, e) == asked[<<w, e>>] # NoRequest \/ answer[<<w, e>>] # NoReply

(* Inside the main loop.                                                   *)
Loop == {"loop", "ping", "download", "interest", "request", "cycleEnd", "sleep"}

-----------------------------------------------------------------------------
(* Type correctness.                                                       *)

SeedsAreMembers == seeds[Torrent] \subseteq Registered

TrackerType == Tracker!TypeOK /\ SeedsAreMembers

(* A worker enters the main loop's head with a cycle to spare: the end of  *)
(* the iteration has looked at the counter.                                *)
CyclesLeft ==
    \A w \in Workers \ Endless :
        (\/ pc[w] \in {"new", "loop", "sleep"}
         \/ Awaits(w, "started")
         \/ Awaits(w, "none"))
        => cycles[w] < MaxCycles

WorkerType ==
    /\ pc \in [Workers -> Points]
    /\ event \in [Workers -> Events]
    /\ have \in [Workers -> SUBSET Pieces]
    /\ spoilt \in [Workers -> SUBSET Pieces]
    /\ serving \in [Workers -> BOOLEAN]
    /\ stop \in [Workers -> BOOLEAN]
    /\ peers \in [Workers -> SUBSET Workers]
    /\ todo \in [Workers -> SUBSET Workers]
    /\ responsive \in [Workers -> SUBSET Workers]
    /\ source \in [Workers -> Workers]
    /\ wanted \in [Workers -> SUBSET Pieces]
    /\ cycles \in [Workers -> 0..MaxCycles]
    /\ sent \in [Workers -> SUBSET {"started", "completed", "stopped"}]
    /\ CyclesLeft

TypeInv == TrackerType /\ WorkerType

LEMMA TypeInvImpliesTypeOK == TypeInv => TypeOK
BY DEF TypeInv, TrackerType, WorkerType, TypeOK

LEMMA SnapshotIsReply ==
    ASSUME NEW S \in SUBSET Peers, NEW C \in SUBSET S, NEW p
    PROVE  Snapshot(S, C, p) \in Replies
<1>1. IsFiniteSet(S) /\ IsFiniteSet(C)
  BY FS_Subset, FinitelyManyWorkers DEF Workers
<1>2. Cardinality(S) \in Nat /\ Cardinality(C) \in Nat /\ Cardinality(C) <= Cardinality(S)
  BY <1>1, FS_CardinalityType, FS_Subset
<1>3. Cardinality(S) - Cardinality(C) \in Nat
  BY <1>2
<1> QED
  BY <1>2, <1>3 DEF Snapshot, Replies

LEMMA EmptyIsReply == \A k \in {"none", "ok", "refused", "error"} : Empty(k) \in Replies
BY DEF Empty, Replies

LEMMA NoReplyKind == NoReply.kind = "none" /\ NoReply \in Replies
BY EmptyIsReply DEF NoReply, Empty

(* The tracker's vocabulary is the workers'.                               *)
LEMMA TrackerNames ==
    /\ Tracker!Requests = Requests
    /\ Tracker!Replies = Replies
    /\ Tracker!NoReply = NoReply
    /\ \A k : Tracker!Empty(k) = Empty(k)
    /\ \A S, C, p : Tracker!Snapshot(S, C, p) = Snapshot(S, C, p)
    /\ \A r : Tracker!IsSeeding(r) = IsSeeding(r)
<1>1. Tracker!Requests = Requests
  BY DEF Tracker!Requests, Requests, Tracker!Events, Events
<1>2. Tracker!Replies = Replies
  BY DEF Tracker!Replies, Replies
<1>3. \A k : Tracker!Empty(k) = Empty(k)
  BY DEF Tracker!Empty, Empty
<1>4. Tracker!NoReply = NoReply
  BY <1>3 DEF Tracker!NoReply, NoReply
<1>5. \A S, C, p : Tracker!Snapshot(S, C, p) = Snapshot(S, C, p)
  <2>1. ASSUME NEW S
        PROVE  Tracker!Cardinality(S) = Cardinality(S)
    BY DEF Tracker!Cardinality, Cardinality
  <2> QED
    BY <2>1 DEF Tracker!Snapshot, Snapshot
<1>6. \A r : Tracker!IsSeeding(r) = IsSeeding(r)
  BY DEF Tracker!IsSeeding, IsSeeding
<1> QED
  BY <1>1, <1>2, <1>3, <1>4, <1>5, <1>6

(* What an announce a worker sends looks like.                             *)
Asking(w, e) == [torrent |-> Torrent, peer |-> w, event |-> e,
                 leftZero |-> e = "stopped" \/ Complete(w)]

LEMMA AskingIsRequest ==
    ASSUME NEW w \in Workers, NEW e \in Events
    PROVE  Asking(w, e) \in Requests
BY SwarmIsOneTorrent DEF Asking, Requests, Workers, Events, Complete

LEMMA RequestFields ==
    ASSUME NEW r \in Requests
    PROVE  r.torrent = Torrent /\ r.peer \in Workers /\ r.event \in Events
BY SwarmIsOneTorrent DEF Requests, Workers

-----------------------------------------------------------------------------
(* The tracker's operations keep its type.                                 *)

LEMMA LeaveType ==
    ASSUME TrackerType, NEW t \in Torrents, NEW S, Tracker!Leave(t, S)
    PROVE  /\ members' \in [Torrents -> SUBSET Peers]
           /\ seeds' \in [Torrents -> SUBSET Peers]
           /\ SeedsAreMembers'
BY SwarmIsOneTorrent, TrackerNames
DEF Tracker!Leave, TrackerType, Tracker!TypeOK, SeedsAreMembers, Registered

LEMMA EnterType ==
    ASSUME TrackerType, NEW t \in Torrents, NEW p \in Peers, NEW b, Tracker!Enter(t, p, b)
    PROVE  /\ members' \in [Torrents -> SUBSET Peers]
           /\ seeds' \in [Torrents -> SUBSET Peers]
           /\ SeedsAreMembers'
BY SwarmIsOneTorrent, TrackerNames
DEF Tracker!Enter, TrackerType, Tracker!TypeOK, SeedsAreMembers, Registered

LEMMA ApplyType ==
    ASSUME TrackerType, NEW r \in Requests, Tracker!Apply(r)
    PROVE  /\ members' \in [Torrents -> SUBSET Peers]
           /\ seeds' \in [Torrents -> SUBSET Peers]
           /\ SeedsAreMembers'
<1>1. r.torrent \in Torrents /\ r.peer \in Peers
  BY DEF Requests
<1>2. CASE r.event = "stopped"
  BY <1>1, <1>2, LeaveType DEF Tracker!Apply
<1>3. CASE r.event # "stopped"
  BY <1>1, <1>3, EnterType DEF Tracker!Apply
<1> QED
  BY <1>2, <1>3

LEMMA AskType ==
    ASSUME TrackerType, NEW c \in Clients, NEW r \in Requests, Tracker!Ask(c, r)
    PROVE  TrackerType'
BY TrackerNames
DEF Tracker!Ask, TrackerType, Tracker!TypeOK, SeedsAreMembers, Registered,
    Clients

LEMMA TakeReplyType ==
    ASSUME TrackerType, NEW c \in Clients, Tracker!TakeReply(c)
    PROVE  TrackerType'
BY NoReplyKind, TrackerNames
DEF Tracker!TakeReply, TrackerType, Tracker!TypeOK, SeedsAreMembers, Registered, Clients

LEMMA ServeType ==
    ASSUME TrackerType, NEW c \in Clients, Tracker!Serve(c)
    PROVE  TrackerType'
<1> DEFINE r == asked[c]
<1>1. r \in Requests /\ Tracker!Apply(r)
  BY TrackerNames DEF Tracker!Serve
<1>2. /\ members' \in [Torrents -> SUBSET Peers]
      /\ seeds' \in [Torrents -> SUBSET Peers]
      /\ SeedsAreMembers'
  BY <1>1, ApplyType
<1>3. Snapshot(members'[r.torrent], seeds'[r.torrent], r.peer) \in Replies
  BY <1>1, <1>2, RequestFields, SnapshotIsReply, SwarmIsOneTorrent
  DEF SeedsAreMembers, Registered
<1>4. answer' \in [Clients -> Replies]
  BY <1>3, TrackerNames DEF Tracker!Serve, TrackerType, Tracker!TypeOK, Clients
<1>5. asked' \in [Clients -> Requests \cup {NoRequest}]
  BY TrackerNames DEF Tracker!Serve, TrackerType, Tracker!TypeOK, Clients
<1> QED
  BY <1>2, <1>4, <1>5, TrackerNames DEF TrackerType, Tracker!TypeOK, Clients

LEMMA TrackerServesType ==
    ASSUME TrackerType, NEW c \in Clients, TrackerServes(c)
    PROVE  TrackerType'
<1>1. CASE Tracker!Serve(c)
  BY <1>1, ServeType
<1>2. CASE Tracker!Refuse(c)
  BY <1>2, EmptyIsReply, TrackerNames
  DEF Tracker!Refuse, TrackerType, Tracker!TypeOK, SeedsAreMembers, Registered, Clients
<1>3. CASE Tracker!Fail(c)
  <2>1. asked[c] \in Requests /\ Tracker!Apply(asked[c])
    BY <1>3, TrackerNames DEF Tracker!Fail
  <2>2. answer' \in [Clients -> Replies] /\ asked' \in [Clients -> Requests \cup {NoRequest}]
    BY <1>3, EmptyIsReply, TrackerNames
    DEF Tracker!Fail, TrackerType, Tracker!TypeOK, Clients
  <2> QED
    BY <2>1, <2>2, ApplyType, TrackerNames DEF TrackerType, Tracker!TypeOK, Clients
<1> QED
  BY <1>1, <1>2, <1>3 DEF TrackerServes

LEMMA DropType ==
    ASSUME TrackerType, NEW w \in Workers, Tracker!Drop(Torrent, {w})
    PROVE  TrackerType'
<1>1. Torrent \in Torrents
  BY SwarmIsOneTorrent
<1> QED
  BY <1>1, LeaveType, TrackerNames DEF Tracker!Drop, TrackerType, Tracker!TypeOK

-----------------------------------------------------------------------------
(* Every step keeps the types.                                             *)

LEMMA TypeInit == Init => TypeInv
<1> SUFFICES ASSUME Init
             PROVE  TypeInv
  OBVIOUS
<1>1. TrackerType
  BY TrackerNames, NoReplyKind, SwarmIsOneTorrent
  DEF Init, Tracker!Init, TrackerType, Tracker!TypeOK, SeedsAreMembers, Registered
<1>2. WorkerType
  BY CountsAreNatural
  DEF Init, WorkerType, Points, Events, CyclesLeft, Awaits
<1> QED
  BY <1>1, <1>2 DEF TypeInv

LEMMA TrackerUnchanged ==
    ASSUME TrackerType, UNCHANGED tracker
    PROVE  TrackerType'
BY DEF TrackerType, Tracker!TypeOK, SeedsAreMembers, Registered, tracker

(* An announce that is sent, at a control point with a cycle to spare.     *)
LEMMA AnnounceType ==
    ASSUME TypeInv, NEW w \in Workers, NEW e \in Events, Announce(w, e),
           w \notin Endless /\ e \in {"started", "none"} => cycles[w] < MaxCycles,
           UNCHANGED <<have, stop, peers, download, cycles, sent>>,
           serving' \in [Workers -> BOOLEAN]
    PROVE  TypeInv'
<1>1. TrackerType'
  BY AskType, AskingIsRequest, TrackerUnchanged DEF Announce, Asking, Clients, TypeInv
<1>2. WorkerType'
  BY DEF Announce, Goto, TypeInv, WorkerType, Points, download, CyclesLeft, Awaits
<1> QED
  BY <1>1, <1>2 DEF TypeInv

LEMMA AfterCycleType ==
    ASSUME WorkerType, NEW w \in Workers, NEW complete
    PROVE  /\ AfterCycle(w, complete) \in {"closing", "sleep"}
           /\ w \notin Endless /\ AfterCycle(w, complete) = "sleep" => cycles[w] < MaxCycles
<1>1. cycles[w] \in 0..MaxCycles /\ MaxCycles \in Nat
  BY CountsAreNatural DEF WorkerType
<1> QED
  BY <1>1 DEF AfterCycle

LEMMA AcceptedType ==
    ASSUME TypeInv, NEW w \in Workers, Accepted(w)
    PROVE  TypeInv'
<1>1. event[w] \in Events /\ <<w, event[w]>> \in Clients
  BY DEF TypeInv, WorkerType, Clients
<1>2. TrackerType'
  BY <1>1, TakeReplyType DEF Accepted, TypeInv
<1>3. answer[<<w, event[w]>>].peers \subseteq Workers
  BY <1>1, TrackerNames
  DEF TypeInv, TrackerType, Tracker!TypeOK, Replies, Clients, Workers
<1> DEFINE next == CASE event[w] \in {"started", "none"} -> "loop"
                     [] event[w] = "completed" -> AfterCycle(w, TRUE)
                     [] event[w] = "stopped" -> "stopping"
<1>4. /\ next \in {"loop", "sleep", "closing", "stopping"}
      /\ w \notin Endless /\ next \in {"loop", "sleep"} => cycles[w] < MaxCycles
  BY <1>1, AfterCycleType DEF Events, Accepted, TypeInv, WorkerType, CyclesLeft, Awaits
<1>5. pc' = [pc EXCEPT ![w] = next]
  BY DEF Accepted, Goto
<1> HIDE DEF next
<1>6. CyclesLeft'
  BY <1>4, <1>5 DEF Accepted, TypeInv, WorkerType, CyclesLeft, Awaits
<1>7. /\ peers' \in [Workers -> SUBSET Workers]
      /\ sent' \in [Workers -> SUBSET {"started", "completed", "stopped"}]
      /\ pc' \in [Workers -> Points]
  BY <1>1, <1>3, <1>4, <1>5 DEF Accepted, TypeInv, WorkerType, Points, Events
<1>8. WorkerType'
  BY <1>6, <1>7 DEF Accepted, TypeInv, WorkerType, download
<1> QED
  BY <1>2, <1>8 DEF TypeInv

LEMMA AnnounceFailedType ==
    ASSUME WorkerType, NEW w \in Workers, AnnounceFailed(w)
    PROVE  WorkerType'
BY DEF AnnounceFailed, Goto, WorkerType, Points, download, CyclesLeft, Awaits

LEMMA TypeStep == TypeInv /\ [Next]_vars => TypeInv'
<1> SUFFICES ASSUME TypeInv, [Next]_vars
             PROVE  TypeInv'
  OBVIOUS
<1> USE DEF TypeInv
<1>1. ASSUME NEW w \in Workers, Boot(w)
      PROVE  TypeInv'
  <2>1. w \notin Endless => cycles[w] < MaxCycles
    BY <1>1 DEF Boot, WorkerType, CyclesLeft
  <2>2. serving' \in [Workers -> BOOLEAN]
    BY <1>1 DEF Boot, WorkerType
  <2> QED
    BY <1>1, <2>1, <2>2, AnnounceType DEF Boot, Events
<1>2. ASSUME NEW w \in Workers, Accepted(w)
      PROVE  TypeInv'
  BY <1>2, AcceptedType
<1>3. ASSUME NEW w \in Workers, Rejected(w)
      PROVE  TypeInv'
  <2>1. <<w, event[w]>> \in Clients
    BY DEF WorkerType, Clients
  <2> QED
    BY <1>3, <2>1, TakeReplyType, AnnounceFailedType DEF Rejected
<1>4. ASSUME NEW w \in Workers, RequestLost(w)
      PROVE  TypeInv'
  BY <1>4, TrackerUnchanged, AnnounceFailedType DEF RequestLost
<1>5. ASSUME NEW w \in Workers, TimedOut(w)
      PROVE  TypeInv'
  BY <1>5, TrackerUnchanged, AnnounceFailedType DEF TimedOut
<1>6. ASSUME NEW w \in Workers, EndCycle(w)
      PROVE  TypeInv'
  <2>1. CASE Announce(w, "completed")
    BY <1>6, <2>1, AnnounceType DEF EndCycle, Events, WorkerType
  <2>2. CASE Goto(w, AfterCycle(w, Complete(w))) /\ UNCHANGED <<tracker, event, spoilt>>
    <3> DEFINE next == AfterCycle(w, Complete(w))
    <3>1. /\ next \in Points
          /\ w \notin Endless /\ next \in {"loop", "sleep"} => cycles[w] < MaxCycles
          /\ next \notin {"new", "asking"}
      BY AfterCycleType DEF Points
    <3>2. WorkerType'
      BY <1>6, <2>2, <3>1 DEF EndCycle, Goto, WorkerType, download, CyclesLeft, Awaits
    <3> QED
      BY <2>2, <3>2, TrackerUnchanged
  <2> QED
    BY <1>6, <2>1, <2>2 DEF EndCycle
<1>7. ASSUME NEW w \in Workers, Wake(w)
      PROVE  TypeInv'
  <2>1. CASE Announce(w, "none")
    <3>1. w \notin Endless => cycles[w] < MaxCycles
      BY <1>7 DEF Wake, WorkerType, CyclesLeft
    <3> QED
      BY <1>7, <2>1, <3>1, AnnounceType DEF Wake, Events, WorkerType
  <2>2. CASE Goto(w, "closing") /\ UNCHANGED <<tracker, event, spoilt>>
    <3>1. WorkerType'
      BY <1>7, <2>2
      DEF Wake, Goto, WorkerType, Points, download, control, CyclesLeft,
          Awaits
    <3> QED
      BY <2>2, <3>1, TrackerUnchanged
  <2> QED
    BY <1>7, <2>1, <2>2 DEF Wake
<1>8. ASSUME NEW w \in Workers, Close(w)
      PROVE  TypeInv'
  <2>1. CASE Announce(w, "stopped")
    BY <1>8, <2>1, AnnounceType DEF Close, Events, WorkerType
  <2>2. CASE Goto(w, "stopping") /\ UNCHANGED <<tracker, event, spoilt>>
    <3>1. WorkerType'
      BY <1>8, <2>2
      DEF Close, Goto, WorkerType, Points, download, control, CyclesLeft,
          Awaits
    <3> QED
      BY <2>2, <3>1, TrackerUnchanged
  <2> QED
    BY <1>8, <2>1, <2>2 DEF Close
<1>9. ASSUME NEW w \in Workers, BootFails(w)
      PROVE  TypeInv'
  <2>1. WorkerType'
    BY <1>9 DEF BootFails, Goto, WorkerType, Points, download, control, CyclesLeft, Awaits
  <2> QED
    BY <1>9, <2>1, TrackerUnchanged DEF BootFails
<1>10. ASSUME NEW w \in Workers, ConnectionReset(w)
      PROVE  TypeInv'
  <2>1. WorkerType'
    BY <1>10
    DEF ConnectionReset, Goto, WorkerType, Points, download, control,
        CyclesLeft, Awaits
  <2> QED
    BY <1>10, <2>1, TrackerUnchanged DEF ConnectionReset
<1>11. ASSUME NEW w \in Workers, BeginCycle(w)
      PROVE  TypeInv'
  <2>1. CASE stop[w]
    BY <1>11, <2>1, TrackerUnchanged
    DEF BeginCycle, Goto, WorkerType, Points, CyclesLeft, Awaits
  <2>2. CASE ~stop[w]
    <3>1. (IF w \in Endless THEN cycles[w] ELSE cycles[w] + 1) \in 0..MaxCycles
      BY <1>11, CountsAreNatural DEF BeginCycle, WorkerType, CyclesLeft
    <3>2. cycles' \in [Workers -> 0..MaxCycles]
      BY <1>11, <2>2, <3>1 DEF BeginCycle, WorkerType
    <3>3. CyclesLeft'
      BY <1>11, <2>2 DEF BeginCycle, Goto, WorkerType, CyclesLeft, Awaits
    <3>4. WorkerType'
      BY <1>11, <2>2, <3>2, <3>3 DEF BeginCycle, Goto, WorkerType, Points
    <3> QED
      BY <1>11, <3>4, TrackerUnchanged DEF BeginCycle
  <2> QED
    BY <2>1, <2>2
<1>12. ASSUME NEW w \in Workers, PingsDone(w)
      PROVE  TypeInv'
  <2>1. WorkerType'
    BY <1>12
    DEF PingsDone, Goto, WorkerType, Points, download, control, CyclesLeft,
        Awaits
  <2> QED
    BY <1>12, <2>1, TrackerUnchanged DEF PingsDone
<1>13. ASSUME NEW w \in Workers, ExpressInterest(w)
      PROVE  TypeInv'
  <2>1. WorkerType'
    BY <1>13
    DEF ExpressInterest, Goto, WorkerType, Points, download, control,
        CyclesLeft, Awaits
  <2> QED
    BY <1>13, <2>1, TrackerUnchanged DEF ExpressInterest
<1>14. ASSUME NEW w \in Workers, RequestPiece(w)
      PROVE  TypeInv'
  <2>1. WorkerType'
    BY <1>14
    DEF RequestPiece, Goto, WorkerType, Points, download, control, CyclesLeft,
        Awaits
  <2> QED
    BY <1>14, <2>1, TrackerUnchanged DEF RequestPiece
<1>15. ASSUME NEW w \in Workers, RequestsDone(w)
      PROVE  TypeInv'
  <2>1. WorkerType'
    BY <1>15
    DEF RequestsDone, Goto, WorkerType, Points, download, control, CyclesLeft,
        Awaits
  <2> QED
    BY <1>15, <2>1, TrackerUnchanged DEF RequestsDone
<1>16. ASSUME NEW w \in Workers, DownloadsDone(w)
      PROVE  TypeInv'
  <2>1. WorkerType'
    BY <1>16
    DEF DownloadsDone, Goto, WorkerType, Points, download, control,
        CyclesLeft, Awaits
  <2> QED
    BY <1>16, <2>1, TrackerUnchanged DEF DownloadsDone
<1>17. ASSUME NEW w \in Workers, StopServer(w)
      PROVE  TypeInv'
  <2>1. WorkerType'
    BY <1>17
    DEF StopServer, Goto, WorkerType, Points, download, control, CyclesLeft,
        Awaits
  <2> QED
    BY <1>17, <2>1, TrackerUnchanged DEF StopServer
<1>18. ASSUME NEW w \in Workers, StopRequested(w)
      PROVE  TypeInv'
  <2>1. WorkerType'
    BY <1>18
    DEF StopRequested, Goto, WorkerType, Points, download, control,
        CyclesLeft, Awaits
  <2> QED
    BY <1>18, <2>1, TrackerUnchanged DEF StopRequested
<1>19. ASSUME NEW w \in Workers, Crash(w)
      PROVE  TypeInv'
  <2>1. WorkerType'
    BY <1>19 DEF Crash, Goto, WorkerType, Points, download, control, CyclesLeft, Awaits
  <2> QED
    BY <1>19, <2>1, TrackerUnchanged DEF Crash
<1>20. ASSUME NEW w \in Workers, NEW q \in Workers, Ping(w, q)
      PROVE  TypeInv'
  <2>1. WorkerType'
    BY <1>20 DEF Ping, Goto, WorkerType, Points, download, control, CyclesLeft, Awaits
  <2> QED
    BY <1>20, <2>1, TrackerUnchanged DEF Ping
<1>21. ASSUME NEW w \in Workers, NEW q \in Workers, FetchBitfield(w, q)
      PROVE  TypeInv'
  <2>1. WorkerType'
    <3>1. PICK point \in {"download", "interest", "closing"} : pc' = [pc EXCEPT ![w] = point]
      BY <1>21 DEF FetchBitfield, Goto
    <3>2. /\ pc' \in [Workers -> Points]
          /\ \A v \in Workers : pc'[v] = pc[v] \/ pc'[v] \in {"download", "interest", "closing"}
      BY <3>1 DEF WorkerType, Points
    <3>3. /\ todo' \in [Workers -> SUBSET Workers]
          /\ source' \in [Workers -> Workers]
      BY <1>21 DEF FetchBitfield, WorkerType
    <3>4. wanted' \in [Workers -> SUBSET Pieces]
      BY <1>21 DEF FetchBitfield, WorkerType
    <3>5. UNCHANGED <<event, sent, cycles, peers, have, spoilt, serving, stop, responsive>>
      BY <1>21 DEF FetchBitfield
    <3>6. CyclesLeft'
      BY <3>2, <3>5 DEF WorkerType, CyclesLeft, Awaits
    <3> QED
      BY <3>2, <3>3, <3>4, <3>5, <3>6 DEF WorkerType
  <2> QED
    BY <1>21, <2>1, TrackerUnchanged DEF FetchBitfield
<1>22. ASSUME NEW c \in Clients, TrackerServes(c)
      PROVE  TypeInv'
  BY <1>22, TrackerServesType
  DEF TrackerServes, WorkerType, worker, control, download, CyclesLeft, Awaits
<1>23. ASSUME NEW c \in Clients, Discard(c)
      PROVE  TypeInv'
  BY <1>23, TakeReplyType
  DEF Discard, WorkerType, worker, control, download, CyclesLeft, Awaits
<1>24. ASSUME NEW w \in Workers, Evicted(w)
      PROVE  TypeInv'
  BY <1>24, DropType
  DEF Evicted, WorkerType, worker, control, download, CyclesLeft, Awaits
<1>25. ASSUME NEW w \in Workers, NEW i \in Pieces, UploadFindsRot(w, i)
      PROVE  TypeInv'
  <2>1. WorkerType'
    BY <1>25 DEF UploadFindsRot, WorkerType, download, control, CyclesLeft, Awaits
  <2> QED
    BY <1>25, <2>1, TrackerUnchanged DEF UploadFindsRot
<1>26. CASE UNCHANGED vars
  BY <1>26, TrackerUnchanged DEF vars, WorkerType, control, download, CyclesLeft, Awaits
<1> QED
  BY <1>1, <1>2, <1>3, <1>4, <1>5, <1>6, <1>7, <1>8, <1>9, <1>10, <1>11,
     <1>12, <1>13, <1>14, <1>15, <1>16, <1>17, <1>18, <1>19, <1>20, <1>21,
     <1>22, <1>23, <1>24, <1>25, <1>26
  DEF Next, Step, Fault, Clients

(* Every worker and the tracker keep their state within its type.          *)
THEOREM TypeCorrect == Spec => []TypeOK
BY TypeInit, TypeStep, TypeInvImpliesTypeOK, PTL DEF Spec

-----------------------------------------------------------------------------
(* What a step does to the announces.  Most steps send nothing and take no *)
(* answer: they move a worker forward within the main loop or out of it.   *)

(* A worker on its way out announces nothing but `stopped`.                *)
Leaving(w) ==
    pc[w] \in {"closing", "stopping", "done", "raised", "crashed"} \/ Awaits(w, "stopped")

NoAnnounce ==
    /\ UNCHANGED <<sent, peers>>
    /\ \A v \in Workers :
          /\ have[v] \cup spoilt[v] \subseteq have'[v] \cup spoilt'[v]
          /\ pc'[v] = "new" => pc[v] = "new"
          /\ pc'[v] \in Loop => pc[v] \in Loop
          /\ pc'[v] = "asking" => pc[v] = "asking" /\ event'[v] = event[v]
          /\ Leaving(v) => Leaving(v)'
          /\ pc[v] = "asking" => Leaving(v)' \/ pc'[v] = "asking"

(* `started` is announced first, the others once it was answered.          *)
Sends(w, e) ==
    /\ Announce(w, e)
    /\ UNCHANGED <<sent, peers, have>>
    /\ e = "started" => pc[w] = "new"
    /\ e # "started" => pc[w] \in Loop \/ "started" \in sent[w]
    /\ e # "stopped" => pc[w] \in Loop \cup {"new"}
    /\ e = "completed" => Complete(w)

LEMMA Effects ==
    ASSUME TypeInv, [Next]_vars
    PROVE  \/ UNCHANGED tracker /\ NoAnnounce
           \/ \E w \in Workers, e \in Events : Sends(w, e)
           \/ \E w \in Workers : Accepted(w)
           \/ \E c \in Clients : Tracker!TakeReply(c) /\ NoAnnounce
           \/ \E c \in Clients : TrackerServes(c)
           \/ \E w \in Workers : Evicted(w)
<1> DEFINE Idle == UNCHANGED tracker /\ NoAnnounce
<1> USE DEF TypeInv, WorkerType
<1>1. ASSUME NEW w \in Workers, BootFails(w)
      PROVE  Idle
  BY <1>1 DEF BootFails, NoAnnounce, Leaving, Awaits, Loop, Goto
<1>2. ASSUME NEW w \in Workers, TimedOut(w)
      PROVE  Idle
  BY <1>2 DEF TimedOut, NoAnnounce, Leaving, Awaits, Loop, Goto, AnnounceFailed
<1>3. ASSUME NEW w \in Workers, ConnectionReset(w)
      PROVE  Idle
  BY <1>3 DEF ConnectionReset, NoAnnounce, Leaving, Awaits, Loop, Goto
<1>4. ASSUME NEW w \in Workers, BeginCycle(w)
      PROVE  Idle
  BY <1>4 DEF BeginCycle, NoAnnounce, Leaving, Awaits, Loop, Goto
<1>5. ASSUME NEW w \in Workers, PingsDone(w)
      PROVE  Idle
  BY <1>5 DEF PingsDone, NoAnnounce, Leaving, Awaits, Loop, Goto
<1>6. ASSUME NEW w \in Workers, ExpressInterest(w)
      PROVE  Idle
  BY <1>6 DEF ExpressInterest, NoAnnounce, Leaving, Awaits, Loop, Goto
<1>7. ASSUME NEW w \in Workers, RequestPiece(w)
      PROVE  Idle
  BY <1>7 DEF RequestPiece, NoAnnounce, Leaving, Awaits, Loop, Goto, control
<1>8. ASSUME NEW w \in Workers, RequestsDone(w)
      PROVE  Idle
  BY <1>8 DEF RequestsDone, NoAnnounce, Leaving, Awaits, Loop, Goto
<1>9. ASSUME NEW w \in Workers, DownloadsDone(w)
      PROVE  Idle
  BY <1>9 DEF DownloadsDone, NoAnnounce, Leaving, Awaits, Loop, Goto
<1>10. ASSUME NEW w \in Workers, StopServer(w)
      PROVE  Idle
  BY <1>10 DEF StopServer, NoAnnounce, Leaving, Awaits, Loop, Goto
<1>11. ASSUME NEW w \in Workers, StopRequested(w)
      PROVE  Idle
  BY <1>11 DEF StopRequested, NoAnnounce, Leaving, Awaits, Loop, Goto, control
<1>12. ASSUME NEW w \in Workers, Crash(w)
      PROVE  Idle
  BY <1>12 DEF Crash, NoAnnounce, Leaving, Awaits, Loop, Goto
<1>13. ASSUME NEW w \in Workers, NEW q \in Workers, Ping(w, q)
      PROVE  Idle
  BY <1>13 DEF Ping, NoAnnounce, Leaving, Awaits, Loop, Goto, control
<1>14. ASSUME NEW w \in Workers, NEW q \in Workers, FetchBitfield(w, q)
      PROVE  Idle
  BY <1>14 DEF FetchBitfield, NoAnnounce, Leaving, Awaits, Loop, Goto, control
<1>15. ASSUME NEW w \in Workers, Boot(w)
      PROVE  Sends(w, "started")
  BY <1>15 DEF Boot, Sends
<1>16. ASSUME NEW w \in Workers, EndCycle(w)
      PROVE  Sends(w, "completed") \/ Idle
  <2>1. AfterCycle(w, Complete(w)) \in {"closing", "sleep"}
    BY AfterCycleType
  <2> QED
    BY <1>16, <2>1 DEF EndCycle, Sends, NoAnnounce, Leaving, Awaits, Loop, Goto
<1>17. ASSUME NEW w \in Workers, Wake(w)
      PROVE  Sends(w, "none") \/ Idle
  BY <1>17 DEF Wake, Sends, NoAnnounce, Leaving, Awaits, Loop, Goto
<1>18. ASSUME NEW w \in Workers, Close(w)
      PROVE  Sends(w, "stopped") \/ Idle
  BY <1>18 DEF Close, Sends, NoAnnounce, Leaving, Awaits, Loop, Goto
<1>19. ASSUME NEW w \in Workers, Rejected(w)
      PROVE  \E c \in Clients : Tracker!TakeReply(c) /\ NoAnnounce
  <2>1. <<w, event[w]>> \in Clients
    BY DEF Clients
  <2>2. NoAnnounce
    BY <1>19 DEF Rejected, AnnounceFailed, NoAnnounce, Leaving, Awaits, Loop, Goto
  <2> QED
    BY <1>19, <2>1, <2>2 DEF Rejected
<1>20. ASSUME NEW w \in Workers, RequestLost(w)
      PROVE  Idle
  BY <1>20 DEF RequestLost, AnnounceFailed, NoAnnounce, Leaving, Awaits, Loop, Goto
<1>21. ASSUME NEW c \in Clients, Discard(c)
      PROVE  Tracker!TakeReply(c) /\ NoAnnounce
  BY <1>21 DEF Discard, NoAnnounce, Leaving, Awaits, worker, control
<1>22. CASE UNCHANGED vars
  BY <1>22 DEF vars, NoAnnounce, Leaving, Awaits, control
<1>23. ASSUME NEW w \in Workers, NEW i \in Pieces, UploadFindsRot(w, i)
      PROVE  Idle
  BY <1>23 DEF UploadFindsRot, NoAnnounce, Leaving, Awaits, control
<1> QED
  BY <1>1, <1>2, <1>3, <1>4, <1>5, <1>6, <1>7, <1>8, <1>9, <1>10, <1>11,
     <1>12, <1>13, <1>14, <1>15, <1>16, <1>17, <1>18, <1>19, <1>20, <1>21,
     <1>22, <1>23
  DEF Next, Step, Fault, Clients, Events

(* What sending does: the request is on its way, or lost for good.         *)
LEMMA Sent ==
    ASSUME TypeInv, NEW w \in Workers, NEW e \in Events, Announce(w, e)
    PROVE  /\ asked[<<w, e>>] = NoRequest /\ answer[<<w, e>>] = NoReply
           /\ \/ asked' = [asked EXCEPT ![<<w, e>>] = Asking(w, e)]
              \/ "lost" \in Faults /\ asked' = asked
           /\ \A c \in Clients \ {<<w, e>>} : asked'[c] = asked[c]
           /\ UNCHANGED <<members, seeds, answer>>
           /\ pc' = [pc EXCEPT ![w] = "asking"] /\ event' = [event EXCEPT ![w] = e]
<1>1. asked \in [Clients -> Requests \cup {NoRequest}]
  BY TrackerNames DEF TypeInv, TrackerType, Tracker!TypeOK, Clients
<1>2. CASE Tracker!Ask(<<w, e>>, Asking(w, e))
  BY <1>1, <1>2, TrackerNames DEF Announce, Goto, Tracker!Ask
<1>3. CASE "lost" \in Faults /\ asked[<<w, e>>] = NoRequest /\ answer[<<w, e>>] = NoReply
           /\ UNCHANGED tracker
  BY <1>3 DEF Announce, Goto, tracker
<1> QED
  BY <1>2, <1>3 DEF Announce, Asking

-----------------------------------------------------------------------------
(* The workers use the tracker only as it promises to be used: whatever    *)
(* fails, every step of the swarm is one of SwarmRegistry's, which         *)
(* TrackerState implements, or leaves the registry alone.                  *)
THEOREM SwarmUsesTracker == Spec => Tracker!Spec
<1>1. Init => Tracker!Init
  BY DEF Init
<1>2. ASSUME TypeInv, [Next]_vars
      PROVE  [Tracker!Next]_Tracker!vars
  <2>1. ASSUME UNCHANGED tracker
        PROVE  [Tracker!Next]_Tracker!vars
    BY <2>1 DEF tracker, Tracker!vars
  <2>2. ASSUME NEW w \in Workers, NEW e \in Events, Sends(w, e)
        PROVE  [Tracker!Next]_Tracker!vars
    <3>1. Tracker!Ask(<<w, e>>, Asking(w, e)) \/ UNCHANGED tracker
      BY <2>2 DEF Sends, Announce, Asking
    <3> QED
      BY <2>1, <3>1, AskingIsRequest, TrackerNames DEF Tracker!Next
  <2>3. ASSUME NEW w \in Workers, Accepted(w)
        PROVE  Tracker!Next
    <3>1. <<w, event[w]>> \in Workers \X Events /\ Tracker!TakeReply(<<w, event[w]>>)
      BY <1>2, <2>3 DEF Accepted, TypeInv, WorkerType
    <3> QED
      BY <3>1 DEF Tracker!Next
  <2>4. ASSUME NEW c \in Clients, Tracker!TakeReply(c) \/ TrackerServes(c)
        PROVE  Tracker!Next
    BY <2>4 DEF TrackerServes, Tracker!Next, Clients
  <2>5. ASSUME NEW w \in Workers, Evicted(w)
        PROVE  Tracker!Next
    <3>1. Torrent \in Torrents /\ {w} \in SUBSET Peers /\ Tracker!Drop(Torrent, {w})
      BY <2>5, SwarmIsOneTorrent DEF Evicted, Workers
    <3> QED
      BY <3>1 DEF Tracker!Next
  <2> QED
    BY <1>2, <2>1, <2>2, <2>3, <2>4, <2>5, Effects
<1> QED
  BY <1>1, <1>2, TypeInit, TypeStep, PTL DEF Spec, Tracker!Spec

-----------------------------------------------------------------------------
(* What is under way.                                                      *)

(* A worker has one connection per event: an announce on it or its answer. *)
OneAtATime == \A c \in Clients : asked[c] = NoRequest \/ answer[c] = NoReply

(* An announce is what the worker sent; what has become untrue since is    *)
(* what its disk has spoilt since.                                         *)
TruthfulAt(w, e) ==
    asked[<<w, e>>] # NoRequest =>
       /\ asked[<<w, e>>].peer = w
       /\ asked[<<w, e>>].event = e
       /\ e # "stopped" /\ IsSeeding(asked[<<w, e>>]) => have[w] \cup spoilt[w] = Pieces

AsksAreTruthful == \A w \in Workers, e \in Events : TruthfulAt(w, e)

(* An announce other than `stopped` is the worker's latest: one that the   *)
(* worker gave up on is followed by `stopped` only.                        *)
LatestAt(w, e) ==
    e # "stopped" /\ asked[<<w, e>>] # NoRequest => Awaits(w, e) \/ Leaving(w)

AsksAreLatest == \A w \in Workers, e \in Events : LatestAt(w, e)

SeedInv == OneAtATime /\ AsksAreTruthful /\ AsksAreLatest

LEMMA SeedInit == Init => SeedInv
BY SwarmIsOneTorrent, TrackerNames
DEF Init, Tracker!Init, SeedInv, OneAtATime, AsksAreTruthful, TruthfulAt,
    AsksAreLatest, LatestAt, Clients

(* What serving an announce of w's comes to.                               *)
Refused(w, e) ==
    /\ e \notin {"started", "stopped"} /\ w \notin Registered
    /\ UNCHANGED <<members, seeds>>
    /\ answer' = [answer EXCEPT ![<<w, e>>] = Empty("refused")]

Removed(w) ==
    /\ Registered' = Registered \ {w}
    /\ seeds'[Torrent] = seeds[Torrent] \ {w}

Admitted(w, seeding) ==
    /\ Registered' = Registered \cup {w}
    /\ seeds'[Torrent] = IF seeding THEN seeds[Torrent] \cup {w} ELSE seeds[Torrent] \ {w}

Replied(w, e) ==
    \/ answer' = [answer EXCEPT ![<<w, e>>] = Empty("error")] /\ "error" \in Faults
    \/ \E a :
          /\ answer' = [answer EXCEPT ![<<w, e>>] = a]
          /\ a.kind = "ok" /\ a.peers = Registered' \ {w}

LEMMA Served ==
    ASSUME TypeInv, NEW w \in Workers, NEW e \in Events, AsksAreTruthful, TrackerServes(<<w, e>>)
    PROVE  /\ asked[<<w, e>>] # NoRequest
           /\ asked' = [asked EXCEPT ![<<w, e>>] = NoRequest]
           /\ UNCHANGED worker
           /\ \/ Refused(w, e)
              \/ e = "stopped" /\ Removed(w) /\ Replied(w, e)
              \/ /\ e = "started" \/ (e # "stopped" /\ w \in Registered)
                 /\ Admitted(w, IsSeeding(asked[<<w, e>>]))
                 /\ Replied(w, e)
<1> DEFINE r == asked[<<w, e>>]
<1>1. r \in Requests /\ r # NoRequest
  BY NoRequestIsNone, TrackerNames
  DEF TrackerServes, Tracker!Serve, Tracker!Refuse, Tracker!Fail
<1>2. r.torrent = Torrent /\ r.peer = w /\ r.event = e /\ Torrent \in Torrents
  BY <1>1, RequestFields, SwarmIsOneTorrent DEF AsksAreTruthful, TruthfulAt
<1>3. UNCHANGED worker
  BY DEF TrackerServes
<1>4. members \in [Torrents -> SUBSET Peers] /\ seeds \in [Torrents -> SUBSET Peers]
  BY DEF TypeInv, TrackerType, Tracker!TypeOK
<1>5. Tracker!Acceptable(r) <=> e \in {"started", "stopped"} \/ w \in Registered
  BY <1>2 DEF Tracker!Acceptable, Registered
<1> HIDE DEF r
<1>6. ASSUME Tracker!Apply(r)
      PROVE  \/ e = "stopped" /\ Removed(w)
             \/ e # "stopped" /\ Admitted(w, IsSeeding(r))
  <2>1. CASE e = "stopped"
    BY <1>2, <1>4, <1>6, <2>1 DEF Tracker!Apply, Tracker!Leave, Registered, Removed
  <2>2. CASE e # "stopped"
    BY <1>2, <1>4, <1>6, <2>2, TrackerNames
    DEF Tracker!Apply, Tracker!Enter, Registered, Admitted
  <2> QED
    BY <2>1, <2>2
<1>7. CASE Tracker!Serve(<<w, e>>)
  <2>1. Tracker!Acceptable(r) /\ Tracker!Apply(r) /\ asked' = [asked EXCEPT ![<<w, e>>] = NoRequest]
    BY <1>7 DEF Tracker!Serve, r
  <2> DEFINE a == Snapshot(members'[r.torrent], seeds'[r.torrent], r.peer)
  <2>2. answer' = [answer EXCEPT ![<<w, e>>] = a]
    BY <1>7, TrackerNames DEF Tracker!Serve, r
  <2>3. a.kind = "ok" /\ a.peers = Registered' \ {w}
    BY <1>2 DEF Snapshot, Registered
  <2>4. Replied(w, e)
    BY <2>2, <2>3 DEF Replied
  <2>5. \/ e = "stopped" /\ Removed(w)
        \/ /\ e = "started" \/ (e # "stopped" /\ w \in Registered)
           /\ Admitted(w, IsSeeding(r))
    BY <1>5, <1>6, <2>1
  <2> QED
    BY <1>1, <1>3, <2>1, <2>4, <2>5 DEF r
<1>8. CASE Tracker!Refuse(<<w, e>>)
  <2>1. ~Tracker!Acceptable(r) /\ asked' = [asked EXCEPT ![<<w, e>>] = NoRequest]
    BY <1>8 DEF Tracker!Refuse, r
  <2>2. Refused(w, e)
    BY <1>5, <1>8, <2>1, TrackerNames DEF Tracker!Refuse, Refused
  <2> QED
    BY <1>1, <1>3, <2>1, <2>2 DEF r
<1>9. CASE "error" \in Faults /\ Tracker!Fail(<<w, e>>)
  <2>1. Tracker!Acceptable(r) /\ Tracker!Apply(r) /\ asked' = [asked EXCEPT ![<<w, e>>] = NoRequest]
    BY <1>9 DEF Tracker!Fail, r
  <2>2. Replied(w, e)
    BY <1>9, TrackerNames DEF Tracker!Fail, Replied
  <2>3. \/ e = "stopped" /\ Removed(w)
        \/ /\ e = "started" \/ (e # "stopped" /\ w \in Registered)
           /\ Admitted(w, IsSeeding(r))
    BY <1>5, <1>6, <2>1
  <2> QED
    BY <1>1, <1>3, <2>1, <2>2, <2>3 DEF r
<1> QED
  BY <1>7, <1>8, <1>9 DEF TrackerServes

LEMMA SeedStep == TypeInv /\ TypeInv' /\ SeedInv /\ [Next]_vars => SeedInv'
<1> SUFFICES ASSUME TypeInv, TypeInv', SeedInv, [Next]_vars
             PROVE  SeedInv'
  OBVIOUS
<1> USE DEF SeedInv
<1>1. /\ asked \in [Clients -> Requests \cup {NoRequest}]
      /\ answer \in [Clients -> Replies]
      /\ have \in [Workers -> SUBSET Pieces] /\ have' \in [Workers -> SUBSET Pieces]
      /\ spoilt \in [Workers -> SUBSET Pieces] /\ spoilt' \in [Workers -> SUBSET Pieces]
  BY TrackerNames, SwarmIsOneTorrent
  DEF TypeInv, WorkerType, TrackerType, Tracker!TypeOK, Clients, Workers
<1>2. ASSUME NEW v \in Workers, NEW d \in Events,
             asked'[<<v, d>>] \in {asked[<<v, d>>], NoRequest},
             have[v] \cup spoilt[v] \subseteq have'[v] \cup spoilt'[v]
      PROVE  TruthfulAt(v, d)'
  <2>1. have[v] \cup spoilt[v] = Pieces => have'[v] \cup spoilt'[v] = Pieces
    BY <1>1, <1>2
  <2> QED
    BY <1>2, <2>1 DEF AsksAreTruthful, TruthfulAt
<1>3. ASSUME NEW v \in Workers, NEW d \in Events,
             asked'[<<v, d>>] \in {asked[<<v, d>>], NoRequest},
             Leaving(v) => Leaving(v)',
             Awaits(v, d) /\ asked[<<v, d>>] # NoRequest => Awaits(v, d)' \/ Leaving(v)'
      PROVE  LatestAt(v, d)'
  BY <1>3 DEF AsksAreLatest, LatestAt
<1>4. ASSUME NoAnnounce, \A c \in Clients : asked'[c] = asked[c]
      PROVE  AsksAreTruthful' /\ AsksAreLatest'
  <2>1. ASSUME NEW v \in Workers, NEW d \in Events
        PROVE  TruthfulAt(v, d)'
    BY <1>2, <1>4 DEF NoAnnounce, Clients
  <2>2. ASSUME NEW v \in Workers, NEW d \in Events
        PROVE  LatestAt(v, d)'
    <3>1. Awaits(v, d) => Awaits(v, d)' \/ Leaving(v)'
      BY <1>4 DEF NoAnnounce, Awaits
    <3> QED
      BY <1>3, <1>4, <3>1 DEF NoAnnounce, Clients
  <2> QED
    BY <2>1, <2>2 DEF AsksAreTruthful, AsksAreLatest
<1>5. CASE UNCHANGED tracker /\ NoAnnounce
  BY <1>4, <1>5 DEF tracker, OneAtATime
<1>6. ASSUME NEW w \in Workers, NEW e \in Events, Sends(w, e)
      PROVE  SeedInv'
  <2>1. /\ asked[<<w, e>>] = NoRequest /\ answer[<<w, e>>] = NoReply
        /\ \/ asked' = [asked EXCEPT ![<<w, e>>] = Asking(w, e)]
           \/ asked' = asked
        /\ \A c \in Clients \ {<<w, e>>} : asked'[c] = asked[c]
        /\ UNCHANGED answer
        /\ pc' = [pc EXCEPT ![w] = "asking"] /\ event' = [event EXCEPT ![w] = e]
    BY <1>6, Sent DEF Sends
  <2>2. UNCHANGED have
    BY <1>6 DEF Sends
  <2>3. \A v \in Workers : v # w \/ e = "stopped" => spoilt'[v] = spoilt[v]
    BY <1>1, <1>6 DEF Sends, Announce
  <2>4. \A v \in Workers \ {w} : pc'[v] = pc[v] /\ event'[v] = event[v]
    BY <2>1 DEF TypeInv, WorkerType
  <2>5. Awaits(w, e)'
    BY <2>1 DEF Awaits, TypeInv, WorkerType
  <2>6. asked'[<<w, e>>] \in {Asking(w, e), NoRequest}
    BY <1>1, <2>1 DEF Clients
  <2>7. e # "stopped" => \A d \in Events \ {"stopped"} : asked[<<w, d>>] = NoRequest
    BY <1>6 DEF Sends, AsksAreLatest, LatestAt, Leaving, Awaits, Loop
  <2>8. TruthfulAt(w, e)'
    <3>1. e = "completed" => Complete(w)
      BY <1>6 DEF Sends
    <3>2. Asking(w, e).leftZero <=> e = "stopped" \/ Complete(w)
      BY Zenon DEF Asking
    <3>3. Asking(w, e).peer = w /\ Asking(w, e).event = e
      BY DEF Asking
    <3>4. e # "stopped" /\ IsSeeding(Asking(w, e)) => have[w] = Pieces
      BY <3>1, <3>2, <3>3 DEF IsSeeding, Complete
    <3>5. have[w] = Pieces => have'[w] \cup spoilt'[w] = Pieces
      BY <1>1, <2>2
    <3> QED
      BY <2>6, <3>3, <3>4, <3>5 DEF TruthfulAt
  <2>9. ASSUME NEW v \in Workers, NEW d \in Events, <<v, d>> # <<w, e>>
        PROVE  TruthfulAt(v, d)' /\ LatestAt(v, d)'
    <3>1. asked'[<<v, d>>] = asked[<<v, d>>]
      BY <2>1, <2>9 DEF Clients
    <3>2. CASE v # w
      BY <1>2, <1>3, <2>2, <2>3, <2>4, <3>1, <3>2 DEF Leaving, Awaits
    <3>3. CASE v = w /\ e = "stopped"
      BY <1>2, <2>2, <2>3, <2>5, <3>1, <3>3 DEF LatestAt, Leaving
    <3>4. CASE v = w /\ e # "stopped" /\ d # "stopped"
      BY <2>7, <3>1, <3>4 DEF TruthfulAt, LatestAt
    <3>5. CASE v = w /\ d = "stopped"
      BY <3>1, <3>5 DEF AsksAreTruthful, TruthfulAt, LatestAt
    <3> QED
      BY <3>2, <3>3, <3>4, <3>5
  <2>10. LatestAt(w, e)'
    BY <2>5 DEF LatestAt
  <2> QED
    BY <1>1, <2>1, <2>8, <2>9, <2>10 DEF AsksAreTruthful, AsksAreLatest, OneAtATime
<1>7. ASSUME NEW c \in Clients, Tracker!TakeReply(c)
      PROVE  OneAtATime' /\ UNCHANGED asked /\ asked[c] = NoRequest
  BY <1>1, <1>7, TrackerNames DEF Tracker!TakeReply, OneAtATime
<1>8. ASSUME NEW c \in Clients, Tracker!TakeReply(c), NoAnnounce
      PROVE  SeedInv'
  BY <1>4, <1>7, <1>8
<1>9. ASSUME NEW w \in Workers, Accepted(w)
      PROVE  SeedInv'
  <2>1. /\ event[w] \in Events /\ UNCHANGED <<have, spoilt, event>>
        /\ Tracker!TakeReply(<<w, event[w]>>)
        /\ \A v \in Workers \ {w} : pc'[v] = pc[v]
        /\ pc[w] = "asking" /\ (event[w] = "stopped" => pc'[w] = "stopping")
    BY <1>9 DEF Accepted, Goto, TypeInv, WorkerType
  <2>2. OneAtATime' /\ UNCHANGED asked /\ asked[<<w, event[w]>>] = NoRequest
    BY <1>7, <2>1 DEF Clients
  <2>3. AsksAreTruthful'
    BY <1>2, <2>1, <2>2 DEF AsksAreTruthful
  <2>4. ASSUME NEW v \in Workers, NEW d \in Events
        PROVE  LatestAt(v, d)'
    BY <1>3, <2>1, <2>2 DEF Leaving, Awaits
  <2> QED
    BY <2>2, <2>3, <2>4 DEF AsksAreLatest
<1>10. ASSUME NEW w \in Workers, NEW e \in Events, TrackerServes(<<w, e>>)
      PROVE  SeedInv'
  <2>1. /\ asked' = [asked EXCEPT ![<<w, e>>] = NoRequest]
        /\ asked[<<w, e>>] # NoRequest
        /\ UNCHANGED <<have, spoilt, pc, event>>
        /\ \A c \in Clients \ {<<w, e>>} : answer'[c] = answer[c]
    BY <1>1, <1>10, Served DEF worker, control, Refused, Replied
  <2>2. AsksAreTruthful'
    BY <1>1, <1>2, <2>1 DEF AsksAreTruthful, Clients
  <2>3. AsksAreLatest'
    BY <1>1, <1>3, <2>1 DEF AsksAreLatest, Clients, Leaving, Awaits
  <2>4. OneAtATime'
    BY <1>1, <2>1 DEF OneAtATime
  <2> QED
    BY <2>2, <2>3, <2>4
<1>11. ASSUME NEW w \in Workers, Evicted(w)
       PROVE  SeedInv'
  <2>1. UNCHANGED <<asked, answer, have, spoilt, pc, event>>
    BY <1>11 DEF Evicted, worker, control, Tracker!Drop
  <2> QED
    BY <2>1
    DEF OneAtATime, AsksAreTruthful, TruthfulAt, AsksAreLatest, LatestAt, Leaving, Awaits
<1> QED
  BY <1>5, <1>6, <1>8, <1>9, <1>10, <1>11, Effects DEF Clients

(* Only by serving an announce does the tracker come to count a peer as    *)
(* complete, and the announce was the peer's latest word.                  *)
LEMMA SeedsAreHonest ==
    ASSUME TypeInv, TypeInv', SeedInv, [Next]_vars, NEW v \in seeds'[Torrent],
           Heard(v) \/ v \notin seeds[Torrent]
    PROVE  have[v] \cup spoilt[v] = Pieces
<1>1. /\ asked \in [Clients -> Requests \cup {NoRequest}]
      /\ seeds \in [Torrents -> SUBSET Workers] /\ Torrent \in Torrents
      /\ v \in Workers
      /\ seeds[Torrent] \subseteq Registered
  BY TrackerNames, SwarmIsOneTorrent
  DEF TypeInv, TrackerType, Tracker!TypeOK, Clients, Workers, SeedsAreMembers
<1>2. ASSUME UNCHANGED asked \/ (\E w \in Workers, e \in Events : Sends(w, e)),
             seeds'[Torrent] \subseteq seeds[Torrent]
      PROVE  FALSE
  <2>1. CASE UNCHANGED asked
    BY <1>2, <2>1 DEF Heard
  <2>2. ASSUME NEW w \in Workers, NEW e \in Events, Sends(w, e)
        PROVE  FALSE
    <3>1. /\ asked[<<w, e>>] = NoRequest
          /\ \A c \in Clients \ {<<w, e>>} : asked'[c] = asked[c]
      BY <2>2, Sent DEF Sends
    <3> QED
      BY <1>1, <1>2, <3>1 DEF Heard, Clients
  <2> QED
    BY <1>2, <2>1, <2>2
<1>3. CASE UNCHANGED tracker
  BY <1>2, <1>3 DEF tracker
<1>4. ASSUME NEW w \in Workers, NEW e \in Events, Sends(w, e)
      PROVE  FALSE
  BY <1>2, <1>4, Sent DEF Sends
<1>5. ASSUME NEW c \in Clients, Tracker!TakeReply(c)
      PROVE  FALSE
  BY <1>2, <1>5 DEF Tracker!TakeReply
<1>6. ASSUME NEW w \in Workers, Accepted(w)
      PROVE  FALSE
  BY <1>5, <1>6 DEF Accepted, TypeInv, WorkerType, Clients
<1>7. ASSUME NEW w \in Workers, Evicted(w)
      PROVE  FALSE
  BY <1>1, <1>2, <1>7 DEF Evicted, Tracker!Drop, Tracker!Leave
<1>8. ASSUME NEW w \in Workers, NEW e \in Events, TrackerServes(<<w, e>>)
      PROVE  have[v] \cup spoilt[v] = Pieces
  <2>1. /\ asked[<<w, e>>] # NoRequest
        /\ asked' = [asked EXCEPT ![<<w, e>>] = NoRequest]
        /\ \/ Refused(w, e)
           \/ Removed(w)
           \/ e # "stopped" /\ Admitted(w, IsSeeding(asked[<<w, e>>]))
    BY <1>8, Served DEF SeedInv
  <2>2. v # w => ~Heard(v)
    BY <1>1, <2>1 DEF Heard, Clients
  <2>3. v = w /\ e # "stopped" /\ IsSeeding(asked[<<w, e>>])
    BY <1>1, <2>1, <2>2 DEF Refused, Removed, Admitted
  <2> QED
    BY <2>1, <2>3 DEF SeedInv, AsksAreTruthful, TruthfulAt
<1> QED
  BY <1>3, <1>4, <1>5, <1>6, <1>7, <1>8, Effects DEF Clients

(* The tracker's list of complete peers never overstates, though announces *)
(* arrive late or after an eviction, under any faults: what a peer on it   *)
(* lacks when its announce is served, its own disk has spoilt since.       *)
THEOREM SeedersAreComplete == Spec => SeedsAreComplete
<1>1. TypeInv /\ TypeInv' /\ SeedInv /\ [Next]_vars =>
        [\A w \in seeds'[Torrent] :
            Heard(w) \/ w \notin seeds[Torrent] => have[w] \cup spoilt[w] = Pieces]_vars
  BY SeedsAreHonest
<1> QED
  BY <1>1, TypeInit, TypeStep, SeedInit, SeedStep, PTL DEF Spec, SeedsAreComplete

-----------------------------------------------------------------------------
(* The life of a registration.                                             *)

(* A worker that has not started is unknown to the tracker.  Its `started` *)
(* is sent once and, once answered, leaves nothing under way; everything   *)
(* else is sent after it was answered.  When `stopped` has been served the *)
(* worker is out, and what is still under way cannot introduce it again.   *)
NewIsUnknown(w) ==
    pc[w] = "new" =>
       sent[w] = {} /\ w \notin Registered /\ \A e \in Events : ~Underway(w, e)

StartedOnce(w) ==
    "started" \in sent[w] => ~Awaits(w, "started") /\ ~Underway(w, "started")

StartedFirst(w) ==
    (\/ pc[w] \in Loop
     \/ "stopped" \in sent[w]
     \/ \E e \in Events \ {"started"} : Awaits(w, e) \/ Underway(w, e))
    => "started" \in sent[w]

StoppedIsGone(w) ==
    "stopped" \in sent[w] \/ answer[<<w, "stopped">>].kind = "ok" => w \notin Registered

LifeAt(w) == NewIsUnknown(w) /\ StartedOnce(w) /\ StartedFirst(w) /\ StoppedIsGone(w)

LifeInv == SeedInv /\ \A w \in Workers : LifeAt(w)

LEMMA LifeInit == Init => LifeInv
<1> SUFFICES ASSUME Init, NEW w \in Workers
             PROVE  LifeAt(w)
  BY SeedInit DEF LifeInv
<1>1. /\ pc[w] = "new" /\ sent[w] = {} /\ w \notin Registered
      /\ \A e \in Events : asked[<<w, e>>] = NoRequest /\ answer[<<w, e>>] = NoReply
  BY SwarmIsOneTorrent, TrackerNames DEF Init, Tracker!Init, Registered
<1> QED
  BY <1>1, NoReplyKind
  DEF LifeAt, NewIsUnknown, StartedOnce, StartedFirst, StoppedIsGone, Awaits,
      Underway, Loop, Events

(* The step changes nothing of v's with the tracker, or takes something    *)
(* away: a request, an answer or the registration.                         *)
KeepsAnnounces(v) ==
    /\ v \in Registered' => v \in Registered
    /\ \A e \in Events :
          /\ asked'[<<v, e>>] \in {asked[<<v, e>>], NoRequest}
          /\ answer'[<<v, e>>] \in {answer[<<v, e>>], NoReply}

(* A step that brings v nothing new, here or with the tracker.             *)
Follows(v) ==
    /\ sent'[v] = sent[v] /\ peers'[v] = peers[v]
    /\ pc'[v] = "new" => pc[v] = "new"
    /\ pc'[v] \in Loop => pc[v] \in Loop
    /\ pc'[v] = "asking" => pc[v] = "asking" /\ event'[v] = event[v]
    /\ KeepsAnnounces(v)

LEMMA LifeFollows ==
    ASSUME NEW v \in Workers, LifeAt(v), Follows(v)
    PROVE  LifeAt(v)'
<1>1. \A d \in Events :
         /\ Underway(v, d)' => Underway(v, d)
         /\ Awaits(v, d)' => Awaits(v, d)
         /\ answer'[<<v, d>>].kind = "ok" => answer[<<v, d>>].kind = "ok"
  BY NoReplyKind DEF Follows, KeepsAnnounces, Underway, Awaits
<1>2. NewIsUnknown(v)'
  BY <1>1 DEF LifeAt, NewIsUnknown, Follows, KeepsAnnounces
<1>3. StartedOnce(v)'
  BY <1>1 DEF LifeAt, StartedOnce, Follows, KeepsAnnounces, Events
<1>4. StartedFirst(v)'
  BY <1>1 DEF LifeAt, StartedFirst, Follows, KeepsAnnounces
<1>5. StoppedIsGone(v)'
  BY <1>1 DEF LifeAt, StoppedIsGone, Follows, KeepsAnnounces, Events
<1> QED
  BY <1>2, <1>3, <1>4, <1>5 DEF LifeAt

(* A worker's own announce and answers leave the others as they were, and  *)
(* the steps without an announce leave everyone so.                        *)
LEMMA OthersFollow ==
    ASSUME TypeInv, TypeInv', LifeInv, [Next]_vars
    PROVE  \/ \A v \in Workers : Follows(v)
           \/ \E w \in Workers :
                 /\ \A v \in Workers \ {w} : Follows(v)
                 /\ \/ \E e \in Events : Sends(w, e)
                    \/ Accepted(w)
                    \/ \E e \in Events : TrackerServes(<<w, e>>)
<1>1. /\ asked \in [Clients -> Requests \cup {NoRequest}]
      /\ answer \in [Clients -> Replies]
      /\ members \in [Torrents -> SUBSET Workers] /\ Torrent \in Torrents
  BY TrackerNames, SwarmIsOneTorrent
  DEF TypeInv, TrackerType, Tracker!TypeOK, Clients, Workers
<1>2. CASE UNCHANGED tracker /\ NoAnnounce
  BY <1>2 DEF NoAnnounce, tracker, Follows, KeepsAnnounces, Registered
<1>3. ASSUME NEW w \in Workers, NEW e \in Events, Sends(w, e)
      PROVE  \A v \in Workers \ {w} : Follows(v)
  <2>1. /\ \A c \in Clients \ {<<w, e>>} : asked'[c] = asked[c]
        /\ UNCHANGED <<members, answer, sent, peers>>
        /\ pc' = [pc EXCEPT ![w] = "asking"] /\ event' = [event EXCEPT ![w] = e]
    BY <1>3, Sent DEF Sends
  <2> QED
    BY <1>1, <2>1 DEF Follows, KeepsAnnounces, Registered, Clients, TypeInv, WorkerType
<1>4. ASSUME NEW c \in Clients, Tracker!TakeReply(c), NoAnnounce
      PROVE  \A v \in Workers : Follows(v)
  BY <1>1, <1>4, TrackerNames
  DEF Tracker!TakeReply, NoAnnounce, Follows, KeepsAnnounces, Registered,
      Clients
<1>5. ASSUME NEW w \in Workers, Accepted(w)
      PROVE  \A v \in Workers \ {w} : Follows(v)
  <2>1. /\ Tracker!TakeReply(<<w, event[w]>>) /\ event[w] \in Events
        /\ UNCHANGED event
        /\ \A v \in Workers \ {w} :
              sent'[v] = sent[v] /\ peers'[v] = peers[v] /\ pc'[v] = pc[v]
    BY <1>5 DEF Accepted, Goto, TypeInv, WorkerType
  <2> QED
    BY <1>1, <2>1, TrackerNames
    DEF Tracker!TakeReply, Follows, KeepsAnnounces, Registered, Clients
<1>6. ASSUME NEW w \in Workers, NEW e \in Events, TrackerServes(<<w, e>>)
      PROVE  \A v \in Workers \ {w} : Follows(v)
  <2>1. /\ \A c \in Clients \ {<<w, e>>} : asked'[c] = asked[c] /\ answer'[c] = answer[c]
        /\ \A v \in Workers \ {w} : v \in Registered' => v \in Registered
    <3>1. asked' = [asked EXCEPT ![<<w, e>>] = NoRequest]
      BY <1>6, Served DEF LifeInv, SeedInv
    <3>2. \E a : answer' = [answer EXCEPT ![<<w, e>>] = a]
      BY <1>6, Served DEF LifeInv, SeedInv, Refused, Replied
    <3>3. Registered' \subseteq Registered \cup {w}
      BY <1>6, Served DEF LifeInv, SeedInv, Refused, Removed, Admitted, Registered
    <3> QED
      BY <1>1, <3>1, <3>2, <3>3
  <2>2. UNCHANGED <<pc, event, sent, peers>>
    BY <1>6 DEF TrackerServes, worker, control
  <2> QED
    BY <1>1, <2>1, <2>2 DEF Follows, KeepsAnnounces, Clients
<1>7. ASSUME NEW w \in Workers, Evicted(w)
      PROVE  \A v \in Workers : Follows(v)
  BY <1>1, <1>7
  DEF Evicted, worker, control, Tracker!Drop, Tracker!Leave, Follows,
      KeepsAnnounces, Registered, Clients
<1> QED
  BY <1>2, <1>3, <1>4, <1>5, <1>6, <1>7, Effects DEF Clients

LEMMA LifeSends ==
    ASSUME TypeInv, LifeInv, NEW w \in Workers, NEW e \in Events, Sends(w, e)
    PROVE  LifeAt(w)'
<1>1. /\ \A c \in Clients \ {<<w, e>>} : asked'[c] = asked[c]
      /\ UNCHANGED <<members, answer, sent>>
      /\ pc'[w] = "asking" /\ event'[w] = e
  <2>1. Announce(w, e) /\ UNCHANGED sent
    BY DEF Sends
  <2>2. pc' = [pc EXCEPT ![w] = "asking"] /\ event' = [event EXCEPT ![w] = e]
    BY <2>1, Sent
  <2> QED
    BY <2>1, <2>2, Sent DEF TypeInv, WorkerType
<1>2. LifeAt(w)
  BY DEF LifeInv
<1>4. \A d \in Events \ {e} : (Underway(w, d)' <=> Underway(w, d)) /\ ~Awaits(w, d)'
  BY <1>1 DEF Underway, Awaits, Clients
<1>5. IF e = "started" THEN pc[w] = "new" /\ sent[w] = {} ELSE "started" \in sent[w]
  BY <1>2 DEF Sends, LifeAt, NewIsUnknown, StartedFirst
<1>6. StartedOnce(w)' /\ NewIsUnknown(w)'
  BY <1>1, <1>2, <1>4, <1>5 DEF LifeAt, StartedOnce, NewIsUnknown, Events
<1>7. StartedFirst(w)'
  BY <1>1, <1>2, <1>4, <1>5 DEF LifeAt, StartedFirst, NewIsUnknown, Loop
<1>8. StoppedIsGone(w)'
  BY <1>1, <1>2 DEF LifeAt, StoppedIsGone, Registered
<1> QED
  BY <1>6, <1>7, <1>8 DEF LifeAt

LEMMA LifeAccepted ==
    ASSUME TypeInv, LifeInv, NEW w \in Workers, Accepted(w)
    PROVE  LifeAt(w)'
<1> DEFINE e == event[w]
<1>1. /\ e \in Events /\ Awaits(w, e)
      /\ answer[<<w, e>>].kind = "ok" /\ answer[<<w, e>>] # NoReply
      /\ answer' = [answer EXCEPT ![<<w, e>>] = NoReply]
      /\ UNCHANGED <<members, asked>>
      /\ sent'[w] = sent[w] \cup ({e} \ {"none"})
  BY TrackerNames, NoReplyKind
  DEF Accepted, Awaits, Tracker!TakeReply, TypeInv, WorkerType
<1>2. pc'[w] \notin {"new", "asking"}
  BY AfterCycleType DEF Accepted, Goto, TypeInv, WorkerType, Events
<1>3. LifeAt(w)
  BY DEF LifeInv
<1>4. answer \in [Clients -> Replies] /\ asked[<<w, e>>] = NoRequest
  BY <1>1, TrackerNames
  DEF TypeInv, TrackerType, Tracker!TypeOK, Clients, LifeInv, SeedInv, OneAtATime
<1> HIDE DEF e
<1>5. "started" \in sent'[w]
  BY <1>1, <1>3 DEF LifeAt, StartedFirst
<1>6. \A d \in Events : Underway(w, d)' => Underway(w, d) /\ d # e
  BY <1>1, <1>4 DEF Underway, Clients
<1>7. NewIsUnknown(w)' /\ StartedFirst(w)'
  BY <1>2, <1>5 DEF NewIsUnknown, StartedFirst
<1>8. StartedOnce(w)'
  BY <1>1, <1>2, <1>3, <1>6 DEF LifeAt, StartedOnce, Awaits, Events
<1>9. StoppedIsGone(w)'
  <2>1. answer'[<<w, "stopped">>].kind = "ok" => answer[<<w, "stopped">>].kind = "ok"
    BY <1>1, <1>4, NoReplyKind DEF Clients, Events
  <2> QED
    BY <1>1, <1>3, <2>1 DEF LifeAt, StoppedIsGone, Registered
<1> QED
  BY <1>7, <1>8, <1>9 DEF LifeAt

LEMMA LifeServed ==
    ASSUME TypeInv, LifeInv, NEW w \in Workers, NEW e \in Events, TrackerServes(<<w, e>>)
    PROVE  LifeAt(w)'
<1>1. /\ asked[<<w, e>>] # NoRequest
      /\ asked' = [asked EXCEPT ![<<w, e>>] = NoRequest]
      /\ UNCHANGED <<pc, event, sent>>
  BY Served DEF LifeInv, SeedInv, worker, control
<1>2. /\ asked \in [Clients -> Requests \cup {NoRequest}]
      /\ answer \in [Clients -> Replies]
  BY TrackerNames DEF TypeInv, TrackerType, Tracker!TypeOK, Clients
<1>3. LifeAt(w)
  BY DEF LifeInv
<1>4. \A d \in Events \ {e} : answer'[<<w, d>>] = answer[<<w, d>>]
  BY <1>2, Served DEF LifeInv, SeedInv, Refused, Replied, Clients
<1>5. \A d \in Events : Underway(w, d)' => Underway(w, d)
  BY <1>1, <1>2, <1>4 DEF Underway, Clients
<1>6. pc[w] # "new" /\ (e = "started" => "started" \notin sent[w])
  BY <1>1, <1>3 DEF LifeAt, NewIsUnknown, StartedOnce, Underway
<1>7. NewIsUnknown(w)' /\ StartedOnce(w)' /\ StartedFirst(w)'
  BY <1>1, <1>3, <1>5, <1>6
  DEF LifeAt, NewIsUnknown, StartedOnce, StartedFirst, Awaits, Events
<1>8. StoppedIsGone(w)'
  <2>1. CASE Refused(w, e)
    BY <1>1, <1>3, <1>4, <2>1 DEF LifeAt, StoppedIsGone, Refused, Registered, Events
  <2>2. CASE e = "stopped" /\ Removed(w)
    BY <2>2 DEF StoppedIsGone, Removed, Registered
  <2>3. CASE e = "started"
    <3>1. "stopped" \notin sent[w] /\ ~Underway(w, "stopped")
      BY <1>3, <1>6, <2>3 DEF LifeAt, StartedFirst, Events
    <3>2. answer'[<<w, "stopped">>] = NoReply
      BY <1>4, <2>3, <3>1 DEF Underway, Events
    <3> QED
      BY <1>1, <3>1, <3>2, NoReplyKind DEF StoppedIsGone
  <2>4. CASE e # "stopped" /\ w \in Registered
    BY <1>1, <1>3, <1>4, <2>4 DEF LifeAt, StoppedIsGone, Events
  <2> QED
    BY <2>1, <2>2, <2>3, <2>4, Served DEF LifeInv, SeedInv
<1> QED
  BY <1>7, <1>8 DEF LifeAt

LEMMA LifeStep == TypeInv /\ TypeInv' /\ LifeInv /\ [Next]_vars => LifeInv'
<1> SUFFICES ASSUME TypeInv, TypeInv', LifeInv, [Next]_vars
             PROVE  LifeInv'
  OBVIOUS
<1>1. SeedInv'
  BY SeedStep DEF LifeInv
<1>2. ASSUME NEW v \in Workers
      PROVE  LifeAt(v)'
  BY OthersFollow, LifeFollows, LifeSends, LifeAccepted, LifeServed DEF LifeInv
<1> QED
  BY <1>1, <1>2 DEF LifeInv

(* A worker whose `stopped` was answered stays out, whatever announces of  *)
(* its own the tracker serves afterwards, under any faults.                *)
THEOREM StoppedStaysOut == Spec => []NoResurrection
<1>1. LifeInv => NoResurrection
  BY DEF LifeInv, LifeAt, StoppedIsGone, NoResurrection
<1> QED
  BY <1>1, TypeInit, TypeStep, LifeInit, LifeStep, PTL DEF Spec

-----------------------------------------------------------------------------
(* Discovery.                                                              *)

(* w has learnt of q: from every answer on its way to w, and from the peer *)
(* list w works with once it has one.  Whoever of the two was registered   *)
(* second has learnt of the other; so one of them always has.              *)
Knows(w, q) ==
    /\ \A e \in Events \ {"stopped"} :
          answer[<<w, e>>].kind = "ok" => q \in answer[<<w, e>>].peers
    /\ "started" \in sent[w] => q \in peers[w]

Discovery == \A w, q \in Registered : w # q => Knows(w, q) \/ Knows(q, w)

DiscoveryInv == LifeInv /\ Discovery

LEMMA DiscoveryInit == Init => DiscoveryInv
BY LifeInit, SwarmIsOneTorrent DEF Init, Tracker!Init, DiscoveryInv, Discovery, Registered

LEMMA KnowsFollows ==
    ASSUME NEW v \in Workers, NEW q, Follows(v), Knows(v, q)
    PROVE  Knows(v, q)'
BY NoReplyKind DEF Follows, KeepsAnnounces, Knows

LEMMA KnowsAccepted ==
    ASSUME TypeInv, LifeInv, NEW w \in Workers, NEW q, Accepted(w), Knows(w, q)
    PROVE  Knows(w, q)'
<1> DEFINE e == event[w]
<1>1. /\ e \in Events /\ answer[<<w, e>>].kind = "ok"
      /\ answer' = [answer EXCEPT ![<<w, e>>] = NoReply]
      /\ sent'[w] = sent[w] \cup ({e} \ {"none"})
      /\ peers'[w] = IF e = "stopped" THEN peers[w] ELSE answer[<<w, e>>].peers
  BY TrackerNames DEF Accepted, Tracker!TakeReply, TypeInv, WorkerType
<1>2. answer \in [Clients -> Replies]
  BY TrackerNames DEF TypeInv, TrackerType, Tracker!TypeOK, Clients
<1>3. e = "stopped" => "started" \in sent[w]
  BY DEF Accepted, LifeInv, LifeAt, StartedFirst, Awaits, Events
<1> HIDE DEF e
<1>4. \A d \in Events : answer'[<<w, d>>].kind = "ok" => answer'[<<w, d>>] = answer[<<w, d>>]
  BY <1>1, <1>2, NoReplyKind DEF Clients
<1>5. q \in peers'[w]
  BY <1>1, <1>3 DEF Knows
<1> QED
  BY <1>4, <1>5 DEF Knows

(* Serving an announce of a registered worker tells it of all the others;  *)
(* serving the first one makes it the one that knows.                      *)
LEMMA KnowsServed ==
    ASSUME TypeInv, LifeInv, NEW w \in Workers, NEW e \in Events, TrackerServes(<<w, e>>),
           NEW q \in Registered', w \in Registered', w # q,
           Knows(w, q) \/ w \notin Registered
    PROVE  Knows(w, q)'
<1>1. answer \in [Clients -> Replies]
  BY TrackerNames DEF TypeInv, TrackerType, Tracker!TypeOK, Clients
<1>2. UNCHANGED <<sent, peers>> /\ asked[<<w, e>>] # NoRequest
  BY Served DEF LifeInv, SeedInv, worker, control
<1>3. /\ e = "started" \/ (e # "stopped" /\ w \in Registered)
      /\ Replied(w, e)
  BY Served DEF LifeInv, SeedInv, Refused, Removed, Registered
<1>4. \A d \in Events \ {e} : answer'[<<w, d>>] = answer[<<w, d>>]
  BY <1>1, <1>3 DEF Replied, Clients
<1>5. answer'[<<w, e>>].kind = "ok" => q \in answer'[<<w, e>>].peers
  <2>1. Empty("error").kind # "ok"
    BY DEF Empty
  <2> QED
    BY <1>1, <1>3, <2>1 DEF Replied, Clients
<1>6. CASE Knows(w, q)
  BY <1>2, <1>4, <1>5, <1>6 DEF Knows
<1>7. CASE w \notin Registered
  <2>1. e = "started"
    BY <1>3, <1>7
  <2>2. "started" \notin sent[w]
    BY <1>2, <2>1 DEF LifeInv, LifeAt, StartedOnce, Underway
  <2>3. \A d \in Events \ {e} : answer[<<w, d>>] = NoReply
    BY <2>1, <2>2 DEF LifeInv, LifeAt, StartedFirst, Underway
  <2> QED
    BY <1>2, <1>4, <1>5, <2>2, <2>3, NoReplyKind DEF Knows
<1> QED
  BY <1>6, <1>7

LEMMA DiscoveryStep == TypeInv /\ TypeInv' /\ DiscoveryInv /\ [Next]_vars => DiscoveryInv'
<1> SUFFICES ASSUME TypeInv, TypeInv', DiscoveryInv, [Next]_vars,
                    NEW p \in Registered', NEW q \in Registered', p # q
             PROVE  Knows(p, q)' \/ Knows(q, p)'
  BY LifeStep DEF DiscoveryInv, Discovery
<1>1. Registered \subseteq Workers /\ Registered' \subseteq Workers
  BY SwarmIsOneTorrent DEF TypeInv, TrackerType, Tracker!TypeOK, Registered, Workers
<1>2. ASSUME p \in Registered, q \in Registered
      PROVE  Knows(p, q) \/ Knows(q, p)
  BY <1>2 DEF DiscoveryInv, Discovery
<1>3. CASE \A v \in Workers : Follows(v)
  BY <1>1, <1>2, <1>3, KnowsFollows DEF Follows, KeepsAnnounces
<1>4. ASSUME NEW w \in Workers, \A v \in Workers \ {w} : Follows(v),
             \/ \E e \in Events : Sends(w, e)
             \/ Accepted(w)
             \/ \E e \in Events : TrackerServes(<<w, e>>)
      PROVE  Knows(p, q)' \/ Knows(q, p)'
  <2>1. \A v \in Workers \ {w} : \A u : Knows(v, u) => Knows(v, u)'
    BY <1>4, KnowsFollows
  <2>2. \A v \in Registered' \ {w} : v \in Registered
    BY <1>1, <1>4 DEF Follows, KeepsAnnounces
  <2>3. CASE \E e \in Events : Sends(w, e)
    <3>1. UNCHANGED <<members, answer, sent, peers>>
      BY <2>3, Sent DEF Sends
    <3> QED
      BY <1>2, <3>1 DEF Knows, Registered
  <2>4. CASE Accepted(w)
    <3>1. UNCHANGED members
      BY <2>4 DEF Accepted, Tracker!TakeReply
    <3>2. \A u : Knows(w, u) => Knows(w, u)'
      BY <2>4, KnowsAccepted DEF DiscoveryInv
    <3> QED
      BY <1>1, <1>2, <2>1, <3>1, <3>2 DEF Registered
  <2>5. CASE \E e \in Events : TrackerServes(<<w, e>>)
    <3>1. ASSUME NEW u \in Registered', w \in Registered', w # u, Knows(w, u) \/ w \notin Registered
          PROVE  Knows(w, u)'
      BY <2>5, <3>1, KnowsServed DEF DiscoveryInv
    <3>2. CASE p # w /\ q # w
      BY <1>1, <1>2, <2>1, <2>2, <3>2
    <3>3. CASE p = w
      BY <1>1, <1>2, <2>1, <2>2, <3>1, <3>3
    <3>4. CASE q = w
      BY <1>1, <1>2, <2>1, <2>2, <3>1, <3>4
    <3> QED
      BY <3>2, <3>3, <3>4
  <2> QED
    BY <1>4, <2>3, <2>4, <2>5
<1> QED
  BY <1>3, <1>4, OthersFollow DEF DiscoveryInv

(* Of two registered workers that were answered, one has the other in its  *)
(* latest peer list, under any faults.                                     *)
THEOREM PeersDiscoverEachOther == Spec => []MutualDiscovery
<1>1. DiscoveryInv => MutualDiscovery
  BY DEF DiscoveryInv, Discovery, Knows, MutualDiscovery
<1> QED
  BY <1>1, TypeInit, TypeStep, DiscoveryInit, DiscoveryStep, PTL DEF Spec

-----------------------------------------------------------------------------
(* When no answer goes missing and the tracker does not fail, a worker     *)
(* leaves an announce only with its answer.                                *)
AnswersArrive == Faults \cap {"lost", "timeout", "reset", "error"} = {}

(* The control points a finished download passes before it is announced.   *)
Downloading == {"download", "request", "cycleEnd"}

(* A step of w's that does not announce: within the main loop, out of it   *)
(* or past it.  Pieces arrive in `request` only, and may be given up       *)
(* anywhere; a finished download is not left without an announce.          *)
Moves(w) ==
    /\ UNCHANGED <<tracker, sent, event>>
    /\ \A v \in Workers \ {w} : pc'[v] = pc[v] /\ have'[v] = have[v]
    /\ \/ have'[w] = have[w]
       \/ have'[w] \subseteq have[w] /\ pc'[w] = pc[w]
       \/ pc[w] = "request" /\ pc'[w] = "request"
    /\ \/ pc'[w] = pc[w]
       \/ pc'[w] = "crashed"
       \/ pc[w] = "new" /\ pc'[w] = "done"
       \/ pc[w] = "closing" /\ pc'[w] = "stopping" /\ "started" \notin sent[w]
       \/ pc[w] = "stopping" /\ pc'[w] = "done"
       \/ /\ pc[w] \in Loop /\ pc'[w] \in Loop \cup {"closing"}
          /\ \/ ~Complete(w) \/ w \in Seeders \/ "completed" \in sent[w]
             \/ pc[w] \notin Downloading
             \/ pc'[w] \in Downloading

(* A step in which w announces e, at the point it does.                    *)
Speaks(w, e) ==
    /\ Announce(w, e)
    /\ UNCHANGED <<sent, have>>
    /\ \/ e = "started" /\ pc[w] = "new"
       \/ e = "none" /\ pc[w] = "sleep"
       \/ e = "completed" /\ pc[w] = "cycleEnd"
       \/ e = "stopped" /\ pc[w] = "closing"

LEMMA Moving ==
    ASSUME TypeInv, AnswersArrive, [Next]_vars, Workers # {}
    PROVE  \/ \E w \in Workers : Moves(w)
           \/ \E w \in Workers, e \in Events : Speaks(w, e)
           \/ \E w \in Workers : Accepted(w) \/ Rejected(w) \/ Evicted(w)
           \/ \E c \in Clients : TrackerServes(c) \/ Discard(c)
<1> USE DEF TypeInv, WorkerType
<1>1. ASSUME NEW w \in Workers, BootFails(w)
      PROVE  Moves(w)
  BY <1>1 DEF BootFails, Moves, Loop, Downloading, Goto
<1>2. ASSUME NEW w \in Workers, BeginCycle(w)
      PROVE  Moves(w)
  BY <1>2 DEF BeginCycle, Moves, Loop, Downloading, Goto
<1>3. ASSUME NEW w \in Workers, PingsDone(w)
      PROVE  Moves(w)
  BY <1>3 DEF PingsDone, Moves, Loop, Downloading, Goto
<1>4. ASSUME NEW w \in Workers, ExpressInterest(w)
      PROVE  Moves(w)
  BY <1>4 DEF ExpressInterest, Moves, Loop, Downloading, Goto
<1>5. ASSUME NEW w \in Workers, RequestPiece(w)
      PROVE  Moves(w)
  BY <1>5 DEF RequestPiece, Moves, Loop, Downloading, Goto, control
<1>6. ASSUME NEW w \in Workers, RequestsDone(w)
      PROVE  Moves(w)
  BY <1>6 DEF RequestsDone, Moves, Loop, Downloading, Goto
<1>7. ASSUME NEW w \in Workers, DownloadsDone(w)
      PROVE  Moves(w)
  BY <1>7 DEF DownloadsDone, Moves, Loop, Downloading, Goto
<1>8. ASSUME NEW w \in Workers, StopServer(w)
      PROVE  Moves(w)
  BY <1>8 DEF StopServer, Moves, Loop, Downloading, Goto
<1>9. ASSUME NEW w \in Workers, StopRequested(w)
      PROVE  Moves(w)
  BY <1>9 DEF StopRequested, Moves, Loop, Downloading, Goto, control
<1>10. ASSUME NEW w \in Workers, Crash(w)
      PROVE  Moves(w)
  BY <1>10 DEF Crash, Moves, Loop, Downloading, Goto
<1>11. ASSUME NEW w \in Workers, NEW q \in Workers, Ping(w, q)
      PROVE  Moves(w)
  BY <1>11 DEF Ping, Moves, Loop, Downloading, Goto, control
<1>12. ASSUME NEW w \in Workers, NEW q \in Workers, FetchBitfield(w, q)
      PROVE  Moves(w)
  BY <1>12 DEF FetchBitfield, Moves, Loop, Downloading, Goto, control
<1>13. ASSUME NEW w \in Workers, Boot(w)
      PROVE  Speaks(w, "started")
  BY <1>13 DEF Boot, Speaks
<1>14. ASSUME NEW w \in Workers, EndCycle(w)
      PROVE  Speaks(w, "completed") \/ Moves(w)
  <2>1. AfterCycle(w, Complete(w)) \in {"closing", "sleep"}
    BY AfterCycleType
  <2> QED
    BY <1>14, <2>1 DEF EndCycle, Speaks, Moves, Loop, Downloading, Goto
<1>15. ASSUME NEW w \in Workers, Wake(w)
      PROVE  Speaks(w, "none") \/ Moves(w)
  BY <1>15 DEF Wake, Speaks, Moves, Loop, Downloading, Goto
<1>16. ASSUME NEW w \in Workers, Close(w)
      PROVE  Speaks(w, "stopped") \/ Moves(w)
  BY <1>16 DEF Close, Speaks, Moves, Goto
<1>17. ASSUME NEW w \in Workers, RequestLost(w) \/ TimedOut(w) \/ ConnectionReset(w)
      PROVE  FALSE
  BY <1>17 DEF RequestLost, TimedOut, ConnectionReset, AnswersArrive
<1>18. ASSUME UNCHANGED vars, NEW w \in Workers
      PROVE  Moves(w)
  BY <1>18 DEF vars, control, Moves
<1>19. ASSUME NEW w \in Workers, NEW i \in Pieces, UploadFindsRot(w, i)
      PROVE  Moves(w)
  BY <1>19 DEF UploadFindsRot, Moves, control
<1> QED
  BY <1>1, <1>2, <1>3, <1>4, <1>5, <1>6, <1>7, <1>8, <1>9, <1>10, <1>11,
     <1>12, <1>13, <1>14, <1>15, <1>16, <1>17, <1>18, <1>19
  DEF Next, Step, Fault, Clients, Events

-----------------------------------------------------------------------------
(* Then nothing is under way that its worker does not wait for, `started`  *)
(* and `stopped` are accepted, and a worker comes to the end of run() only *)
(* through an answered `stopped`, or without ever having been registered.  *)

Attended(w) == \A e \in Events : Underway(w, e) => Awaits(w, e) \/ pc[w] = "crashed"

WellAnswered(w) ==
    \A e \in Events :
       /\ answer[<<w, e>>].kind # "error"
       /\ e \in {"started", "stopped"} => answer[<<w, e>>].kind # "refused"

LeavesCleanly(w) ==
    /\ pc[w] = "closing" => "started" \in sent[w]
    /\ pc[w] \in {"stopping", "done"} => w \notin Registered

LeaveInv == LifeInv /\ \A w \in Workers : Attended(w) /\ WellAnswered(w) /\ LeavesCleanly(w)

LEMMA LeaveInit == Init => LeaveInv
<1> SUFFICES ASSUME Init, NEW w \in Workers
             PROVE  Attended(w) /\ WellAnswered(w) /\ LeavesCleanly(w)
  BY LifeInit DEF LeaveInv
<1>1. pc[w] = "new" /\ \A e \in Events : asked[<<w, e>>] = NoRequest /\ answer[<<w, e>>] = NoReply
  BY TrackerNames DEF Init, Tracker!Init
<1> QED
  BY <1>1, NoReplyKind DEF Attended, Underway, WellAnswered, LeavesCleanly

LEMMA Kept ==
    ASSUME NEW v \in Workers, KeepsAnnounces(v)
    PROVE  /\ \A e \in Events : Underway(v, e)' => Underway(v, e)
           /\ WellAnswered(v) => WellAnswered(v)'
           /\ pc'[v] = pc[v] /\ event'[v] = event[v] /\ Attended(v) => Attended(v)'
           /\ pc'[v] = pc[v] /\ sent[v] \subseteq sent'[v] /\ LeavesCleanly(v)
                 => LeavesCleanly(v)'
BY NoReplyKind
DEF KeepsAnnounces, Underway, Awaits, WellAnswered, Attended, LeavesCleanly

LEMMA ServedOthers ==
    ASSUME TypeInv, LifeInv, NEW w \in Workers, NEW e \in Events, TrackerServes(<<w, e>>)
    PROVE  /\ UNCHANGED <<pc, event, sent, have>>
           /\ \A v \in Workers \ {w} : KeepsAnnounces(v) /\ (v \in Registered => v \in Registered')
           /\ \A d \in Events \ {e} : answer'[<<w, d>>] = answer[<<w, d>>]
           /\ \A d \in Events : Underway(w, d)' => Underway(w, d)
           /\ Underway(w, e)
<1>1. /\ asked \in [Clients -> Requests \cup {NoRequest}]
      /\ answer \in [Clients -> Replies]
      /\ members \in [Torrents -> SUBSET Workers] /\ Torrent \in Torrents
  BY TrackerNames, SwarmIsOneTorrent
  DEF TypeInv, TrackerType, Tracker!TypeOK, Clients, Workers
<1>2. asked[<<w, e>>] # NoRequest /\ asked' = [asked EXCEPT ![<<w, e>>] = NoRequest]
  BY Served DEF LifeInv, SeedInv
<1>3. \E a : answer' = [answer EXCEPT ![<<w, e>>] = a]
  BY Served DEF LifeInv, SeedInv, Refused, Replied
<1>4. \A v \in Workers \ {w} : v \in Registered' <=> v \in Registered
  BY <1>1, Served DEF LifeInv, SeedInv, Refused, Removed, Admitted, Registered
<1>5. UNCHANGED <<pc, event, sent, have>>
  BY DEF TrackerServes, worker, control
<1>6. \A c \in Clients \ {<<w, e>>} : asked'[c] = asked[c] /\ answer'[c] = answer[c]
  BY <1>1, <1>2, <1>3
<1>7. \A d \in Events : Underway(w, d)' => Underway(w, d)
  BY <1>1, <1>2, <1>6 DEF Underway, Clients
<1>8. \A v \in Workers \ {w} : KeepsAnnounces(v)
  BY <1>4, <1>6 DEF KeepsAnnounces, Clients
<1> QED
  BY <1>2, <1>4, <1>5, <1>6, <1>7, <1>8 DEF Underway, Clients

(* What w's sending an announce does.                                      *)
LEMMA Spoken ==
    ASSUME TypeInv, NEW w \in Workers, NEW e \in Events, Speaks(w, e)
    PROVE  /\ UNCHANGED <<members, answer, sent, have>>
           /\ answer[<<w, e>>] = NoReply
           /\ \A v \in Workers \ {w} :
                 pc'[v] = pc[v] /\ event'[v] = event[v] /\ KeepsAnnounces(v)
           /\ Awaits(w, e)'
           /\ \A d \in Events \ {e} : Underway(w, d)' => Underway(w, d)
<1>2. /\ UNCHANGED <<members, answer, sent, have>>
      /\ answer[<<w, e>>] = NoReply
      /\ pc' = [pc EXCEPT ![w] = "asking"] /\ event' = [event EXCEPT ![w] = e]
  BY Sent DEF Speaks
<1>3. \A c \in Clients \ {<<w, e>>} : asked'[c] = asked[c]
  BY Sent DEF Speaks
<1>4. \A v \in Workers \ {w} : KeepsAnnounces(v)
  BY <1>2, <1>3 DEF KeepsAnnounces, Registered, Clients
<1> QED
  BY <1>2, <1>3, <1>4 DEF Awaits, Underway, Clients, TypeInv, WorkerType

(* What w's taking an answer does.                                         *)
LEMMA Answered ==
    ASSUME TypeInv, LifeInv, NEW w \in Workers, Accepted(w) \/ Rejected(w)
    PROVE  /\ UNCHANGED <<members, asked, have, event>>
           /\ \A v \in Workers : KeepsAnnounces(v)
           /\ \A v \in Workers \ {w} : pc'[v] = pc[v] /\ sent'[v] = sent[v]
           /\ sent[w] \subseteq sent'[w]
           /\ event[w] \in Events /\ Awaits(w, event[w])
           /\ answer[<<w, event[w]>>].kind # "none" /\ ~Underway(w, event[w])'
<1>1. event[w] \in Events /\ answer \in [Clients -> Replies]
  BY TrackerNames DEF TypeInv, WorkerType, TrackerType, Tracker!TypeOK, Clients
<1>2. /\ Tracker!TakeReply(<<w, event[w]>>)
      /\ UNCHANGED <<have, event>> /\ pc[w] = "asking"
      /\ answer[<<w, event[w]>>].kind \in {"ok", "refused", "error"}
      /\ \A v \in Workers \ {w} : pc'[v] = pc[v] /\ sent'[v] = sent[v]
      /\ sent[w] \subseteq sent'[w]
  <2>1. CASE Accepted(w)
    BY <2>1 DEF Accepted, Goto, TypeInv, WorkerType
  <2>2. CASE Rejected(w)
    BY <2>2 DEF Rejected, AnnounceFailed, Goto, TypeInv, WorkerType
  <2> QED
    BY <2>1, <2>2
<1>3. /\ answer' = [answer EXCEPT ![<<w, event[w]>>] = NoReply]
      /\ answer[<<w, event[w]>>] # NoReply
      /\ UNCHANGED <<members, asked>>
  BY <1>2, TrackerNames DEF Tracker!TakeReply
<1>4. asked[<<w, event[w]>>] = NoRequest
  BY <1>1, <1>3 DEF LifeInv, SeedInv, OneAtATime, Clients
<1>5. \A v \in Workers : KeepsAnnounces(v)
  BY <1>1, <1>3 DEF KeepsAnnounces, Registered, Clients
<1> QED
  BY <1>1, <1>2, <1>3, <1>4, <1>5 DEF Awaits, Underway, Clients

(* Dropped answers and evictions take something away, no more.             *)
LEMMA Dropped ==
    ASSUME TypeInv, (\E c \in Clients : Discard(c)) \/ (\E w \in Workers : Evicted(w))
    PROVE  UNCHANGED <<pc, event, sent, have>> /\ \A v \in Workers : KeepsAnnounces(v)
<1>1. /\ answer \in [Clients -> Replies]
      /\ members \in [Torrents -> SUBSET Workers] /\ Torrent \in Torrents
  BY TrackerNames, SwarmIsOneTorrent
  DEF TypeInv, TrackerType, Tracker!TypeOK, Clients, Workers
<1>2. ASSUME NEW c \in Clients, Discard(c)
      PROVE  UNCHANGED <<pc, event, sent, have>> /\ \A v \in Workers : KeepsAnnounces(v)
  BY <1>1, <1>2, TrackerNames
  DEF Discard, Tracker!TakeReply, worker, control, KeepsAnnounces, Registered, Clients
<1>3. ASSUME NEW w \in Workers, Evicted(w)
      PROVE  UNCHANGED <<pc, event, sent, have>> /\ \A v \in Workers : KeepsAnnounces(v)
  BY <1>1, <1>3
  DEF Evicted, Tracker!Drop, Tracker!Leave, worker, control, KeepsAnnounces, Registered
<1> QED
  BY <1>2, <1>3

LEMMA Unmoved ==
    ASSUME NEW w \in Workers, Moves(w)
    PROVE  /\ UNCHANGED <<sent, event, members>>
           /\ \A v \in Workers : KeepsAnnounces(v) /\ (v \in Registered' <=> v \in Registered)
           /\ \A v \in Workers \ {w} : pc'[v] = pc[v] /\ have'[v] = have[v]
BY DEF Moves, tracker, KeepsAnnounces, Registered

LEMMA LeaveServed ==
    ASSUME TypeInv, LeaveInv, AnswersArrive, NEW w \in Workers, NEW e \in Events,
           TrackerServes(<<w, e>>)
    PROVE  Attended(w)' /\ WellAnswered(w)' /\ LeavesCleanly(w)'
<1>1. /\ UNCHANGED <<pc, event, sent>>
      /\ \A d \in Events \ {e} : answer'[<<w, d>>] = answer[<<w, d>>]
      /\ \A d \in Events : Underway(w, d)' => Underway(w, d)
      /\ Underway(w, e)
  BY ServedOthers DEF LeaveInv
<1>2. Attended(w) /\ WellAnswered(w) /\ LeavesCleanly(w)
  BY DEF LeaveInv
<1>3. Attended(w)'
  BY <1>1, <1>2 DEF Attended, Awaits
<1>4. LeavesCleanly(w)'
  BY <1>1, <1>2 DEF LeavesCleanly, Attended, Awaits
<1>5. /\ answer'[<<w, e>>].kind # "error"
      /\ e \in {"started", "stopped"} => answer'[<<w, e>>].kind # "refused"
  <2>1. answer \in [Clients -> Replies]
    BY TrackerNames DEF TypeInv, TrackerType, Tracker!TypeOK, Clients
  <2>2. "error" \notin Faults
    BY DEF AnswersArrive
  <2>3. Refused(w, e) \/ Replied(w, e)
    BY Served DEF LeaveInv, LifeInv, SeedInv
  <2>4. Empty("refused").kind = "refused"
    BY DEF Empty
  <2> QED
    BY <2>1, <2>2, <2>3, <2>4 DEF Refused, Replied, Clients
<1>6. WellAnswered(w)'
  BY <1>1, <1>2, <1>5 DEF WellAnswered
<1> QED
  BY <1>3, <1>4, <1>6

LEMMA LeaveStep ==
    AnswersArrive /\ TypeInv /\ TypeInv' /\ LeaveInv /\ [Next]_vars => LeaveInv'
<1> SUFFICES ASSUME AnswersArrive, TypeInv, TypeInv', LeaveInv, [Next]_vars, NEW v \in Workers
             PROVE  Attended(v)' /\ WellAnswered(v)' /\ LeavesCleanly(v)'
  BY LifeStep DEF LeaveInv
<1> USE DEF LeaveInv
<1>1. LifeAt(v) /\ LifeAt(v)' /\ LifeInv
  BY LifeStep DEF LifeInv
<1>2. ASSUME KeepsAnnounces(v), pc'[v] = pc[v], event'[v] = event[v], sent[v] \subseteq sent'[v]
      PROVE  Attended(v)' /\ WellAnswered(v)' /\ LeavesCleanly(v)'
  BY <1>2, Kept
<1>3. ASSUME NEW w \in Workers, Moves(w)
      PROVE  Attended(v)' /\ WellAnswered(v)' /\ LeavesCleanly(v)'
  <2>1. /\ KeepsAnnounces(v) /\ UNCHANGED <<sent, event, members>>
        /\ v # w => pc'[v] = pc[v]
    BY <1>3, Unmoved
  <2>2. CASE pc'[v] = pc[v]
    BY <1>2, <2>1, <2>2
  <2>3. CASE v = w /\ pc'[v] # pc[v]
    <3>1. \/ pc'[v] = "crashed"
          \/ pc[v] = "new" /\ pc'[v] = "done"
          \/ pc[v] = "closing" /\ pc'[v] = "stopping" /\ "started" \notin sent[v]
          \/ pc[v] = "stopping" /\ pc'[v] = "done"
          \/ pc[v] \in Loop /\ pc'[v] \in Loop \cup {"closing"}
      BY <1>3, <2>3 DEF Moves
    <3>2. WellAnswered(v)' /\ \A e \in Events : Underway(v, e)' => Underway(v, e)
      BY <2>1, Kept
    <3>3. Attended(v)'
      BY <3>1, <3>2 DEF Attended, Awaits, Loop
    <3>4. LeavesCleanly(v)'
      BY <1>1, <2>1, <3>1
      DEF LeavesCleanly, LifeAt, NewIsUnknown, StartedFirst, Loop, Registered
    <3> QED
      BY <3>2, <3>3, <3>4
  <2> QED
    BY <2>1, <2>2, <2>3
<1>4. ASSUME NEW w \in Workers, NEW e \in Events, Speaks(w, e)
      PROVE  Attended(v)' /\ WellAnswered(v)' /\ LeavesCleanly(v)'
  <2>1. CASE v # w
    BY <1>2, <1>4, <2>1, Spoken
  <2>2. CASE v = w
    <3>1. /\ UNCHANGED <<members, answer, sent>> /\ Awaits(v, e)'
          /\ \A d \in Events \ {e} : Underway(v, d)' => Underway(v, d)
      BY <1>4, <2>2, Spoken
    <3>2. \A d \in Events : ~Underway(v, d)
      BY <1>4, <2>2 DEF Speaks, Attended, Awaits
    <3> QED
      BY <3>1, <3>2 DEF Attended, WellAnswered, LeavesCleanly, Awaits
  <2> QED
    BY <2>1, <2>2
<1>5. ASSUME NEW w \in Workers, Accepted(w) \/ Rejected(w)
      PROVE  Attended(v)' /\ WellAnswered(v)' /\ LeavesCleanly(v)'
  <2>1. CASE v # w
    BY <1>2, <1>5, <2>1, Answered
  <2>2. CASE v = w
    <3> DEFINE e == event[v]
    <3>1. /\ UNCHANGED <<members, event>> /\ KeepsAnnounces(v) /\ sent[v] \subseteq sent'[v]
          /\ e \in Events /\ Awaits(v, e) /\ ~Underway(v, e)'
      BY <1>5, <2>2, Answered
    <3>2. /\ WellAnswered(v)'
          /\ \A d \in Events : Underway(v, d)' => Underway(v, d)
      BY <3>1, Kept
    <3>3. Attended(v)'
      BY <3>1, <3>2 DEF Attended, Awaits
    <3>4. CASE Accepted(w)
      <4>1. /\ pc'[v] \in {"loop", "sleep", "closing", "stopping"}
            /\ answer[<<v, e>>].kind = "ok"
            /\ e = "stopped" <=> pc'[v] = "stopping"
        BY <2>2, <3>1, <3>4, AfterCycleType
        DEF Accepted, Goto, Events, TypeInv, WorkerType
      <4>2. "started" \in sent'[v]
        BY <1>5, <2>2, <3>1, <3>4
        DEF Accepted, LifeInv, LifeAt, StartedFirst, TypeInv, WorkerType
      <4>3. pc'[v] = "stopping" => v \notin Registered
        BY <1>1, <4>1 DEF LifeAt, StoppedIsGone
      <4> QED
        BY <3>1, <3>2, <3>3, <4>1, <4>2, <4>3 DEF LeavesCleanly, Registered
    <3>5. CASE Rejected(w)
      <4>1. answer[<<v, e>>].kind \in {"refused", "error"}
        BY <2>2, <3>5 DEF Rejected
      <4>2. e \notin {"started", "stopped"}
        BY <3>1, <4>1 DEF WellAnswered
      <4>3. pc'[v] = "closing"
        BY <2>2, <3>5, <4>2 DEF Rejected, AnnounceFailed, Goto, TypeInv, WorkerType
      <4>4. "started" \in sent'[v]
        BY <1>1, <3>1, <4>2 DEF LifeAt, StartedFirst
      <4> QED
        BY <3>2, <3>3, <4>3, <4>4 DEF LeavesCleanly
    <3> QED
      BY <1>5, <3>4, <3>5
  <2> QED
    BY <2>1, <2>2
<1>6. ASSUME NEW w \in Workers, NEW e \in Events, TrackerServes(<<w, e>>)
      PROVE  Attended(v)' /\ WellAnswered(v)' /\ LeavesCleanly(v)'
  BY <1>1, <1>2, <1>6, LeaveServed, ServedOthers
<1>7. CASE (\E c \in Clients : Discard(c)) \/ (\E w \in Workers : Evicted(w))
  <2>1. UNCHANGED <<pc, event, sent>> /\ KeepsAnnounces(v)
    BY <1>7, Dropped
  <2> QED
    BY <1>2, <2>1
<1> QED
  BY <1>3, <1>4, <1>5, <1>6, <1>7, Moving DEF Clients

(* Workers that have returned are not in the swarm, whoever was evicted,   *)
(* crashed, failed to boot or got no answer from a peer; the announces     *)
(* themselves must be answered (FinishedGone is false otherwise).          *)
THEOREM FinishedAreGone ==
    ASSUME AnswersArrive
    PROVE  Spec => []FinishedGone
<1>1. LeaveInv => FinishedGone
  BY DEF LeaveInv, LeavesCleanly, FinishedGone
<1>2. TypeInv /\ TypeInv' /\ LeaveInv /\ [Next]_vars => LeaveInv'
  BY LeaveStep
<1> QED
  BY <1>1, <1>2, TypeInit, TypeStep, LeaveInit, PTL DEF Spec

-----------------------------------------------------------------------------
(* When nobody is dropped either, a worker in its main loop is registered, *)
(* so that none of its announces is refused, and a finished download ends  *)
(* in an acknowledged `completed`.                                         *)
NobodyDropped == "evict" \notin Faults

StaysRegistered(w) ==
    (\/ pc[w] \in Loop \/ Awaits(w, "none") \/ Awaits(w, "completed")
     \/ Awaits(w, "started") /\ answer[<<w, "started">>] # NoReply)
    => w \in Registered

NeverRefused(w) ==
    \A e \in Events : Awaits(w, e) => answer[<<w, e>>].kind \in {"none", "ok"}

CompletedIsUnderway(w) ==
    Complete(w) /\ w \notin Seeders =>
       \/ "completed" \in sent[w]
       \/ pc[w] \in Downloading \cup {"crashed"}
       \/ Awaits(w, "completed")

StayAt(w) == StaysRegistered(w) /\ NeverRefused(w) /\ CompletedIsUnderway(w)

StayInv == LeaveInv /\ \A w \in Workers : StayAt(w)

LEMMA StayInit == Init => StayInv
<1> SUFFICES ASSUME Init, NEW w \in Workers
             PROVE  StayAt(w)
  BY LeaveInit DEF StayInv
<1>1. pc[w] = "new" /\ (Complete(w) <=> w \in Seeders)
  BY DEF Init
<1> QED
  BY <1>1 DEF StayAt, StaysRegistered, NeverRefused, CompletedIsUnderway, Awaits, Loop

LEMMA StayServed ==
    ASSUME TypeInv, StayInv, AnswersArrive, NEW w \in Workers, NEW e \in Events,
           TrackerServes(<<w, e>>)
    PROVE  StayAt(w)'
<1>1. /\ UNCHANGED <<pc, event, sent, have>>
      /\ \A d \in Events \ {e} : answer'[<<w, d>>] = answer[<<w, d>>]
      /\ Underway(w, e)
  BY ServedOthers DEF StayInv, LeaveInv
<1>2. StayAt(w) /\ Attended(w)
  BY DEF StayInv, LeaveInv
<1>3. \/ e \notin {"started", "stopped"} /\ w \notin Registered
      \/ e = "stopped" /\ Replied(w, e)
      \/ e # "stopped" /\ w \in Registered' /\ Replied(w, e)
  BY Served DEF StayInv, LeaveInv, LifeInv, SeedInv, Refused, Admitted
<1>4. pc[w] = "crashed" \/ Awaits(w, e)
  BY <1>1, <1>2 DEF Attended
<1>5. pc[w] # "crashed" => Replied(w, e)
  BY <1>2, <1>3, <1>4 DEF StayAt, StaysRegistered, Events
<1>6. StaysRegistered(w)'
  BY <1>1, <1>3, <1>4, <1>5, <1>2 DEF StayAt, StaysRegistered, Awaits, Loop
<1>7. NeverRefused(w)'
  <2>1. answer \in [Clients -> Replies]
    BY TrackerNames DEF TypeInv, TrackerType, Tracker!TypeOK, Clients
  <2>2. Replied(w, e) => answer'[<<w, e>>].kind = "ok"
    BY <2>1 DEF Replied, AnswersArrive, Clients
  <2> QED
    BY <1>1, <1>2, <1>4, <1>5, <2>2 DEF StayAt, NeverRefused, Awaits
<1>8. CompletedIsUnderway(w)'
  BY <1>1, <1>2 DEF StayAt, CompletedIsUnderway, Awaits, Complete
<1> QED
  BY <1>6, <1>7, <1>8 DEF StayAt

LEMMA StayStep ==
    AnswersArrive /\ NobodyDropped /\ TypeInv /\ TypeInv' /\ StayInv /\ [Next]_vars => StayInv'
<1> SUFFICES ASSUME AnswersArrive, NobodyDropped, TypeInv, TypeInv', StayInv, [Next]_vars,
                    NEW v \in Workers
             PROVE  StayAt(v)'
  BY LeaveStep DEF StayInv
<1> USE DEF StayInv
<1>1. StayAt(v) /\ LifeAt(v) /\ LifeInv
  BY DEF LeaveInv, LifeInv
<1>2. ASSUME KeepsAnnounces(v), pc'[v] = pc[v], event'[v] = event[v],
             Complete(v)' => Complete(v),
             v \in Registered => v \in Registered', sent[v] \subseteq sent'[v]
      PROVE  StayAt(v)'
  <2>1. \A e \in Events :
           answer'[<<v, e>>] = answer[<<v, e>>] \/ answer'[<<v, e>>] = NoReply
    BY <1>2 DEF KeepsAnnounces
  <2>2. StaysRegistered(v)'
    BY <1>1, <1>2, <2>1 DEF StayAt, StaysRegistered, Awaits, Events
  <2>3. NeverRefused(v)'
    BY <1>1, <1>2, <2>1, NoReplyKind DEF StayAt, NeverRefused, Awaits
  <2>4. CompletedIsUnderway(v)'
    BY <1>1, <1>2 DEF StayAt, CompletedIsUnderway, Awaits
  <2> QED
    BY <2>2, <2>3, <2>4 DEF StayAt
<1>3. ASSUME NEW w \in Workers, Moves(w)
      PROVE  StayAt(v)'
  <2>1. /\ UNCHANGED <<sent, event>> /\ KeepsAnnounces(v) /\ (v \in Registered' <=> v \in Registered)
        /\ v # w => pc'[v] = pc[v] /\ have'[v] = have[v]
    BY <1>3, Unmoved
  <2>2. CASE pc'[v] = pc[v] /\ (Complete(v)' => Complete(v))
    BY <1>2, <2>1, <2>2
  <2>3. CASE v = w /\ pc[v] = "request" /\ pc'[v] = "request"
    BY <1>1, <2>1, <2>3
    DEF StayAt, StaysRegistered, NeverRefused, CompletedIsUnderway, Awaits,
        Downloading, Loop
  <2>4. CASE v = w /\ have'[v] = have[v] /\ pc'[v] # pc[v]
    <3>1. \/ pc'[v] = "crashed"
          \/ pc[v] = "new" /\ pc'[v] = "done"
          \/ pc[v] = "closing" /\ pc'[v] = "stopping"
          \/ pc[v] = "stopping" /\ pc'[v] = "done"
          \/ /\ pc[v] \in Loop /\ pc'[v] \in Loop \cup {"closing"}
             /\ \/ ~Complete(v) \/ v \in Seeders \/ "completed" \in sent[v]
                \/ pc[v] \notin Downloading
                \/ pc'[v] \in Downloading
      BY <1>3, <2>4 DEF Moves
    <3>2. StaysRegistered(v)'
      BY <1>1, <2>1, <3>1 DEF StayAt, StaysRegistered, Awaits, Loop
    <3>3. NeverRefused(v)'
      BY <3>1 DEF NeverRefused, Awaits, Loop
    <3>4. CompletedIsUnderway(v)'
      BY <1>1, <2>1, <2>4, <3>1
      DEF StayAt, CompletedIsUnderway, Awaits, Complete, Downloading, Loop
    <3> QED
      BY <3>2, <3>3, <3>4 DEF StayAt
  <2>5. \/ pc'[v] = pc[v] /\ (Complete(v)' => Complete(v))
        \/ v = w /\ pc[v] = "request" /\ pc'[v] = "request"
        \/ v = w /\ have'[v] = have[v] /\ pc'[v] # pc[v]
    <3>1. have[v] \in SUBSET Pieces
      BY DEF TypeInv, WorkerType
    <3>2. CASE v # w
      BY <2>1, <3>2 DEF Complete
    <3>3. CASE v = w
      <4>1. \/ have'[v] = have[v]
            \/ have'[v] \subseteq have[v] /\ pc'[v] = pc[v]
            \/ pc[v] = "request" /\ pc'[v] = "request"
        BY <1>3, <3>3 DEF Moves
      <4>2. CASE have'[v] \subseteq have[v] /\ pc'[v] = pc[v]
        BY <3>1, <4>2 DEF Complete
      <4> QED
        BY <3>3, <4>1, <4>2 DEF Complete
    <3> QED
      BY <3>2, <3>3
  <2> QED
    BY <2>2, <2>3, <2>4, <2>5
<1>4. ASSUME NEW w \in Workers, NEW e \in Events, Speaks(w, e)
      PROVE  StayAt(v)'
  <2>1. UNCHANGED <<members, answer, sent, have>>
    BY <1>4, Spoken
  <2>2. CASE v # w
    BY <1>2, <1>4, <2>1, <2>2, Spoken DEF Registered, Complete
  <2>3. CASE v = w
    <3>1. Awaits(v, e)' /\ answer'[<<v, e>>] = NoReply
      BY <1>4, <2>1, <2>3, Spoken
    <3>2. \/ e = "started" /\ pc[v] = "new"
          \/ e = "none" /\ pc[v] = "sleep"
          \/ e = "completed" /\ pc[v] = "cycleEnd"
          \/ e = "stopped" /\ pc[v] = "closing"
      BY <1>4, <2>3 DEF Speaks
    <3>3. StaysRegistered(v)'
      BY <1>1, <2>1, <3>1, <3>2 DEF StayAt, StaysRegistered, Awaits, Loop, Registered
    <3>4. NeverRefused(v)'
      BY <3>1, NoReplyKind DEF NeverRefused, Awaits
    <3>5. CompletedIsUnderway(v)'
      BY <1>1, <2>1, <3>1, <3>2
      DEF StayAt, CompletedIsUnderway, Awaits, Complete, Downloading
    <3> QED
      BY <3>3, <3>4, <3>5 DEF StayAt
  <2> QED
    BY <2>2, <2>3
<1>5. ASSUME NEW w \in Workers, Accepted(w) \/ Rejected(w)
      PROVE  StayAt(v)'
  <2>1. /\ UNCHANGED <<members, have, event>> /\ KeepsAnnounces(v) /\ sent[v] \subseteq sent'[v]
        /\ v # w => pc'[v] = pc[v]
    BY <1>1, <1>5, Answered
  <2>2. CASE v # w
    BY <1>2, <2>1, <2>2 DEF Registered, Complete
  <2>3. CASE v = w
    <3> DEFINE e == event[v]
    <3>1. e \in Events /\ Awaits(v, e) /\ answer[<<v, e>>].kind # "none"
      BY <1>1, <1>5, <2>3, Answered
    <3>2. Accepted(v)
      BY <1>1, <1>5, <2>3, <3>1 DEF Rejected, StayAt, NeverRefused
    <3>3. /\ pc'[v] \in {"loop", "sleep", "closing", "stopping"}
          /\ pc'[v] \in Loop => e # "stopped"
          /\ e = "completed" => "completed" \in sent'[v]
      <4>1. AfterCycle(v, TRUE) \in {"closing", "sleep"}
        BY AfterCycleType DEF TypeInv
      <4>2. e \in {"started", "none", "completed", "stopped"}
        BY <3>1 DEF Events
      <4> QED
        BY <3>2, <4>1, <4>2 DEF Accepted, Goto, Loop, TypeInv, WorkerType
    <3>4. StaysRegistered(v)'
      BY <1>1, <2>1, <3>1, <3>3, NoReplyKind
      DEF StayAt, StaysRegistered, Awaits, Loop, Registered, Events
    <3>5. NeverRefused(v)'
      BY <3>3 DEF NeverRefused, Awaits
    <3>6. CompletedIsUnderway(v)'
      BY <1>1, <2>1, <3>1, <3>3
      DEF StayAt, CompletedIsUnderway, Awaits, Complete, Downloading
    <3> QED
      BY <3>4, <3>5, <3>6 DEF StayAt
  <2> QED
    BY <2>2, <2>3
<1>6. ASSUME NEW w \in Workers, NEW e \in Events, TrackerServes(<<w, e>>)
      PROVE  StayAt(v)'
  BY <1>1, <1>2, <1>6, StayServed, ServedOthers DEF Complete
<1>7. ASSUME NEW c \in Clients, Discard(c)
      PROVE  StayAt(v)'
  <2>1. UNCHANGED <<pc, event, sent, have>> /\ KeepsAnnounces(v)
    BY <1>7, Dropped
  <2>2. UNCHANGED members
    BY <1>7 DEF Discard, Tracker!TakeReply
  <2> QED
    BY <1>2, <2>1, <2>2 DEF Registered, Complete
<1>8. ASSUME NEW w \in Workers, Evicted(w)
      PROVE  FALSE
  BY <1>8 DEF Evicted, NobodyDropped
<1> QED
  BY <1>3, <1>4, <1>5, <1>6, <1>7, <1>8, Moving DEF Clients

(* A worker that downloaded the torrent does not return before the tracker *)
(* has acknowledged `completed`, whoever crashed, failed to boot or got no *)
(* answer from a peer; the announces themselves must be answered, and the  *)
(* worker must not have been dropped.                                      *)
THEOREM CompletionIsAnnounced ==
    ASSUME AnswersArrive, NobodyDropped
    PROVE  Spec => []CompletedIsAnnounced
<1>1. StayInv => CompletedIsAnnounced
  BY DEF StayInv, StayAt, CompletedIsUnderway, CompletedIsAnnounced, Downloading, Awaits
<1>2. TypeInv /\ TypeInv' /\ StayInv /\ [Next]_vars => StayInv'
  BY StayStep
<1> QED
  BY <1>1, <1>2, TypeInit, TypeStep, StayInit, PTL DEF Spec
=============================================================================
