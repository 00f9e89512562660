---------------------------- MODULE TorrentWorker ----------------------------
(***************************************************************************)
(* peer/torrent_worker.py, TorrentWorker.run: peers of one swarm, each the *)
(* worker of its own process, composed with the tracker (SwarmRegistry,    *)
(* which TrackerState implements) and with one another.  A worker is       *)
(* client (tracker_client, ping_client, piece_client) and, while `serving`,*)
(* server (peer_server) to the others.                                     *)
(*                                                                         *)
(* Every announce is a connection of its own, so an announce the worker    *)
(* gave up on may still be served later.  A worker opens at most one       *)
(* connection per event at a time: <<worker, event>> names it.             *)
(***************************************************************************)
EXTENDS Announces

CONSTANTS Torrent,     \* the swarm all workers join
          PieceCount,  \* of the torrent
          Seeders,     \* workers whose storage is complete when they start
          Lingering,   \* workers with exit_on_complete = False
          Endless,     \* workers whose max_cycles is out of reach
          MaxCycles,   \* max_cycles of the others
          Rotting,     \* workers whose disk may spoil pieces while they run
          Faults       \* the other faults that may occur

(* The tracker's peers are the workers.                                    *)
Workers == Peers
Pieces  == 0..(PieceCount - 1)

ASSUME SwarmIsOneTorrent == Torrents = {Torrent}
ASSUME FinitelyManyWorkers == IsFiniteSet(Workers)
ASSUME WorkersAreSets == Seeders \cup Lingering \cup Endless \cup Rotting \subseteq Workers
ASSUME CountsAreNatural == PieceCount \in Nat \ {0} /\ MaxCycles \in Nat \ {0}
ASSUME KnownFaults ==
    Faults \subseteq {"boot", "lost", "timeout", "reset", "error", "evict", "crash", "ping", "piece"}

VARIABLES
    members, seeds, asked, answer,  \* the tracker; see SwarmRegistry
    pc,         \* [worker |-> control point of run()]
    event,      \* [worker |-> the event it awaits an answer to]
    have,       \* [worker |-> its PieceManager's bitfield]
    spoilt,     \* history: [worker |-> the pieces it gave up since it looked at
                \* its bitfield for its latest announce other than `stopped`]
    serving,    \* [worker |-> its PeerServer accepts connections]
    stop,       \* [worker |-> its stop_event]
    peers,      \* [worker |-> response.peers]
    todo,       \* [worker |-> peers left in the current loop over them]
    responsive, \* [worker |-> responsive_ids]
    source,     \* [worker |-> the peer it downloads from]
    wanted,     \* [worker |-> available_missing still to request]
    cycles,     \* [worker |-> announce_cycles]
    sent        \* [worker |-> which of started/completed/stopped were answered]

tracker  == <<members, seeds, asked, answer>>
download == <<todo, responsive, source, wanted>>
control  == <<pc, event, sent, cycles, peers>>
storage  == <<have, spoilt>>
vars     == <<tracker, control, storage, serving, stop, download>>

Tracker == INSTANCE SwarmRegistry WITH Clients <- Workers \X Events

Registered == members[Torrent]
Complete(w) == have[w] = Pieces
Over(w)     == pc[w] \in {"done", "raised", "crashed"}

Points == {"new", "asking", "loop", "ping", "download", "interest", "request",
           "cycleEnd", "sleep", "closing", "stopping", "done", "raised", "crashed"}

TypeOK ==
    /\ Tracker!TypeOK
    /\ pc \in [Workers -> Points]
    /\ event \in [Workers -> Events]
    /\ have \in [Workers -> SUBSET Pieces]
    /\ spoilt \in [Workers -> SUBSET Pieces]
    /\ serving \in [Workers -> BOOLEAN]
    /\ stop \in [Workers -> BOOLEAN]
    /\ \A v \in {peers, todo, responsive} : v \in [Workers -> SUBSET Workers]
    /\ source \in [Workers -> Workers]
    /\ wanted \in [Workers -> SUBSET Pieces]
    /\ cycles \in [Workers -> 0..MaxCycles]
    /\ sent \in [Workers -> SUBSET {"started", "completed", "stopped"}]

Init ==
    /\ Tracker!Init
    /\ pc = [w \in Workers |-> "new"]
    /\ event = [w \in Workers |-> "none"]
    /\ have \in [Workers -> SUBSET Pieces]
    /\ \A w \in Workers : Complete(w) <=> w \in Seeders
    /\ spoilt = [w \in Workers |-> {}]
    /\ serving = [w \in Workers |-> FALSE]
    /\ stop = [w \in Workers |-> FALSE]
    /\ peers = [w \in Workers |-> {}]
    /\ todo = peers /\ responsive = peers
    /\ source = [w \in Workers |-> w]
    /\ wanted = [w \in Workers |-> {}]
    /\ cycles = [w \in Workers |-> 0]
    /\ sent = [w \in Workers |-> {}]

Goto(w, point) == pc' = [pc EXCEPT ![w] = point]

-----------------------------------------------------------------------------
(* Announcing.                                                             *)

(* announce(event): the counters are read when the request is sent.  (In   *)
(* an announce of `stopped` they do not matter; see Requests.)  It may not *)
(* reach the tracker.                                                      *)
Announce(w, e) ==
    /\ \/ Tracker!Ask(<<w, e>>, [torrent |-> Torrent, peer |-> w, event |-> e,
                                 leftZero |-> e = "stopped" \/ Complete(w)])
       \/ /\ "lost" \in Faults
          /\ asked[<<w, e>>] = NoRequest /\ answer[<<w, e>>] = NoReply
          /\ UNCHANGED tracker
    /\ event' = [event EXCEPT ![w] = e]
    /\ spoilt' = IF e = "stopped" THEN spoilt ELSE [spoilt EXCEPT ![w] = {}]
    /\ Goto(w, "asking")

(* Barrier passed, metainfo loaded, storage scanned, server listening (at  *)
(* a port nobody knows before the announce: one step).                     *)
Boot(w) ==
    /\ pc[w] = "new"
    /\ serving' = [serving EXCEPT ![w] = TRUE]
    /\ Announce(w, "started")
    /\ UNCHANGED <<have, stop, peers, download, cycles, sent>>

(* One of these raises: nothing was announced, no server is left running.  *)
BootFails(w) ==
    /\ "boot" \in Faults
    /\ pc[w] = "new"
    /\ Goto(w, "done")
    /\ UNCHANGED <<tracker, event, sent, cycles, peers, storage, serving, stop, download>>

(* Mutant of AfterCycle: one cycle too many.                               *)
AfterCycle_late(w, complete) ==
    IF \/ complete /\ w \notin Lingering
       \/ w \notin Endless /\ cycles[w] > MaxCycles
    THEN "closing"
    ELSE "sleep"

(* The end of an iteration, which asked is_complete() once:                *)
(* exit_on_complete, then max_cycles.                                      *)
AfterCycle(w, complete) ==
    IF \/ complete /\ w \notin Lingering
       \/ w \notin Endless /\ cycles[w] >= MaxCycles
    THEN "closing"
    ELSE "sleep"

(* Mutant of Accepted: the peers of the response are not looked at.        *)
Accepted_unread(w) ==
    /\ pc[w] = "asking"
    /\ answer[<<w, event[w]>>].kind = "ok"
    /\ Tracker!TakeReply(<<w, event[w]>>)
    /\ sent' = [sent EXCEPT ![w] = @ \cup ({event[w]} \ {"none"})]
    /\ peers' = [peers EXCEPT ![w] = {}]
    /\ Goto(w, CASE event[w] \in {"started", "none"} -> "loop"
                 [] event[w] = "completed" -> AfterCycle(w, TRUE)
                 [] event[w] = "stopped" -> "stopping")
    /\ UNCHANGED <<event, cycles, storage, serving, stop, download>>

(* The answer is a peer list.                                              *)
Accepted(w) ==
    /\ pc[w] = "asking"
    /\ answer[<<w, event[w]>>].kind = "ok"
    /\ Tracker!TakeReply(<<w, event[w]>>)
    /\ sent' = [sent EXCEPT ![w] = @ \cup ({event[w]} \ {"none"})]
    /\ peers' = [peers EXCEPT ![w] =
                    IF event[w] = "stopped" THEN @ ELSE answer[<<w, event[w]>>].peers]
    /\ Goto(w, CASE event[w] \in {"started", "none"} -> "loop"
                 [] event[w] = "completed" -> AfterCycle(w, TRUE)
                 [] event[w] = "stopped" -> "stopping")
    /\ UNCHANGED <<event, cycles, storage, serving, stop, download>>

(* TrackerClientError ends the lifecycle, except that `stopped` is         *)
(* best effort.                                                            *)
AnnounceFailed(w) ==
    /\ Goto(w, IF event[w] = "stopped" THEN "stopping" ELSE "closing")
    /\ UNCHANGED <<event, sent, cycles, peers, storage, serving, stop, download>>

(* The tracker answers with a failure reason or an internal error.         *)
Rejected(w) ==
    /\ pc[w] = "asking"
    /\ answer[<<w, event[w]>>].kind \in {"refused", "error"}
    /\ Tracker!TakeReply(<<w, event[w]>>)
    /\ AnnounceFailed(w)

(* The request did not reach the tracker.                                  *)
RequestLost(w) ==
    /\ "lost" \in Faults
    /\ pc[w] = "asking"
    /\ asked[<<w, event[w]>>] = NoRequest /\ answer[<<w, event[w]>>] = NoReply
    /\ UNCHANGED tracker
    /\ AnnounceFailed(w)

(* tracker_timeout passes; the tracker may serve the request all the same. *)
TimedOut(w) ==
    /\ "timeout" \in Faults
    /\ pc[w] = "asking"
    /\ UNCHANGED tracker
    /\ AnnounceFailed(w)

(* The connection breaks while the response is read: an exception that is  *)
(* no TrackerClientError.  In the finally block nothing catches it: run()  *)
(* raises, past the server's stop().                                       *)
ConnectionReset(w) ==
    /\ "reset" \in Faults
    /\ pc[w] = "asking"
    /\ Goto(w, IF event[w] = "stopped" THEN "raised" ELSE "closing")
    /\ UNCHANGED <<tracker, event, sent, cycles, peers, storage, serving, stop, download>>

-----------------------------------------------------------------------------
(* One iteration of the main loop.                                         *)

BeginCycle(w) ==
    /\ pc[w] = "loop"
    /\ IF stop[w]
       THEN /\ Goto(w, "closing")
            /\ UNCHANGED <<cycles, todo, responsive>>
       ELSE /\ Goto(w, "ping")
            /\ cycles' = [cycles EXCEPT ![w] = IF w \in Endless THEN @ ELSE @ + 1]
            /\ todo' = [todo EXCEPT ![w] = peers[w]]
            /\ responsive' = [responsive EXCEPT ![w] = {}]
    /\ UNCHANGED <<tracker, event, sent, peers, storage, serving, stop, source, wanted>>

(* ping_all_peers pings the peers at the same time: in any order.          *)
Ping(w, q) ==
    /\ pc[w] = "ping"
    /\ q \in todo[w]
    /\ todo' = [todo EXCEPT ![w] = @ \ {q}]
    /\ \/ serving[q] /\ responsive' = [responsive EXCEPT ![w] = @ \cup {q}]
       \/ (~serving[q] \/ "ping" \in Faults) /\ UNCHANGED responsive
    /\ UNCHANGED <<tracker, control, storage, serving, stop, source, wanted>>

PingsDone(w) ==
    /\ pc[w] = "ping"
    /\ todo[w] = {}
    /\ todo' = [todo EXCEPT ![w] = responsive[w]]
    /\ Goto(w, "download")
    /\ UNCHANGED <<tracker, event, sent, cycles, peers, storage, serving, stop,
                   responsive, source, wanted>>

(* Mutant of FetchBitfield: a peer that does not answer is tried again.    *)
FetchBitfield_retry(w, q) ==
    /\ pc[w] = "download"
    /\ q \in todo[w]
    /\ ~Complete(w)
    /\ serving[q]
    /\ todo' = [todo EXCEPT ![w] = @ \ {q}]
    /\ source' = [source EXCEPT ![w] = q]
    /\ wanted' = [wanted EXCEPT ![w] = have[q] \ have[w]]
    /\ Goto(w, IF wanted'[w] = {} THEN "download" ELSE "interest")
    /\ UNCHANGED <<tracker, event, sent, cycles, peers, storage, serving, stop, responsive>>

(* download_from_peer, first connection: fetch the bitfield.  A peer that  *)
(* has gone since its PONG, or does not answer properly, raises            *)
(* PieceClientError out of the main loop.  (The loop goes by peer id; here *)
(* by any order.)                                                          *)
FetchBitfield(w, q) ==
    /\ pc[w] = "download"
    /\ q \in todo[w]
    /\ ~Complete(w)
    /\ todo' = [todo EXCEPT ![w] = @ \ {q}]
    /\ source' = [source EXCEPT ![w] = q]
    /\ \/ /\ serving[q]
          /\ wanted' = [wanted EXCEPT ![w] = have[q] \ have[w]]
          /\ Goto(w, IF wanted'[w] = {} THEN "download" ELSE "interest")
       \/ /\ ~serving[q] \/ "piece" \in Faults
          /\ Goto(w, "closing")
          /\ UNCHANGED wanted
    /\ UNCHANGED <<tracker, event, sent, cycles, peers, storage, serving, stop, responsive>>

(* Second connection: INTERESTED, whose failure is fatal as well.          *)
ExpressInterest(w) ==
    /\ pc[w] = "interest"
    /\ \/ serving[source[w]] /\ Goto(w, "request")
       \/ (~serving[source[w]] \/ "piece" \in Faults) /\ Goto(w, "closing")
    /\ UNCHANGED <<tracker, event, sent, cycles, peers, storage, serving, stop, download>>

(* One connection per piece, in order; a failed request is only noted, and *)
(* so is one for a piece the other has given up in the meantime.           *)
RequestPiece(w) ==
    /\ pc[w] = "request"
    /\ \E i \in wanted[w] :
          LET served == serving[source[w]] /\ i \in have[source[w]] IN
          /\ \A j \in wanted[w] : i <= j
          /\ wanted' = [wanted EXCEPT ![w] = @ \ {i}]
          /\ \/ served /\ have' = [have EXCEPT ![w] = @ \cup {i}]
             \/ (~served \/ "piece" \in Faults) /\ UNCHANGED have
    /\ UNCHANGED <<tracker, control, spoilt, serving, stop, todo, responsive, source>>

RequestsDone(w) ==
    /\ pc[w] = "request"
    /\ wanted[w] = {}
    /\ Goto(w, "download")
    /\ UNCHANGED <<tracker, event, sent, cycles, peers, storage, serving, stop, download>>

DownloadsDone(w) ==
    /\ pc[w] = "download"
    /\ todo[w] = {} \/ Complete(w)
    /\ todo' = [todo EXCEPT ![w] = {}]
    /\ Goto(w, "cycleEnd")
    /\ UNCHANGED <<tracker, event, sent, cycles, peers, storage, serving, stop,
                   responsive, source, wanted>>

(* Mutant of EndCycle: `completed` is not announced.                       *)
EndCycle_silent(w) ==
    /\ pc[w] = "cycleEnd"
    /\ Goto(w, AfterCycle(w, Complete(w))) /\ UNCHANGED <<tracker, event, spoilt>>
    /\ UNCHANGED <<sent, cycles, peers, have, serving, stop, download>>

(* Mutant of EndCycle: `completed` is announced after any download.        *)
EndCycle_eager(w) ==
    /\ pc[w] = "cycleEnd"
    /\ IF w \notin Seeders /\ "completed" \notin sent[w]
       THEN Announce(w, "completed")
       ELSE Goto(w, AfterCycle(w, Complete(w))) /\ UNCHANGED <<tracker, event, spoilt>>
    /\ UNCHANGED <<sent, cycles, peers, have, serving, stop, download>>

(* A finished download is announced once, then the exits are considered.   *)
(* (The code asks is_complete() and then reads `left` for the request; the *)
(* bitfield is read once here.)                                            *)
EndCycle(w) ==
    /\ pc[w] = "cycleEnd"
    /\ IF Complete(w) /\ w \notin Seeders /\ "completed" \notin sent[w]
       THEN Announce(w, "completed")
       ELSE Goto(w, AfterCycle(w, Complete(w))) /\ UNCHANGED <<tracker, event, spoilt>>
    /\ UNCHANGED <<sent, cycles, peers, have, serving, stop, download>>

(* Mutant of Wake: the next cycle works from the previous peer list.       *)
Wake_stale(w) ==
    /\ pc[w] = "sleep"
    /\ Goto(w, IF stop[w] THEN "closing" ELSE "loop")
    /\ UNCHANGED <<tracker, event, sent, cycles, peers, storage, serving, stop, download>>

(* stop_event.wait(interval): the interval passes, or the event is set.    *)
Wake(w) ==
    /\ pc[w] = "sleep"
    /\ IF stop[w]
       THEN Goto(w, "closing") /\ UNCHANGED <<tracker, event, spoilt>>
       ELSE Announce(w, "none")
    /\ UNCHANGED <<sent, cycles, peers, have, serving, stop, download>>

(* Mutant of Close: `stopped` is not announced.                            *)
Close_silent(w) ==
    /\ pc[w] = "closing"
    /\ Goto(w, "stopping") /\ UNCHANGED <<tracker, event, spoilt>>
    /\ UNCHANGED <<sent, cycles, peers, have, serving, stop, download>>

(* The finally block: `stopped` is announced if `started` was answered.    *)
Close(w) ==
    /\ pc[w] = "closing"
    /\ IF "started" \in sent[w]
       THEN Announce(w, "stopped")
       ELSE Goto(w, "stopping") /\ UNCHANGED <<tracker, event, spoilt>>
    /\ UNCHANGED <<sent, cycles, peers, have, serving, stop, download>>

StopServer(w) ==
    /\ pc[w] = "stopping"
    /\ serving' = [serving EXCEPT ![w] = FALSE]
    /\ Goto(w, "done")
    /\ UNCHANGED <<tracker, event, sent, cycles, peers, storage, stop, download>>

-----------------------------------------------------------------------------
(* The surroundings.                                                       *)

worker == <<control, storage, serving, stop, download>>

TrackerServes(c) ==
    /\ \/ Tracker!Serve(c)
       \/ Tracker!Refuse(c)
       \/ "error" \in Faults /\ Tracker!Fail(c)
    /\ UNCHANGED worker

(* The reply to an announce nobody waits for any more.                     *)
Discard(c) ==
    /\ ~(pc[c[1]] = "asking" /\ event[c[1]] = c[2])
    /\ Tracker!TakeReply(c)
    /\ UNCHANGED worker

StopRequested(w) ==
    /\ ~stop[w]
    /\ ~Over(w)
    /\ stop' = [stop EXCEPT ![w] = TRUE]
    /\ UNCHANGED <<tracker, control, storage, serving, download>>

(* A peer that was busy for longer than the tracker's timeout is dropped.  *)
Evicted(w) ==
    /\ "evict" \in Faults
    /\ w \in Registered
    /\ Tracker!Drop(Torrent, {w})
    /\ UNCHANGED worker

(* Somebody requests a piece that is no longer right on disk: the upload   *)
(* handler finds its hash wrong and read_piece() gives it up.              *)
UploadFindsRot(w, i) ==
    /\ w \in Rotting
    /\ serving[w]
    /\ i \in have[w]
    /\ have' = [have EXCEPT ![w] = @ \ {i}]
    /\ spoilt' = [spoilt EXCEPT ![w] = @ \cup {i}]
    /\ UNCHANGED <<tracker, control, serving, stop, download>>

Crash(w) ==
    /\ "crash" \in Faults
    /\ pc[w] # "new" /\ ~Over(w)
    /\ Goto(w, "crashed")
    /\ serving' = [serving EXCEPT ![w] = FALSE]
    /\ UNCHANGED <<tracker, event, sent, cycles, peers, storage, stop, download>>

Step(w) ==
    \/ Boot(w) \/ Accepted(w) \/ Rejected(w) \/ BeginCycle(w) \/ PingsDone(w)
    \/ \E q \in Workers : Ping(w, q) \/ FetchBitfield(w, q)
    \/ ExpressInterest(w) \/ RequestPiece(w) \/ RequestsDone(w) \/ DownloadsDone(w)
    \/ EndCycle(w) \/ Wake(w) \/ Close(w) \/ StopServer(w)

Fault(w) ==
    \/ BootFails(w) \/ RequestLost(w) \/ TimedOut(w) \/ ConnectionReset(w)
    \/ Evicted(w) \/ Crash(w)
    \/ \E i \in Pieces : UploadFindsRot(w, i)

AllStopped == \A w \in Workers : Over(w)

Next ==
    \/ \E w \in Workers : Step(w) \/ Fault(w) \/ StopRequested(w)
    \/ \E c \in Workers \X Events : TrackerServes(c) \/ Discard(c)
    \/ AllStopped /\ UNCHANGED vars

Spec == Init /\ [][Next]_vars

(* Threads run, connections to a live tracker are served; nobody has to    *)
(* ask a worker to stop and no fault has to occur.                         *)
Fairness ==
    /\ \A w \in Workers : WF_vars(Step(w))
    /\ \A c \in Workers \X Events : WF_vars(TrackerServes(c))

FairSpec == Spec /\ Fairness

-----------------------------------------------------------------------------
(* The step serves an announce of w's.                                     *)
Heard(w) ==
    \E e \in Events : asked[<<w, e>>] # NoRequest /\ asked'[<<w, e>>] = NoRequest

(* A peer that the tracker, after serving an announce of it or out of the  *)
(* blue, counts as complete has every piece, except those its own disk has *)
(* spoilt since it looked at its bitfield for that announce: announces     *)
(* that arrive late, after others or after an eviction never overstate.    *)
SeedsAreComplete ==
    [][\A w \in seeds'[Torrent] :
          Heard(w) \/ w \notin seeds[Torrent] => have[w] \cup spoilt[w] = Pieces]_vars

(* A worker whose `stopped` was answered is not brought back by an earlier *)
(* announce of its own that the tracker serves afterwards.                 *)
NoResurrection ==
    \A w \in Workers : "stopped" \in sent[w] => w \notin Registered

(* Of two workers in the swarm whose `started` was answered, at least one  *)
(* has the other in its latest peer list: no two peers miss each other.    *)
MutualDiscovery ==
    \A w, q \in Registered :
        (w # q /\ "started" \in sent[w] \cap sent[q]) => w \in peers[q] \/ q \in peers[w]

(* A worker that downloaded the torrent does not return before the tracker *)
(* has acknowledged `completed`.                                           *)
CompletedIsAnnounced ==
    \A w \in Workers \ Seeders :
        pc[w] = "done" /\ Complete(w) => "completed" \in sent[w]

(* "Finished workers should be gone now."                                  *)
FinishedGone == \A w \in Workers : pc[w] = "done" => w \notin Registered

(* A stop request ends the worker, wherever it finds it.                   *)
StopIsHonoured == \A w \in Workers : stop[w] ~> pc[w] = "done"

(* With a seeder that stays and nobody stopping it, a patient peer         *)
(* completes, whatever the order in which the two start.                   *)
PatientPeersComplete ==
    \A w \in Endless :
        [](\A v \in Workers : ~stop[v]) => <>Complete(w)
=============================================================================
