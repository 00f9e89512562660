---------------------------- MODULE TrackerState ----------------------------
(***************************************************************************)
(* tracker/tracker_state.py under tracker/tracker_server.py: one handler   *)
(* thread per HTTP connection and one cleanup thread share the table of    *)
(* swarms, guarded by one lock.                                            *)
(*                                                                         *)
(* Handlers and cleaner both take their timestamp BEFORE they wait for the *)
(* lock, so the table is updated with times that may be out of order.      *)
(* Timestamps are kept as ages (time elapsed since), counted in ticks up   *)
(* to AgeCap; a comparison of timestamps is the comparison of their ages,  *)
(* and ages beyond AgeCap are all equally past the timeout.                *)
(***************************************************************************)
EXTENDS Announces

CONSTANTS Threads,        \* handler threads that may run at the same time
          Cleaner, Free,  \* the lock's other two values: cleanup thread, nobody
          PeerTimeout,    \* TrackerRuntime's peer_timeout, in ticks
          MaxDelay,       \* bound: ticks between a timestamp and its use
          LoggerFails     \* whether EventLogger.log may raise (disk full, ...)

ASSUME DistinctHolders == /\ Cleaner \notin Threads
                          /\ Free \notin Threads
                          /\ Free # Cleaner
ASSUME TimesAreNatural == PeerTimeout \in Nat /\ MaxDelay \in Nat
ASSUME FinitelyManyPeers == IsFiniteSet(Peers)
ASSUME LoggerFailsIsBoolean == LoggerFails \in BOOLEAN

VARIABLES
    lock,        \* TrackerState._lock
    known,       \* the keys of _swarms
    members,     \* [t |-> the keys of _swarms[t]]
    seeds,       \* [t |-> the members whose record has left = 0]
    age,         \* [t |-> [p |-> age of the record's last_seen]]
    heard,       \* history: age of the youngest timestamp ever written for p
    pc,          \* control point of each handler
    request,     \* the announce each handler serves
    stamp,       \* age of each handler's `timestamp`
    reply,       \* what each handler has sent
    cleaner,     \* control point of the cleanup thread
    sweepStamp,  \* age of the cleanup thread's `timestamp`
    sweepTodo    \* swarms its loop has still to visit

table   == <<known, members, seeds, age, heard>>
handler == <<pc, request, stamp, reply>>
sweeper == <<cleaner, sweepStamp, sweepTodo>>
vars    == <<lock, table, handler, sweeper>>

AgeCap == PeerTimeout + MaxDelay + 1
Elapse(a) == IF a < AgeCap THEN a + 1 ELSE a

(* _build_response_locked: the counts, and the peers without the requester *)
Response(r) == Snapshot(members[r.torrent], seeds[r.torrent], r.peer)

(* What a handler is committed to answer: from its change on, the reply it *)
(* is about to build; once sent, the reply itself.                         *)
Answer == [th \in Threads |-> IF pc[th] = "updated" THEN Response(request[th])
                                                    ELSE reply[th]]

Asked == [th \in Threads |-> IF pc[th] \in {"waiting", "locked"} THEN request[th]
                                                               ELSE NoRequest]

Registry == INSTANCE SwarmRegistry
                WITH Clients <- Threads, asked <- Asked, answer <- Answer

TypeOK ==
    /\ lock \in Threads \cup {Cleaner, Free}
    /\ known \in SUBSET Torrents
    /\ members \in [Torrents -> SUBSET Peers]
    /\ seeds \in [Torrents -> SUBSET Peers]
    /\ age \in [Torrents -> [Peers -> 0..AgeCap]]
    /\ heard \in [Torrents -> [Peers -> 0..AgeCap]]
    /\ pc \in [Threads -> {"idle", "waiting", "locked", "updated", "replied"}]
    /\ request \in [Threads -> Requests \cup {NoRequest}]
    /\ \A th \in Threads :
          pc[th] \in {"waiting", "locked", "updated"} => request[th] \in Requests
    /\ stamp \in [Threads -> 0..MaxDelay]
    /\ reply \in [Threads -> Replies]
    /\ cleaner \in {"sleeping", "stamped", "sweeping", "dead"}
    /\ sweepStamp \in 0..MaxDelay
    /\ sweepTodo \in SUBSET Torrents

Init ==
    /\ lock = Free
    /\ known = {}
    /\ members = [t \in Torrents |-> {}]
    /\ seeds = [t \in Torrents |-> {}]
    /\ age = [t \in Torrents |-> [p \in Peers |-> 0]]
    /\ heard = [t \in Torrents |-> [p \in Peers |-> 0]]
    /\ pc = [th \in Threads |-> "idle"]
    /\ request = [th \in Threads |-> NoRequest]
    /\ stamp = [th \in Threads |-> 0]
    /\ reply = [th \in Threads |-> NoReply]
    /\ cleaner = "sleeping"
    /\ sweepStamp = 0
    /\ sweepTodo = {}

-----------------------------------------------------------------------------
(* The table's two primitive changes.                                      *)

(* Delete the records of S; the columns of absent peers are kept at 0.     *)
Forget(t, S) ==
    /\ members' = [members EXCEPT ![t] = @ \ S]
    /\ seeds' = [seeds EXCEPT ![t] = @ \ S]
    /\ age' = [age EXCEPT ![t] = [p \in Peers |-> IF p \in S THEN 0 ELSE @[p]]]
    /\ heard' = [heard EXCEPT ![t] = [p \in Peers |-> IF p \in S THEN 0 ELSE @[p]]]

(* Delete the key of a swarm left without records.                         *)
CollectIfEmpty(t) ==
    known' = IF members'[t] = {} THEN known \ {t} ELSE known

(* Mutant of Store: an existing record keeps its last_seen.                *)
Store_unrefreshed(t, p, seeding, a) ==
    /\ known' = known \cup {t}
    /\ members' = [members EXCEPT ![t] = @ \cup {p}]
    /\ seeds' = [seeds EXCEPT ![t] = IF seeding THEN @ \cup {p} ELSE @ \ {p}]
    /\ age' = [age EXCEPT ![t][p] = IF p \in members[t] THEN @ ELSE a]
    /\ heard' = [heard EXCEPT ![t][p] =
                    IF p \in members[t] /\ heard[t][p] < a THEN heard[t][p] ELSE a]

(* Overwrite the whole record of p, last_seen included, with no regard to  *)
(* whether the stored last_seen is younger.                                *)
Store(t, p, seeding, a) ==
    /\ known' = known \cup {t}
    /\ members' = [members EXCEPT ![t] = @ \cup {p}]
    /\ seeds' = [seeds EXCEPT ![t] = IF seeding THEN @ \cup {p} ELSE @ \ {p}]
    /\ age' = [age EXCEPT ![t][p] = a]
    /\ heard' = [heard EXCEPT ![t][p] =
                    IF p \in members[t] /\ heard[t][p] < a THEN heard[t][p] ELSE a]

-----------------------------------------------------------------------------
(* An announce, as served by one handler thread.                           *)

(* The query parses and passes announce()'s checks; time.time() is read.   *)
Receive(th) ==
    /\ pc[th] = "idle"
    /\ \E r \in Requests : request' = [request EXCEPT ![th] = r]
    /\ pc' = [pc EXCEPT ![th] = "waiting"]
    /\ stamp' = [stamp EXCEPT ![th] = 0]
    /\ UNCHANGED <<lock, table, reply, sweeper>>

(* It does not: a failure reason is sent and the table is never touched.   *)
RejectMalformed(th) ==
    /\ pc[th] = "idle"
    /\ pc' = [pc EXCEPT ![th] = "replied"]
    /\ reply' = [reply EXCEPT ![th] = Empty("refused")]
    /\ UNCHANGED <<lock, table, request, stamp, sweeper>>

(* Mutant of Acquire: the handler does not wait for the lock.              *)
Acquire_unlocked(th) ==
    /\ pc[th] = "waiting"
    /\ lock' = th
    /\ pc' = [pc EXCEPT ![th] = "locked"]
    /\ UNCHANGED <<table, request, stamp, reply, sweeper>>

Acquire(th) ==
    /\ pc[th] = "waiting"
    /\ lock = Free
    /\ lock' = th
    /\ pc' = [pc EXCEPT ![th] = "locked"]
    /\ UNCHANGED <<table, request, stamp, reply, sweeper>>

(* Leave the `with` block, answering with a reply of the given kind.       *)
ReleaseWith(th, kind) ==
    /\ lock' = Free
    /\ pc' = [pc EXCEPT ![th] = "replied"]
    /\ reply' = [reply EXCEPT ![th] = Empty(kind)]
    /\ stamp' = [stamp EXCEPT ![th] = 0]
    /\ request' = [request EXCEPT ![th] = NoRequest]

(* The change is made before it is logged, so a logger that raises leaves  *)
(* the change in place and the requester with an internal error.           *)
LogUpdate(th) ==
    \/ /\ pc' = [pc EXCEPT ![th] = "updated"]
       /\ stamp' = [stamp EXCEPT ![th] = 0]
       /\ UNCHANGED <<lock, request, reply>>
    \/ /\ LoggerFails
       /\ ReleaseWith(th, "error")

(* event = stopped: the record goes, whether or not there was one.         *)
Stopped(th) ==
    LET r == request[th] IN
    /\ pc[th] = "locked"
    /\ r.event = "stopped"
    /\ Forget(r.torrent, {r.peer})
    /\ CollectIfEmpty(r.torrent)
    /\ LogUpdate(th)
    /\ UNCHANGED sweeper

IsNew(r) == r.peer \notin members[r.torrent]

RefuseUnknown(th) ==
    LET r == request[th] IN
    /\ pc[th] = "locked"
    /\ r.event \in {"completed", "none"}
    /\ IsNew(r)
    /\ ReleaseWith(th, "refused")
    /\ UNCHANGED <<table, sweeper>>

Register(th) ==
    LET r == request[th] IN
    /\ pc[th] = "locked"
    /\ r.event # "stopped"
    /\ IsNew(r) => r.event = "started"
    /\ Store(r.torrent, r.peer, IsSeeding(r), stamp[th])
    /\ LogUpdate(th)
    /\ UNCHANGED sweeper

(* Still under the lock: build the reply, release, send it.                *)
Respond(th) ==
    /\ pc[th] = "updated"
    /\ reply' = [reply EXCEPT ![th] = Response(request[th])]
    /\ pc' = [pc EXCEPT ![th] = "replied"]
    /\ request' = [request EXCEPT ![th] = NoRequest]
    /\ lock' = Free
    /\ UNCHANGED <<table, stamp, sweeper>>

(* The connection is done; its thread ends and another may take its place. *)
Finish(th) ==
    /\ pc[th] = "replied"
    /\ pc' = [pc EXCEPT ![th] = "idle"]
    /\ reply' = [reply EXCEPT ![th] = NoReply]
    /\ UNCHANGED <<lock, table, request, stamp, sweeper>>

-----------------------------------------------------------------------------
(* remove_peer, called on its own between two holders of the lock.  The    *)
(* record goes before the removal is logged, the empty swarm after.        *)
RemovePeer(t, p) ==
    /\ lock = Free
    /\ t \in known
    /\ Forget(t, {p})
    /\ \/ CollectIfEmpty(t)
       \/ LoggerFails /\ p \in members[t] /\ UNCHANGED known
    /\ UNCHANGED <<lock, handler, sweeper>>

-----------------------------------------------------------------------------
(* The cleanup thread: one sweep per cleanup_interval.                     *)

(* wait() times out and remove_expired_peers reads the clock.              *)
Wake ==
    /\ cleaner = "sleeping"
    /\ cleaner' = "stamped"
    /\ sweepStamp' = 0
    /\ UNCHANGED <<lock, table, handler, sweepTodo>>

SweepStart ==
    /\ cleaner = "stamped"
    /\ lock = Free
    /\ lock' = Cleaner
    /\ cleaner' = "sweeping"
    /\ sweepTodo' = known
    /\ UNCHANGED <<table, handler, sweepStamp>>

(* Mutant of Expired: a peer exactly at the timeout is dropped.            *)
Expired_atTimeout(t) == {p \in members[t] : age[t][p] - sweepStamp >= PeerTimeout}

Expired(t) == {p \in members[t] : age[t][p] - sweepStamp > PeerTimeout}

SweepSwarm(t) ==
    /\ cleaner = "sweeping"
    /\ t \in sweepTodo
    /\ Forget(t, Expired(t))
    /\ CollectIfEmpty(t)
    /\ sweepTodo' = sweepTodo \ {t}
    /\ UNCHANGED <<lock, handler, cleaner, sweepStamp>>

(* Mutant of EndSweep: the lock is not released.                           *)
EndSweep_locked(next) ==
    /\ cleaner' = next
    /\ sweepStamp' = 0
    /\ sweepTodo' = {}
    /\ UNCHANGED lock

EndSweep(next) ==
    /\ lock' = Free
    /\ cleaner' = next
    /\ sweepStamp' = 0
    /\ sweepTodo' = {}

(* Mutant of SweepEnd: the thread sweeps once and ends.                    *)
SweepEnd_once ==
    /\ cleaner = "sweeping"
    /\ sweepTodo = {}
    /\ EndSweep("dead")
    /\ UNCHANGED <<table, handler>>

SweepEnd ==
    /\ cleaner = "sweeping"
    /\ sweepTodo = {}
    /\ EndSweep("sleeping")
    /\ UNCHANGED <<table, handler>>

(* PEER_EXPIRED cannot be logged: the peers visited so far are gone, the   *)
(* swarm's key is not collected, the other swarms are not visited.  The    *)
(* loop logs the exception, which may raise in its turn and end the thread. *)
SweepFails(t) ==
    /\ LoggerFails
    /\ cleaner = "sweeping"
    /\ t \in sweepTodo
    /\ \E S \in SUBSET Expired(t) : S # {} /\ Forget(t, S)
    /\ EndSweep("sleeping") \/ EndSweep("dead")
    /\ UNCHANGED <<known, handler>>

-----------------------------------------------------------------------------
(* Time passes for every timestamp alike.  MaxDelay bounds how old a       *)
(* timestamp may grow while its thread waits for the lock or holds it.     *)
Tick ==
    /\ \A th \in Threads : pc[th] \in {"waiting", "locked"} => stamp[th] < MaxDelay
    /\ cleaner \in {"stamped", "sweeping"} => sweepStamp < MaxDelay
    /\ age' = [t \in Torrents |-> [p \in Peers |->
                  IF p \in members[t] THEN Elapse(age[t][p]) ELSE 0]]
    /\ heard' = [t \in Torrents |-> [p \in Peers |->
                  IF p \in members[t] THEN Elapse(heard[t][p]) ELSE 0]]
    /\ stamp' = [th \in Threads |->
                  IF pc[th] \in {"waiting", "locked"} THEN stamp[th] + 1 ELSE 0]
    /\ sweepStamp' = IF cleaner \in {"stamped", "sweeping"} THEN sweepStamp + 1 ELSE 0
    /\ UNCHANGED <<lock, known, members, seeds, pc, request, reply, cleaner, sweepTodo>>

HandlerStep(th) ==
    \/ Acquire(th) \/ Stopped(th) \/ RefuseUnknown(th) \/ Register(th)
    \/ Respond(th) \/ Finish(th)

SweeperStep ==
    \/ Wake \/ SweepStart \/ SweepEnd
    \/ \E t \in Torrents : SweepSwarm(t) \/ SweepFails(t)

Next ==
    \/ \E th \in Threads : Receive(th) \/ RejectMalformed(th) \/ HandlerStep(th)
    \/ SweeperStep
    \/ \E t \in Torrents, p \in Peers : RemovePeer(t, p)
    \/ Tick

Spec == Init /\ [][Next]_vars

(* Python's lock is not a queue, so a thread that waits for it is owed it  *)
(* only if the lock is free again and again; every other step of a thread  *)
(* is one the interpreter will run.  Nothing obliges a client to announce, *)
(* remove_peer to be called, or a swarm to be empty.                       *)
Fairness ==
    /\ \A th \in Threads : /\ SF_vars(Acquire(th))
                           /\ WF_vars(HandlerStep(th))
    /\ WF_vars(Wake) /\ SF_vars(SweepStart) /\ WF_vars(SweeperStep)

FairSpec == Spec /\ Fairness

-----------------------------------------------------------------------------
(* The lock is held by exactly the thread whose control point is inside    *)
(* its `with self._lock` block, across the early exits by exception.       *)
LockedInside ==
    /\ \A th \in Threads : lock = th <=> pc[th] \in {"locked", "updated"}
    /\ lock = Cleaner <=> cleaner = "sweeping"

(* The keys of _swarms and its records agree: a peer with a record is in a *)
(* swarm that exists, a seed is a member (so `incomplete` is never         *)
(* negative), and no swarm outlives its last record - unless logging       *)
(* raised between the deletion of a record and that of its swarm.          *)
TableConsistent ==
    \A t \in Torrents :
        /\ seeds[t] \subseteq members[t]
        /\ members[t] # {} => t \in known
        /\ t \in known /\ members[t] = {} => LoggerFails

(* A timestamp is applied late by at most the bound, whatever the order in *)
(* which overlapping announces of one peer get the lock: the recorded      *)
(* last_seen is never more than MaxDelay older than the youngest timestamp *)
(* stored for the peer.                                                    *)
LastSeenNearlyRight ==
    \A t \in Torrents : \A p \in members[t] :
        /\ heard[t][p] <= age[t][p]
        /\ age[t][p] <= heard[t][p] + MaxDelay

(* th holds an announce of p that has arrived and is not stored yet.       *)
HasInHand(th, t, p) ==
    /\ pc[th] \in {"waiting", "locked"}
    /\ request[th].torrent = t
    /\ request[th].peer = p

(* What the timeout guarantees to a peer: the cleanup thread, whose own    *)
(* clock reading is stale as well, evicts it only when the youngest        *)
(* timestamp stored for it is older than PeerTimeout - MaxDelay ticks; and *)
(* an announce of it that the sweep overtakes, waiting for the lock,       *)
(* arrived more than PeerTimeout - MaxDelay ticks after the announce on    *)
(* record.  So a peer that awaits each answer, and lets less time pass     *)
(* between two announces, stays in the swarm, however late the handlers    *)
(* get the lock.                                                           *)
EvictionGrace ==
    [][\A t \in Torrents : \A p \in members[t] \ members'[t] : lock = Cleaner =>
          /\ heard[t][p] > PeerTimeout - MaxDelay
          /\ \A th \in Threads : HasInHand(th, t, p) =>
                age[t][p] - stamp[th] > PeerTimeout - MaxDelay]_vars

(* The locking makes every announce, removal and sweep of a swarm look     *)
(* like one instant, replies included.                                     *)
ImplementsRegistry == Registry!Spec

(* A peer that falls silent is forgotten, unless it announces again.       *)
SilentPeersGo ==
    \A t \in Torrents, p \in Peers :
        (p \in members[t] /\ heard[t][p] = AgeCap)
            ~> (p \notin members[t] \/ heard[t][p] < AgeCap)

(* Every announce that arrives is answered.                                *)
EveryAnnounceAnswered ==
    \A th \in Threads : pc[th] = "waiting" ~> pc[th] = "replied"
=============================================================================
