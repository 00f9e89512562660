---------------------------- MODULE TrackerProofs ----------------------------
(***************************************************************************)
(* Proofs about TrackerState, for any sets of torrents, handler threads    *)
(* and (finitely many) peers, any timeout and any bound on the delays,     *)
(* with and without logging faults; and about TrackerWire and Bencode, for *)
(* any requests and responses that client and tracker may send, and any    *)
(* symbols that damage may put into a reply.                               *)
(***************************************************************************)
EXTENDS TrackerState, TrackerWire, DataLemmas, FiniteSetTheorems, TLAPS

(* The counts of a reply are natural numbers when the seeds are members.   *)
LEMMA SnapshotIsReply ==
    ASSUME NEW S \in SUBSET Peers, NEW C \in SUBSET S, NEW p
    PROVE  Snapshot(S, C, p) \in Replies
<1>1. IsFiniteSet(S) /\ IsFiniteSet(C)
  BY FS_Subset, FinitelyManyPeers
<1>2. Cardinality(S) \in Nat /\ Cardinality(C) \in Nat /\ Cardinality(C) <= Cardinality(S)
  BY <1>1, FS_CardinalityType, FS_Subset
<1>3. Cardinality(S) - Cardinality(C) \in Nat
  BY <1>2
<1> QED
  BY <1>2, <1>3 DEF Snapshot, Replies

(* A reply without a peer list is a reply.                                 *)
LEMMA EmptyIsReply == \A k \in {"none", "ok", "refused", "error"} : Empty(k) \in Replies
BY DEF Empty, Replies

(* The inductive invariant of type correctness: a reply's counts are       *)
(* numbers only because every seed has a record.                           *)
SeedsAreMembers == \A t \in Torrents : seeds[t] \subseteq members[t]

(* The type invariant that is inductive.                                   *)
TypeInv == TypeOK /\ SeedsAreMembers

(* The variables have their types at the start.                            *)
LEMMA TypeInit == Init => TypeInv
BY EmptyIsReply, TimesAreNatural
DEF Init, TypeInv, TypeOK, SeedsAreMembers, AgeCap, NoReply

(* The types of the table's columns after each of its primitive changes.   *)
TableType ==
    /\ known \in SUBSET Torrents
    /\ members \in [Torrents -> SUBSET Peers]
    /\ seeds \in [Torrents -> SUBSET Peers]
    /\ age \in [Torrents -> [Peers -> 0..AgeCap]]
    /\ heard \in [Torrents -> [Peers -> 0..AgeCap]]
    /\ SeedsAreMembers

(* Forgetting peers of a torrent keeps the columns' types.                 *)
LEMMA ForgetType ==
    ASSUME TableType, NEW t \in Torrents, NEW S, Forget(t, S)
    PROVE  /\ members' \in [Torrents -> SUBSET Peers]
           /\ seeds' \in [Torrents -> SUBSET Peers]
           /\ age' \in [Torrents -> [Peers -> 0..AgeCap]]
           /\ heard' \in [Torrents -> [Peers -> 0..AgeCap]]
           /\ SeedsAreMembers'
<1>1. 0 \in 0..AgeCap
  BY TimesAreNatural DEF AgeCap
<1>2. members' \in [Torrents -> SUBSET Peers] /\ seeds' \in [Torrents -> SUBSET Peers]
  BY DEF Forget, TableType
<1>3. age' \in [Torrents -> [Peers -> 0..AgeCap]] /\ heard' \in [Torrents -> [Peers -> 0..AgeCap]]
  BY <1>1 DEF Forget, TableType
<1>4. SeedsAreMembers'
  BY DEF Forget, TableType, SeedsAreMembers
<1> QED
  BY <1>2, <1>3, <1>4

(* So does storing one peer's record.                                      *)
LEMMA StoreType ==
    ASSUME TableType, NEW t \in Torrents, NEW p \in Peers, NEW b, NEW a \in 0..MaxDelay,
           Store(t, p, b, a)
    PROVE  TableType'
<1>1. a \in 0..AgeCap
  BY TimesAreNatural DEF AgeCap
<1>2. members' \in [Torrents -> SUBSET Peers] /\ seeds' \in [Torrents -> SUBSET Peers]
  BY DEF Store, TableType
<1>3. age' \in [Torrents -> [Peers -> 0..AgeCap]] /\ heard' \in [Torrents -> [Peers -> 0..AgeCap]]
  BY <1>1 DEF Store, TableType
<1>4. SeedsAreMembers'
  BY DEF Store, TableType, SeedsAreMembers
<1>5. known' \in SUBSET Torrents
  BY DEF Store, TableType
<1> QED
  BY <1>2, <1>3, <1>4, <1>5 DEF TableType

-----------------------------------------------------------------------------
(* The types of the handler threads' variables.                            *)
HandlerType ==
    /\ pc \in [Threads -> {"idle", "waiting", "locked", "updated", "replied"}]
    /\ request \in [Threads -> Requests \cup {NoRequest}]
    /\ \A th \in Threads :
          pc[th] \in {"waiting", "locked", "updated"} => request[th] \in Requests
    /\ stamp \in [Threads -> 0..MaxDelay]
    /\ reply \in [Threads -> Replies]

(* The types of the cleanup thread's variables.                            *)
SweeperType ==
    /\ cleaner \in {"sleeping", "stamped", "sweeping", "dead"}
    /\ sweepStamp \in 0..MaxDelay
    /\ sweepTodo \in SUBSET Torrents

(* The lock is free or held by one thread.                                 *)
LockType == lock \in Threads \cup {Cleaner, Free}

(* The type invariant by the variables an action touches.                  *)
LEMMA TypeInvParts == TypeInv <=> LockType /\ TableType /\ HandlerType /\ SweeperType
BY DEF TypeInv, TypeOK, LockType, TableType, HandlerType, SweeperType

(* The same of the next state.                                             *)
LEMMA TypeInvPartsPrimed ==
    TypeInv' <=> LockType' /\ TableType' /\ HandlerType' /\ SweeperType'
BY DEF TypeInv, TypeOK, LockType, TableType, HandlerType, SweeperType

(* An announce's fields.                                                   *)
LEMMA RequestFields ==
    ASSUME NEW r \in Requests
    PROVE  r.torrent \in Torrents /\ r.peer \in Peers /\ r.event \in Events
BY DEF Requests

(* Every action keeps the types.                                           *)
LEMMA TypeStep == TypeInv /\ [Next]_vars => TypeInv'
<1> SUFFICES ASSUME LockType, TableType, HandlerType, SweeperType, [Next]_vars
             PROVE  LockType' /\ TableType' /\ HandlerType' /\ SweeperType'
  BY TypeInvParts, TypeInvPartsPrimed
<1> USE TimesAreNatural
<1>1. ASSUME NEW th \in Threads, Receive(th)
      PROVE  LockType' /\ TableType' /\ HandlerType' /\ SweeperType'
  BY <1>1 DEF Receive, table, sweeper, LockType, TableType, SeedsAreMembers, HandlerType, SweeperType
<1>2. ASSUME NEW th \in Threads, RejectMalformed(th)
      PROVE  LockType' /\ TableType' /\ HandlerType' /\ SweeperType'
  BY <1>2, EmptyIsReply
  DEF RejectMalformed, table, sweeper, LockType, TableType, SeedsAreMembers, HandlerType, SweeperType
<1>3. ASSUME NEW th \in Threads, Acquire(th)
      PROVE  LockType' /\ TableType' /\ HandlerType' /\ SweeperType'
  BY <1>3 DEF Acquire, table, sweeper, LockType, TableType, SeedsAreMembers, HandlerType, SweeperType
<1>4. ASSUME NEW th \in Threads, pc[th] = "locked", LogUpdate(th)
      PROVE  LockType' /\ HandlerType'
  BY <1>4, EmptyIsReply DEF LogUpdate, ReleaseWith, LockType, HandlerType
<1>5. ASSUME NEW th \in Threads, Stopped(th)
      PROVE  LockType' /\ TableType' /\ HandlerType' /\ SweeperType'
  <2>1. pc[th] = "locked" /\ LogUpdate(th) /\ request[th] \in Requests
    BY <1>5 DEF Stopped, HandlerType
  <2>2. Forget(request[th].torrent, {request[th].peer}) /\ CollectIfEmpty(request[th].torrent)
    BY <1>5 DEF Stopped
  <2>3. TableType'
    BY <2>1, <2>2, ForgetType, RequestFields DEF TableType, CollectIfEmpty
  <2> QED
    BY <1>4, <1>5, <2>1, <2>3 DEF Stopped, sweeper, SweeperType
<1>6. ASSUME NEW th \in Threads, RefuseUnknown(th)
      PROVE  LockType' /\ TableType' /\ HandlerType' /\ SweeperType'
  BY <1>6, EmptyIsReply
  DEF RefuseUnknown, ReleaseWith, table, sweeper,
      LockType, TableType, SeedsAreMembers, HandlerType, SweeperType
<1>7. ASSUME NEW th \in Threads, Register(th)
      PROVE  LockType' /\ TableType' /\ HandlerType' /\ SweeperType'
  <2>1. pc[th] = "locked" /\ LogUpdate(th) /\ request[th] \in Requests /\ stamp[th] \in 0..MaxDelay
    BY <1>7 DEF Register, HandlerType
  <2>2. Store(request[th].torrent, request[th].peer, IsSeeding(request[th]), stamp[th])
    BY <1>7 DEF Register
  <2>3. TableType'
    BY <2>1, <2>2, StoreType, RequestFields
  <2> QED
    BY <1>4, <1>7, <2>1, <2>3 DEF Register, sweeper, SweeperType
<1>8. ASSUME NEW th \in Threads, Respond(th)
      PROVE  LockType' /\ TableType' /\ HandlerType' /\ SweeperType'
  <2>1. request[th] \in Requests
    BY <1>8 DEF Respond, HandlerType
  <2>2. Response(request[th]) \in Replies
    BY <2>1, RequestFields, SnapshotIsReply DEF Response, TableType, SeedsAreMembers
  <2> QED
    BY <1>8, <2>2
    DEF Respond, table, sweeper, LockType, TableType, SeedsAreMembers, HandlerType, SweeperType
<1>9. ASSUME NEW th \in Threads, Finish(th)
      PROVE  LockType' /\ TableType' /\ HandlerType' /\ SweeperType'
  BY <1>9, EmptyIsReply
  DEF Finish, NoReply, table, sweeper, LockType, TableType, SeedsAreMembers, HandlerType, SweeperType
<1>10. ASSUME NEW t \in Torrents, NEW p \in Peers, RemovePeer(t, p)
       PROVE  LockType' /\ TableType' /\ HandlerType' /\ SweeperType'
  <2>1. Forget(t, {p}) /\ (CollectIfEmpty(t) \/ UNCHANGED known)
    BY <1>10 DEF RemovePeer
  <2>2. TableType'
    BY <2>1, ForgetType DEF TableType, CollectIfEmpty
  <2> QED
    BY <1>10, <2>2 DEF RemovePeer, handler, sweeper, LockType, HandlerType, SweeperType
<1>11. ASSUME Wake
       PROVE  LockType' /\ TableType' /\ HandlerType' /\ SweeperType'
  BY <1>11 DEF Wake, table, handler, LockType, TableType, SeedsAreMembers, HandlerType, SweeperType
<1>12. ASSUME SweepStart
       PROVE  LockType' /\ TableType' /\ HandlerType' /\ SweeperType'
  BY <1>12 DEF SweepStart, table, handler, LockType, TableType, SeedsAreMembers, HandlerType, SweeperType
<1>13. ASSUME SweepEnd
       PROVE  LockType' /\ TableType' /\ HandlerType' /\ SweeperType'
  BY <1>13
  DEF SweepEnd, EndSweep, table, handler, LockType, TableType, SeedsAreMembers, HandlerType, SweeperType
<1>14. ASSUME NEW t \in Torrents, SweepSwarm(t)
       PROVE  LockType' /\ TableType' /\ HandlerType' /\ SweeperType'
  <2>1. Forget(t, Expired(t)) /\ CollectIfEmpty(t)
    BY <1>14 DEF SweepSwarm
  <2>2. TableType'
    BY <2>1, ForgetType DEF TableType, CollectIfEmpty
  <2> QED
    BY <1>14, <2>2 DEF SweepSwarm, handler, LockType, HandlerType, SweeperType
<1>15. ASSUME NEW t \in Torrents, SweepFails(t)
       PROVE  LockType' /\ TableType' /\ HandlerType' /\ SweeperType'
  <2>1. PICK S \in SUBSET Expired(t) : Forget(t, S)
    BY <1>15 DEF SweepFails
  <2>2. TableType'
    BY <1>15, <2>1, ForgetType DEF TableType, SweepFails
  <2> QED
    BY <1>15, <2>2 DEF SweepFails, EndSweep, handler, LockType, HandlerType, SweeperType
<1>16. ASSUME Tick
       PROVE  LockType' /\ TableType' /\ HandlerType' /\ SweeperType'
  <2>1. \A a \in 0..AgeCap : Elapse(a) \in 0..AgeCap
    BY DEF Elapse, AgeCap
  <2>2. 0 \in 0..AgeCap
    BY DEF AgeCap
  <2>3. TableType'
    BY <1>16, <2>1, <2>2 DEF Tick, TableType, SeedsAreMembers
  <2>4. HandlerType'
    BY <1>16 DEF Tick, HandlerType
  <2> QED
    BY <1>16, <2>3, <2>4 DEF Tick, LockType, SweeperType
<1>17. CASE UNCHANGED vars
  BY <1>17
  DEF vars, table, handler, sweeper, LockType, TableType, SeedsAreMembers, HandlerType, SweeperType
<1> QED
  BY <1>1, <1>2, <1>3, <1>5, <1>6, <1>7, <1>8, <1>9, <1>10, <1>11, <1>12, <1>13, <1>14,
     <1>15, <1>16, <1>17 DEF Next, HandlerStep, SweeperStep

(* Every variable keeps its type, a reply's counts are never negative.     *)
THEOREM TypeCorrect == Spec => []TypeOK
<1>1. Spec => []TypeInv
  BY TypeInit, TypeStep, PTL DEF Spec
<1>2. TypeInv => TypeOK
  BY DEF TypeInv
<1> QED
  BY <1>1, <1>2, PTL
-----------------------------------------------------------------------------
(* The lock is held exactly inside the `with` blocks: by induction over    *)
(* the steps that take or release it, exits by exception included.         *)
LEMMA LockStep == TypeInv /\ LockedInside /\ [Next]_vars => LockedInside'
<1> SUFFICES ASSUME LockType, HandlerType, LockedInside, [Next]_vars
             PROVE  LockedInside'
  BY TypeInvParts
<1> USE DistinctHolders
<1>1. ASSUME NEW th \in Threads, Receive(th) \/ RejectMalformed(th) \/ Finish(th)
      PROVE  LockedInside'
  BY <1>1 DEF Receive, RejectMalformed, Finish, sweeper, LockedInside, HandlerType
<1>2. ASSUME NEW th \in Threads, Acquire(th)
      PROVE  LockedInside'
  BY <1>2 DEF Acquire, sweeper, LockedInside, HandlerType
<1>3. ASSUME NEW th \in Threads, Stopped(th) \/ Register(th)
      PROVE  LockedInside'
  <2>1. pc[th] = "locked" /\ LogUpdate(th) /\ UNCHANGED sweeper
    BY <1>3 DEF Stopped, Register
  <2> QED
    BY <2>1 DEF LogUpdate, ReleaseWith, sweeper, LockedInside, HandlerType
<1>4. ASSUME NEW th \in Threads, RefuseUnknown(th) \/ Respond(th)
      PROVE  LockedInside'
  BY <1>4 DEF RefuseUnknown, Respond, ReleaseWith, sweeper, LockedInside, HandlerType
<1>5. ASSUME NEW t \in Torrents, NEW p \in Peers, RemovePeer(t, p)
      PROVE  LockedInside'
  BY <1>5 DEF RemovePeer, handler, sweeper, LockedInside
<1>6. ASSUME Wake \/ SweepStart \/ SweepEnd \/ \E t \in Torrents : SweepSwarm(t) \/ SweepFails(t)
      PROVE  LockedInside'
  BY <1>6 DEF Wake, SweepStart, SweepEnd, SweepSwarm, SweepFails, EndSweep, handler, LockedInside
<1>7. ASSUME Tick
      PROVE  LockedInside'
  BY <1>7 DEF Tick, LockedInside
<1>8. CASE UNCHANGED vars
  BY <1>8 DEF vars, handler, sweeper, LockedInside
<1> QED
  BY <1>1, <1>2, <1>3, <1>4, <1>5, <1>6, <1>7, <1>8 DEF Next, HandlerStep, SweeperStep

(* The lock is held by exactly the thread inside its `with` block.         *)
THEOREM LockIsHeldInside == Spec => []LockedInside
<1>1. Init => LockedInside
  BY DistinctHolders DEF Init, LockedInside
<1>2. Spec => []TypeInv
  BY TypeInit, TypeStep, PTL DEF Spec
<1> QED
  BY <1>1, <1>2, LockStep, PTL DEF Spec

-----------------------------------------------------------------------------
(* Every action keeps swarms, members and seeds in agreement.              *)
LEMMA TableStep == TypeInv /\ TableConsistent /\ [Next]_vars => TableConsistent'
<1> SUFFICES ASSUME TableType, HandlerType, TableConsistent, [Next]_vars
             PROVE  TableConsistent'
  BY TypeInvParts
<1>1. ASSUME NEW t \in Torrents, NEW S, Forget(t, S),
             CollectIfEmpty(t) \/ (LoggerFails /\ UNCHANGED known)
      PROVE  TableConsistent'
  BY <1>1 DEF Forget, CollectIfEmpty, TableType, TableConsistent
<1>2. ASSUME NEW t \in Torrents, NEW p, NEW b, NEW a, Store(t, p, b, a)
      PROVE  TableConsistent'
  BY <1>2 DEF Store, TableType, TableConsistent
<1>3. ASSUME UNCHANGED <<known, members, seeds>>
      PROVE  TableConsistent'
  BY <1>3 DEF TableConsistent
<1>4. ASSUME NEW th \in Threads, Stopped(th) \/ Register(th)
      PROVE  TableConsistent'
  <2>1. request[th].torrent \in Torrents
    BY <1>4, RequestFields DEF Stopped, Register, HandlerType
  <2> QED
    BY <1>1, <1>2, <1>4, <2>1 DEF Stopped, Register
<1>5. ASSUME NEW t \in Torrents, NEW p \in Peers, RemovePeer(t, p)
      PROVE  TableConsistent'
  BY <1>1, <1>5 DEF RemovePeer
<1>6. ASSUME NEW t \in Torrents, SweepSwarm(t) \/ SweepFails(t)
      PROVE  TableConsistent'
  BY <1>1, <1>6 DEF SweepSwarm, SweepFails
<1>7. ASSUME NEW th \in Threads,
             \/ Receive(th) \/ RejectMalformed(th) \/ Acquire(th) \/ RefuseUnknown(th)
             \/ Respond(th) \/ Finish(th)
      PROVE  TableConsistent'
  BY <1>3, <1>7
  DEF Receive, RejectMalformed, Acquire, RefuseUnknown, Respond, Finish, table
<1>8. CASE Wake \/ SweepStart \/ SweepEnd \/ Tick \/ UNCHANGED vars
  BY <1>3, <1>8 DEF Wake, SweepStart, SweepEnd, Tick, vars, table
<1> QED
  BY <1>4, <1>5, <1>6, <1>7, <1>8 DEF Next, HandlerStep, SweeperStep

(* Keys and records of the table agree; only a logging fault can leave an  *)
(* empty swarm behind.                                                     *)
THEOREM TableAgrees == Spec => []TableConsistent
<1>1. Init => TableConsistent
  BY DEF Init, TableConsistent
<1>2. Spec => []TypeInv
  BY TypeInit, TypeStep, PTL DEF Spec
<1> QED
  BY <1>1, <1>2, TableStep, PTL DEF Spec

-----------------------------------------------------------------------------
(* last_seen lags behind the youngest announce by at most MaxDelay.        *)
LEMMA LagStep == TypeInv /\ LastSeenNearlyRight /\ [Next]_vars => LastSeenNearlyRight'
<1> SUFFICES ASSUME TableType, HandlerType, LastSeenNearlyRight, [Next]_vars
             PROVE  LastSeenNearlyRight'
  BY TypeInvParts
<1> USE TimesAreNatural
<1>1. ASSUME NEW t \in Torrents, NEW S, Forget(t, S)
      PROVE  LastSeenNearlyRight'
  <2> SUFFICES ASSUME NEW u \in Torrents, NEW p \in members'[u]
               PROVE  heard'[u][p] <= age'[u][p] /\ age'[u][p] <= heard'[u][p] + MaxDelay
    BY DEF LastSeenNearlyRight
  <2>1. p \in members[u] /\ p \in Peers
    BY <1>1 DEF Forget, TableType
  <2>2. age'[u][p] = age[u][p] /\ heard'[u][p] = heard[u][p]
    BY <1>1, <2>1 DEF Forget, TableType
  <2> QED
    BY <2>1, <2>2 DEF LastSeenNearlyRight
<1>2. ASSUME NEW t \in Torrents, NEW q \in Peers, NEW b, NEW a \in 0..MaxDelay, Store(t, q, b, a)
      PROVE  LastSeenNearlyRight'
  <2> SUFFICES ASSUME NEW u \in Torrents, NEW p \in members'[u]
               PROVE  heard'[u][p] <= age'[u][p] /\ age'[u][p] <= heard'[u][p] + MaxDelay
    BY DEF LastSeenNearlyRight
  <2>1. CASE u = t /\ p = q
    <3>1. age'[u][p] = a /\ heard'[u][p] = IF q \in members[t] /\ heard[t][q] < a THEN heard[t][q] ELSE a
      BY <1>2, <2>1 DEF Store, TableType
    <3>2. heard[t][q] \in 0..AgeCap
      BY DEF TableType
    <3> QED
      BY <3>1, <3>2
  <2>2. CASE ~(u = t /\ p = q)
    <3>1. p \in members[u] /\ p \in Peers
      BY <1>2, <2>2 DEF Store, TableType
    <3>2. age'[u][p] = age[u][p] /\ heard'[u][p] = heard[u][p]
      BY <1>2, <2>2, <3>1 DEF Store, TableType
    <3> QED
      BY <3>1, <3>2 DEF LastSeenNearlyRight
  <2> QED
    BY <2>1, <2>2
<1>3. ASSUME Tick
      PROVE  LastSeenNearlyRight'
  <2> SUFFICES ASSUME NEW u \in Torrents, NEW p \in members'[u]
               PROVE  heard'[u][p] <= age'[u][p] /\ age'[u][p] <= heard'[u][p] + MaxDelay
    BY DEF LastSeenNearlyRight
  <2>1. p \in members[u] /\ p \in Peers
    BY <1>3 DEF Tick, TableType
  <2>2. age'[u][p] = Elapse(age[u][p]) /\ heard'[u][p] = Elapse(heard[u][p])
    BY <1>3, <2>1 DEF Tick
  <2>3. age[u][p] \in 0..AgeCap /\ heard[u][p] \in 0..AgeCap
    BY <2>1 DEF TableType
  <2>4. heard[u][p] <= age[u][p] /\ age[u][p] <= heard[u][p] + MaxDelay
    BY <2>1 DEF LastSeenNearlyRight
  <2> QED
    BY <2>2, <2>3, <2>4 DEF Elapse, AgeCap
<1>4. ASSUME UNCHANGED table
      PROVE  LastSeenNearlyRight'
  BY <1>4 DEF table, LastSeenNearlyRight
<1>5. ASSUME NEW th \in Threads, Stopped(th) \/ Register(th)
      PROVE  LastSeenNearlyRight'
  <2>1. request[th].torrent \in Torrents /\ request[th].peer \in Peers
    BY <1>5, RequestFields DEF Stopped, Register, HandlerType
  <2>2. stamp[th] \in 0..MaxDelay
    BY DEF HandlerType
  <2> QED
    BY <1>1, <1>2, <1>5, <2>1, <2>2 DEF Stopped, Register
<1>6. ASSUME NEW t \in Torrents, NEW p \in Peers, RemovePeer(t, p)
      PROVE  LastSeenNearlyRight'
  BY <1>1, <1>6 DEF RemovePeer
<1>7. ASSUME NEW t \in Torrents, SweepSwarm(t) \/ SweepFails(t)
      PROVE  LastSeenNearlyRight'
  BY <1>1, <1>7 DEF SweepSwarm, SweepFails
<1>8. ASSUME NEW th \in Threads,
             \/ Receive(th) \/ RejectMalformed(th) \/ Acquire(th) \/ RefuseUnknown(th)
             \/ Respond(th) \/ Finish(th)
      PROVE  LastSeenNearlyRight'
  BY <1>4, <1>8 DEF Receive, RejectMalformed, Acquire, RefuseUnknown, Respond, Finish
<1>9. CASE Wake \/ SweepStart \/ SweepEnd \/ UNCHANGED vars
  BY <1>4, <1>9 DEF Wake, SweepStart, SweepEnd, vars
<1> QED
  BY <1>3, <1>5, <1>6, <1>7, <1>8, <1>9 DEF Next, HandlerStep, SweeperStep

(* The inductive invariant behind LastSeenNearlyRight: a time read before  *)
(* the lock is stored by the one thread that holds it.                     *)
LagInv == TypeInv /\ LockedInside /\ LastSeenNearlyRight

(* It holds in every state.                                                *)
LEMMA LagInvAlways == Spec => []LagInv
<1>1. Init => LagInv
  BY TypeInit, DistinctHolders DEF Init, LagInv, LockedInside, LastSeenNearlyRight
<1>2. LagInv /\ [Next]_vars => LagInv'
  BY TypeStep, LockStep, LagStep DEF LagInv
<1> QED
  BY <1>1, <1>2, PTL DEF Spec

(* However handlers and the cleanup thread interleave, the recorded time   *)
(* of a peer is at most MaxDelay older than the youngest one stored.       *)
THEOREM LastSeenLag == Spec => []LastSeenNearlyRight
BY LagInvAlways, PTL DEF LagInv

(* The cleanup thread evicts nobody whose youngest stored timestamp is at  *)
(* most PeerTimeout - MaxDelay ticks old, and no announce of the evicted   *)
(* that waits for the lock came that soon after the one on record.         *)
THEOREM GraceHolds == Spec => EvictionGrace
<1>1. ASSUME LagInv, [Next]_vars, NEW t \in Torrents, NEW p \in members[t] \ members'[t],
             lock = Cleaner
      PROVE  /\ heard[t][p] > PeerTimeout - MaxDelay
             /\ \A th \in Threads : HasInHand(th, t, p) =>
                   age[t][p] - stamp[th] > PeerTimeout - MaxDelay
  <2> USE DEF LagInv
  <2>1. TableType /\ HandlerType /\ SweeperType
    BY <1>1, TypeInvParts
  <2>2. age[t][p] \in 0..AgeCap /\ heard[t][p] \in 0..AgeCap /\ sweepStamp \in 0..MaxDelay
    BY <2>1 DEF TableType, SweeperType
  <2>3. age[t][p] <= heard[t][p] + MaxDelay
    BY <1>1 DEF LastSeenNearlyRight
  <2>4. p \in Expired(t) => /\ heard[t][p] > PeerTimeout - MaxDelay
                            /\ \A th \in Threads : HasInHand(th, t, p) =>
                                  age[t][p] - stamp[th] > PeerTimeout - MaxDelay
    <3>1. \A th \in Threads : stamp[th] \in 0..MaxDelay
      BY <2>1 DEF HandlerType
    <3> QED
      BY <2>2, <2>3, <3>1, TimesAreNatural DEF Expired, AgeCap
  <2>5. ASSUME NEW u \in Torrents, NEW S, S \subseteq Expired(u), Forget(u, S)
        PROVE  p \in Expired(t)
    BY <1>1, <2>1, <2>5 DEF Forget, TableType
  <2>6. ASSUME NEW th \in Threads
        PROVE  pc[th] \notin {"locked", "updated"}
    BY <1>1, DistinctHolders DEF LockedInside
  <2>7. CASE \E u \in Torrents : SweepSwarm(u) \/ SweepFails(u)
    BY <2>4, <2>5, <2>7 DEF SweepSwarm, SweepFails
  <2>8. ASSUME NEW th \in Threads, HandlerStep(th) \/ Receive(th) \/ RejectMalformed(th)
        PROVE  UNCHANGED members
    BY <2>6, <2>8
    DEF HandlerStep, Receive, RejectMalformed, Acquire, Stopped, RefuseUnknown, Register,
        Respond, Finish, table
  <2>9. CASE Wake \/ SweepStart \/ SweepEnd \/ Tick \/ UNCHANGED vars
    BY <1>1, <2>9 DEF Wake, SweepStart, SweepEnd, Tick, vars, table
  <2>10. CASE \E u \in Torrents, q \in Peers : RemovePeer(u, q)
    BY <1>1, <2>10, DistinctHolders DEF RemovePeer
  <2> QED
    BY <1>1, <2>7, <2>8, <2>9, <2>10 DEF Next, SweeperStep
<1>2. LagInv /\ [Next]_vars =>
        [\A t \in Torrents : \A p \in members[t] \ members'[t] : lock = Cleaner =>
            /\ heard[t][p] > PeerTimeout - MaxDelay
            /\ \A th \in Threads : HasInHand(th, t, p) =>
                  age[t][p] - stamp[th] > PeerTimeout - MaxDelay]_vars
  BY <1>1
<1> QED
  BY <1>2, LagInvAlways, PTL DEF Spec, EvictionGrace
-----------------------------------------------------------------------------
(* Refinement.  A handler has a reply exactly when it has sent one; with   *)
(* the lock invariant this is what the mapping needs: while one thread     *)
(* changes a swarm, no other is between its change and its reply.          *)
ReplyInv ==
    \A th \in Threads :
        /\ pc[th] \in {"idle", "waiting", "locked", "updated"} => reply[th] = NoReply
        /\ pc[th] = "replied" => reply[th] # NoReply

(* A reply with or without peers differs from no reply.                    *)
LEMMA KindsDiffer ==
    /\ \A k \in {"ok", "refused", "error"} : Empty(k) # NoReply
    /\ \A S, C, p : Snapshot(S, C, p) # NoReply
<1>1. NoReply.kind = "none"
  BY DEF NoReply, Empty
<1>2. \A k : Empty(k).kind = k
  BY DEF Empty
<1>3. \A S, C, p : Snapshot(S, C, p).kind = "ok"
  BY DEF Snapshot
<1> QED
  BY <1>1, <1>2, <1>3

(* Every action keeps the replies in step with the requests.               *)
LEMMA ReplyStep == TypeInv /\ ReplyInv /\ [Next]_vars => ReplyInv'
<1> SUFFICES ASSUME HandlerType, ReplyInv, [Next]_vars
             PROVE  ReplyInv'
  BY TypeInvParts
<1>1. ASSUME NEW th \in Threads, Receive(th) \/ RejectMalformed(th) \/ Acquire(th) \/ Finish(th)
      PROVE  ReplyInv'
  BY <1>1, KindsDiffer DEF Receive, RejectMalformed, Acquire, Finish, HandlerType, ReplyInv
<1>2. ASSUME NEW th \in Threads, Stopped(th) \/ Register(th)
      PROVE  ReplyInv'
  <2>1. pc[th] = "locked" /\ LogUpdate(th)
    BY <1>2 DEF Stopped, Register
  <2> QED
    BY <2>1, KindsDiffer DEF LogUpdate, ReleaseWith, HandlerType, ReplyInv
<1>3. ASSUME NEW th \in Threads, RefuseUnknown(th) \/ Respond(th)
      PROVE  ReplyInv'
  BY <1>3, KindsDiffer DEF RefuseUnknown, Respond, Response, ReleaseWith, HandlerType, ReplyInv
<1>4. ASSUME UNCHANGED <<pc, reply>>
      PROVE  ReplyInv'
  BY <1>4 DEF ReplyInv
<1>5. ASSUME NEW t \in Torrents, NEW p \in Peers, RemovePeer(t, p)
      PROVE  ReplyInv'
  BY <1>4, <1>5 DEF RemovePeer, handler
<1>6. CASE SweeperStep \/ Tick \/ UNCHANGED vars
  BY <1>4, <1>6
  DEF SweeperStep, Wake, SweepStart, SweepEnd, SweepSwarm, SweepFails, Tick, vars, handler
<1> QED
  BY <1>1, <1>2, <1>3, <1>5, <1>6 DEF Next, HandlerStep

(* The registry's copies of the shared operators.                          *)
LEMMA SharedOperators ==
    /\ Registry!Requests = Requests
    /\ Registry!NoReply = NoReply
    /\ \A k : Registry!Empty(k) = Empty(k)
    /\ \A S, C, p : Registry!Snapshot(S, C, p) = Snapshot(S, C, p)
    /\ \A r : Registry!IsSeeding(r) <=> IsSeeding(r)
<1>1. ASSUME NEW S
      PROVE  Registry!Cardinality(S) = Cardinality(S)
  BY DEF Registry!Cardinality, Cardinality
<1>2. \A k : Registry!Empty(k) = Empty(k)
  BY DEF Registry!Empty, Empty
<1>3. \A S, C, p : Registry!Snapshot(S, C, p) = Snapshot(S, C, p)
  BY <1>1 DEF Registry!Snapshot, Snapshot
<1> QED
  BY <1>2, <1>3 DEF Registry!Requests, Requests, Registry!Events, Events, Registry!NoReply, NoReply,
       Registry!IsSeeding, IsSeeding

(* The invariant the refinement rests on.                                  *)
RefInv == TypeInv /\ LockedInside /\ ReplyInv

(* It holds in every state.                                                *)
LEMMA RefInvAlways == Spec => []RefInv
<1>1. Init => RefInv
  BY TypeInit, DistinctHolders DEF Init, RefInv, LockedInside, ReplyInv
<1>2. RefInv /\ [Next]_vars => RefInv'
  BY TypeStep, LockStep, ReplyStep DEF RefInv
<1> QED
  BY <1>1, <1>2, PTL DEF Spec

(* An empty table is an empty registry.                                    *)
LEMMA RefInit == Init => Registry!Init
BY SharedOperators DEF Init, Registry!Init, Asked, Answer

(* One step of TrackerState is one step of the registry, or none.          *)
LEMMA RefStep == RefInv /\ [Next]_vars => [Registry!Next]_(Registry!vars)
<1> SUFFICES ASSUME TableType, HandlerType, LockedInside, ReplyInv, [Next]_vars
             PROVE  [Registry!Next]_(Registry!vars)
  BY TypeInvParts DEF RefInv
<1> USE DistinctHolders, NoRequestIsNone
<1> DEFINE OthersKeep(th) ==
        \A h \in Threads \ {th} : Asked'[h] = Asked[h] /\ Answer'[h] = Answer[h]
<1>1. ASSUME NEW th \in Threads, OthersKeep(th)
      PROVE  /\ Asked' = [Asked EXCEPT ![th] = Asked'[th]]
             /\ Answer' = [Answer EXCEPT ![th] = Answer'[th]]
  BY <1>1 DEF Asked, Answer
<1>2. ASSUME NEW th \in Threads, Receive(th)
      PROVE  Registry!Next
  <2>1. PICK r \in Requests : request' = [request EXCEPT ![th] = r]
    BY <1>2 DEF Receive
  <2>2. Asked[th] = NoRequest /\ Answer[th] = NoReply /\ Asked'[th] = r
    BY <1>2, <2>1 DEF Receive, Asked, Answer, HandlerType, ReplyInv
  <2>3. Answer' = Answer /\ Asked' = [Asked EXCEPT ![th] = r]
    BY <1>2, <2>1 DEF Receive, Response, table, Asked, Answer, HandlerType
  <2>4. Registry!Ask(th, r)
    BY <1>2, <2>2, <2>3, SharedOperators DEF Registry!Ask, Receive, table
  <2> QED
    BY <2>4, SharedOperators DEF Registry!Next
<1>3. ASSUME NEW th \in Threads, RejectMalformed(th)
      PROVE  Registry!Next
  <2>1. Asked' = Asked /\ Asked[th] = NoRequest /\ Answer[th] = NoReply
    BY <1>3 DEF RejectMalformed, Asked, Answer, HandlerType, ReplyInv
  <2>2. Answer' = [Answer EXCEPT ![th] = Empty("refused")]
    BY <1>3 DEF RejectMalformed, Response, table, Answer, HandlerType
  <2>3. Registry!RefuseMalformed(th)
    BY <1>3, <2>1, <2>2, SharedOperators DEF Registry!RefuseMalformed, RejectMalformed, table
  <2> QED
    BY <2>3 DEF Registry!Next
<1>4. ASSUME NEW th \in Threads, Acquire(th)
      PROVE  UNCHANGED Registry!vars
  BY <1>4 DEF Acquire, Registry!vars, Response, table, Asked, Answer, HandlerType
<1>5. ASSUME NEW th \in Threads, Stopped(th) \/ Register(th)
      PROVE  Registry!Next
  <2> DEFINE r == request[th]
  <2>1. pc[th] = "locked" /\ LogUpdate(th) /\ r \in Requests
    BY <1>5 DEF Stopped, Register, HandlerType
  <2>2. lock = th /\ \A h \in Threads \ {th} : pc[h] \notin {"locked", "updated"}
    BY <2>1 DEF LockedInside
  <2>3. OthersKeep(th)
    BY <2>1, <2>2 DEF LogUpdate, ReleaseWith, Asked, Answer, HandlerType
  <2>4. Asked[th] = r /\ Asked'[th] = NoRequest
    BY <2>1 DEF LogUpdate, ReleaseWith, Asked, HandlerType
  <2>5. Registry!Acceptable(r) /\ Registry!Apply(r)
    <3>1. CASE Stopped(th)
      BY <3>1 DEF Stopped, Forget, Registry!Acceptable, Registry!Apply, Registry!Leave
    <3>2. CASE Register(th)
      BY <3>2, SharedOperators
      DEF Register, IsNew, Store, Registry!Acceptable, Registry!Apply, Registry!Enter
    <3> QED
      BY <1>5, <3>1, <3>2
  <2>6. CASE pc' = [pc EXCEPT ![th] = "updated"] /\ UNCHANGED request
    <3>1. Answer'[th] = Snapshot(members'[r.torrent], seeds'[r.torrent], r.peer)
      BY <2>6 DEF Answer, Response, HandlerType
    <3>2. Registry!Serve(th)
      BY <1>1, <2>1, <2>3, <2>4, <2>5, <3>1, SharedOperators DEF Registry!Serve
    <3> QED
      BY <3>2 DEF Registry!Next
  <2>7. CASE ReleaseWith(th, "error")
    <3>1. Answer'[th] = Empty("error")
      BY <2>7 DEF Answer, ReleaseWith, HandlerType
    <3>2. Registry!Fail(th)
      BY <1>1, <2>1, <2>3, <2>4, <2>5, <3>1, SharedOperators DEF Registry!Fail
    <3> QED
      BY <3>2 DEF Registry!Next
  <2> QED
    BY <2>1, <2>6, <2>7 DEF LogUpdate
<1>6. ASSUME NEW th \in Threads, RefuseUnknown(th)
      PROVE  Registry!Next
  <2>1. request[th] \in Requests /\ Asked[th] = request[th] /\ ~Registry!Acceptable(request[th])
    BY <1>6 DEF RefuseUnknown, IsNew, Registry!Acceptable, Asked, HandlerType
  <2>2. Asked' = [Asked EXCEPT ![th] = NoRequest] /\ Answer' = [Answer EXCEPT ![th] = Empty("refused")]
    BY <1>6 DEF RefuseUnknown, ReleaseWith, Response, table, Asked, Answer, HandlerType
  <2>3. Registry!Refuse(th)
    BY <1>6, <2>1, <2>2, SharedOperators DEF RefuseUnknown, table, Registry!Refuse
  <2> QED
    BY <2>3 DEF Registry!Next
<1>7. ASSUME NEW th \in Threads, Respond(th)
      PROVE  UNCHANGED Registry!vars
  BY <1>7 DEF Respond, Registry!vars, Response, table, Asked, Answer, HandlerType
<1>8. ASSUME NEW th \in Threads, Finish(th)
      PROVE  Registry!Next
  <2>1. Answer[th] # NoReply /\ Asked' = Asked /\ Answer' = [Answer EXCEPT ![th] = NoReply]
    BY <1>8 DEF Finish, Response, table, Asked, Answer, HandlerType, ReplyInv
  <2>2. Registry!TakeReply(th)
    BY <1>8, <2>1, SharedOperators DEF Registry!TakeReply, Finish, table
  <2> QED
    BY <2>2 DEF Registry!Next
<1>9. ASSUME NEW t \in Torrents, NEW S \in SUBSET Peers, Forget(t, S), UNCHANGED handler,
             \A th \in Threads : pc[th] # "updated"
      PROVE  Registry!Next
  <2>1. Asked' = Asked /\ Answer' = Answer
    BY <1>9 DEF handler, Asked, Answer
  <2>2. Registry!Drop(t, S)
    BY <1>9, <2>1 DEF Forget, Registry!Drop, Registry!Leave
  <2> QED
    BY <2>2 DEF Registry!Next
<1>10. ASSUME NEW t \in Torrents, NEW p \in Peers, RemovePeer(t, p)
       PROVE  Registry!Next
  <2>1. \A th \in Threads : pc[th] # "updated"
    BY <1>10 DEF RemovePeer, LockedInside
  <2> QED
    BY <1>9, <1>10, <2>1 DEF RemovePeer
<1>11. ASSUME NEW t \in Torrents, SweepSwarm(t) \/ SweepFails(t)
       PROVE  Registry!Next
  <2>1. \A th \in Threads : pc[th] # "updated"
    BY <1>11 DEF SweepSwarm, SweepFails, LockedInside
  <2>2. Expired(t) \subseteq Peers
    BY DEF Expired, TableType
  <2>3. UNCHANGED handler /\ \E S \in SUBSET Peers : Forget(t, S)
    BY <1>11, <2>2 DEF SweepSwarm, SweepFails
  <2> QED
    BY <1>9, <2>1, <2>3
<1>12. CASE Wake \/ SweepStart \/ SweepEnd \/ Tick \/ UNCHANGED vars
  BY <1>12
  DEF Wake, SweepStart, SweepEnd, Tick, vars, table, handler, Registry!vars, Response, Asked, Answer
<1> QED
  BY <1>2, <1>3, <1>4, <1>5, <1>6, <1>7, <1>8, <1>10, <1>11, <1>12 DEF Next, HandlerStep, SweeperStep

(* The lock makes the tracker a registry of atomic announces: whatever the *)
(* interleaving of handlers and cleanup, each announce takes effect at one *)
(* instant and its reply is the swarm of that instant.                     *)
THEOREM TrackerIsARegistry == Spec => ImplementsRegistry
BY RefInit, RefStep, RefInvAlways, PTL DEF Spec, ImplementsRegistry, Registry!Spec

-----------------------------------------------------------------------------
(* Numbers.                                                                *)
Ten == {"0", "1", "2", "3", "4", "5", "6", "7", "8", "9"}

(* The decimal digits, their values and their order.                       *)
LEMMA DigitFacts ==
    /\ Range(Digits) = Ten
    /\ \A c : IsDigit(c) <=> c \in Ten
    /\ \A d \in 0..9 : Digits[d + 1] \in Ten /\ DigitValue(Digits[d + 1]) = d
    /\ \A c \in Ten : DigitValue(c) \in 0..9 /\ Digits[DigitValue(c) + 1] = c
<1>1. /\ Digits[1] = "0" /\ Digits[2] = "1" /\ Digits[3] = "2" /\ Digits[4] = "3"
      /\ Digits[5] = "4" /\ Digits[6] = "5" /\ Digits[7] = "6" /\ Digits[8] = "7"
      /\ Digits[9] = "8" /\ Digits[10] = "9" /\ DOMAIN Digits = 1..10
  BY DEF Digits
<1>2. \A i \in 1..10 : i = 1 \/ i = 2 \/ i = 3 \/ i = 4 \/ i = 5 \/ i = 6 \/ i = 7 \/ i = 8 \/ i = 9 \/ i = 10
  OBVIOUS
<1>3. \A i, j \in 1..10 : Digits[i] = Digits[j] => i = j
  BY <1>1, <1>2
<1>4. \A i \in 1..10 : DigitValue(Digits[i]) = i - 1
  BY <1>3 DEF DigitValue
<1>5. Range(Digits) = Ten
  BY <1>1, <1>2 DEF Range, Ten
<1>6. \A c : IsDigit(c) <=> c \in Ten
  BY <1>5 DEF IsDigit
<1>7. \A d \in 0..9 : Digits[d + 1] \in Ten /\ DigitValue(Digits[d + 1]) = d
  <2> TAKE d \in 0..9
  <2>1. PICK i \in 1..10 : i = d + 1
    OBVIOUS
  <2>2. Digits[i] \in Ten
    BY <1>1, <1>2 DEF Ten
  <2> QED
    BY <1>4, <2>1, <2>2
<1>8. \A c \in Ten : DigitValue(c) \in 0..9 /\ Digits[DigitValue(c) + 1] = c
  <2> TAKE c \in Ten
  <2>1. PICK i \in 1..10 : Digits[i] = c
    BY <1>1 DEF Ten
  <2>2. DigitValue(c) = i - 1
    BY <1>4, <2>1
  <2> QED
    BY <2>1, <2>2
<1> QED
  BY <1>5, <1>6, <1>7, <1>8

(* The last digit of a numeral.                                            *)
LastDigit(m) == Digits[(m % 10) + 1]

(* The numerals of the numbers up to n, as Decimal defines them.           *)
IsDecimalUpTo(n, g) ==
    g = [m \in 0..n |-> IF m < 10 THEN <<Digits[m + 1]>> ELSE Append(g[m \div 10], LastDigit(m))]

(* There is a function with the decimal digits of the numbers up to n.     *)
LEMMA DecimalExists ==
    ASSUME NEW n \in Nat
    PROVE  \E g : IsDecimalUpTo(n, g)
<1> DEFINE T == {k \in 0..n : \E g : IsDecimalUpTo(k, g)}
<1>1. 0 \in T
  <2> DEFINE g == [m \in 0..0 |-> <<Digits[m + 1]>>]
  <2>1. g = [m \in 0..0 |-> IF m < 10 THEN <<Digits[m + 1]>> ELSE Append(g[m \div 10], LastDigit(m))]
    <3>1. \A m \in 0..0 : m < 10
      OBVIOUS
    <3> QED
      BY <3>1, Zenon
  <2>2. IsDecimalUpTo(0, g)
    BY <2>1 DEF IsDecimalUpTo
  <2> QED
    BY <2>2
<1>2. ASSUME NEW k \in 1..n, k - 1 \in T
      PROVE  k \in T
  <2>1. PICK g : IsDecimalUpTo(k - 1, g)
    BY <1>2
  <2>0. PICK last : last = IF k < 10 THEN <<Digits[k + 1]>> ELSE Append(g[k \div 10], LastDigit(k))
    OBVIOUS
  <2> DEFINE h == [m \in 0..k |-> IF m = k THEN last ELSE g[m]]
  <2>2. ASSUME NEW m \in 0..k
        PROVE  h[m] = IF m < 10 THEN <<Digits[m + 1]>> ELSE Append(h[m \div 10], LastDigit(m))
    <3>0. m >= 10 => m \div 10 \in 0..(k - 1) /\ m \div 10 # k
      BY TenthFacts
    <3>1. m >= 10 => h[m \div 10] = g[m \div 10]
      BY <3>0
    <3>2. CASE m = k
      <4>1. h[m] = last
        BY <3>2
      <4> HIDE DEF h
      <4> QED
        BY <2>0, <3>1, <3>2, <4>1
    <3>3. CASE m # k
      <4>1. m \in 0..(k - 1) /\ h[m] = g[m]
        BY <3>3
      <4>2. g[m] = IF m < 10 THEN <<Digits[m + 1]>> ELSE Append(g[m \div 10], LastDigit(m))
        BY <2>1, <4>1 DEF IsDecimalUpTo
      <4> HIDE DEF h
      <4> QED
        BY <3>1, <4>1, <4>2
    <3> QED
      BY <3>2, <3>3
  <2>3. h = [m \in 0..k |-> h[m]]
    OBVIOUS
  <2> HIDE DEF h
  <2>4. IsDecimalUpTo(k, h)
    BY <2>2, <2>3 DEF IsDecimalUpTo
  <2> QED
    BY <2>4
<1> HIDE DEF T
<1>3. 0..n \subseteq T
  BY <1>1, <1>2, Induction
<1> QED
  BY <1>3 DEF T

(* Its equations: a digit alone, or the digits of a tenth and the last     *)
(* one.                                                                    *)
LEMMA DecimalUnfolds ==
    ASSUME NEW n, NEW g, IsDecimalUpTo(n, g), NEW k \in 0..n
    PROVE  /\ k < 10 => g[k] = <<Digits[k + 1]>>
           /\ ~(k < 10) => g[k] = Append(g[k \div 10], LastDigit(k))
<1>1. g = [m \in 0..n |-> IF m < 10 THEN <<Digits[m + 1]>> ELSE Append(g[m \div 10], LastDigit(m))]
  BY DEF IsDecimalUpTo
<1>2. g[k] = IF k < 10 THEN <<Digits[k + 1]>> ELSE Append(g[k \div 10], LastDigit(k))
  BY <1>1, Zenon
<1> QED
  BY <1>2, Zenon

(* Two such functions agree where both are defined.                        *)
LEMMA DecimalUnique ==
    ASSUME NEW n \in Nat, NEW g, IsDecimalUpTo(n, g), NEW m \in Nat, NEW h, IsDecimalUpTo(m, h)
    PROVE  \A k \in 0..n : k <= m => g[k] = h[k]
<1> DEFINE T == {k \in 0..n : \A j \in 0..k : j <= m => g[j] = h[j]}
<1>0. ASSUME NEW k \in 0..n, k <= m, k >= 10 => g[k \div 10] = h[k \div 10]
      PROVE  g[k] = h[k]
  <2>1. k \in 0..m
    BY <1>0
  <2>2. CASE k < 10
    BY <2>1, <2>2, DecimalUnfolds, Zenon
  <2>3. CASE ~(k < 10)
    <3>1. g[k \div 10] = h[k \div 10]
      BY <1>0, <2>3
    <3> QED
      BY <2>1, <2>3, <3>1, DecimalUnfolds, Zenon
  <2> QED
    BY <2>2, <2>3
<1>1. 0 \in T
  <2>1. 0 <= m => g[0] = h[0]
    BY <1>0
  <2> QED
    BY <2>1
<1>2. ASSUME NEW k \in 1..n, k - 1 \in T
      PROVE  k \in T
  <2>1. \A j \in 0..(k - 1) : j <= m => g[j] = h[j]
    BY <1>2
  <2>2. ASSUME k <= m
        PROVE  g[k] = h[k]
    <3>1. k >= 10 => k \div 10 \in 0..(k - 1) /\ k \div 10 <= m
      BY <2>2, TenthFacts
    <3>2. k >= 10 => g[k \div 10] = h[k \div 10]
      BY <2>1, <3>1
    <3> QED
      BY <1>0, <2>2, <3>2
  <2> QED
    BY <2>1, <2>2
<1> HIDE DEF T
<1>3. 0..n \subseteq T
  BY <1>1, <1>2, Induction
<1> QED
  BY <1>3 DEF T

(* The numeral of n, from the numeral of n without its last digit.         *)
LEMMA DecimalSteps ==
    ASSUME NEW n \in Nat
    PROVE  Decimal(n) = IF n < 10 THEN <<Digits[n + 1]>> ELSE Append(Decimal(n \div 10), LastDigit(n))
<1> DEFINE chosen(m) == CHOOSE g : IsDecimalUpTo(m, g)
<1>1. \A m \in Nat : IsDecimalUpTo(m, chosen(m))
  BY DecimalExists
<1>2. \A m \in Nat : Decimal(m) = chosen(m)[m]
  BY DEF Decimal, IsDecimalUpTo, LastDigit
<1> HIDE DEF chosen
<1>3. chosen(n)[n] = IF n < 10 THEN <<Digits[n + 1]>> ELSE Append(chosen(n)[n \div 10], LastDigit(n))
  <2>1. chosen(n) = [m \in 0..n |-> IF m < 10 THEN <<Digits[m + 1]>>
                                   ELSE Append(chosen(n)[m \div 10], LastDigit(m))]
    BY <1>1 DEF IsDecimalUpTo
  <2>2. n \in 0..n
    OBVIOUS
  <2> QED
    BY <2>1, <2>2, Zenon
<1>4. CASE n < 10
  BY <1>2, <1>3, <1>4, Zenon
<1>5. CASE ~(n < 10)
  <2>1. n \div 10 \in Nat /\ n \div 10 \in 0..n /\ n \div 10 <= n \div 10
    BY <1>5, TenthFacts
  <2>2. chosen(n)[n \div 10] = chosen(n \div 10)[n \div 10]
    <3>1. n \div 10 \in 0..(n \div 10)
      BY <2>1
    <3>2. ASSUME NEW q \in Nat, q \in 0..n
          PROVE  chosen(n)[q] = chosen(q)[q]
      <4>1. IsDecimalUpTo(n, chosen(n)) /\ IsDecimalUpTo(q, chosen(q))
        BY <1>1, <3>2
      <4> QED
        BY <3>2, <4>1, DecimalUnique
    <3> QED
      BY <2>1, <3>2
  <2> QED
    BY <1>2, <1>3, <1>5, <2>1, <2>2, Zenon
<1> QED
  BY <1>4, <1>5

(* What the first symbols up to the m-th stand for, as Number defines it.  *)
IsNumberUpTo(s, m, g) ==
    g = [k \in 0..m |-> IF k = 0 THEN 0
                        ELSE IF s[k] = "_" THEN g[k - 1]
                        ELSE 10 * g[k - 1] + DigitValue(s[k])]

(* There is a function with the numbers that the beginnings of a text      *)
(* spell.                                                                  *)
LEMMA NumberExists ==
    ASSUME NEW s, NEW m \in Nat
    PROVE  \E g : IsNumberUpTo(s, m, g)
<1> DEFINE T == {k \in 0..m : \E g : IsNumberUpTo(s, k, g)}
           Next1(k, v) == IF k = 0 THEN 0 ELSE IF s[k] = "_" THEN v ELSE 10 * v + DigitValue(s[k])
<1>1. 0 \in T
  <2>1. IsNumberUpTo(s, 0, [n \in 0..0 |-> 0])
    BY DEF IsNumberUpTo
  <2> QED
    BY <2>1
<1>2. ASSUME NEW k \in 1..m, k - 1 \in T
      PROVE  k \in T
  <2>1. PICK g : IsNumberUpTo(s, k - 1, g)
    BY <1>2
  <2>0. g = [n \in 0..(k - 1) |-> Next1(n, g[n - 1])]
    BY <2>1 DEF IsNumberUpTo
  <2> HIDE DEF Next1
  <2> DEFINE h == [n \in 0..k |-> IF n = k THEN Next1(k, g[k - 1]) ELSE g[n]]
  <2>2. ASSUME NEW n \in 0..k
        PROVE  h[n] = Next1(n, h[n - 1])
    <3>1. CASE n = k
      <4>1. h[n] = Next1(k, g[k - 1]) /\ h[n - 1] = g[k - 1]
        BY <3>1
      <4> QED
        BY <3>1, <4>1
    <3>2. CASE n # k
      <4>1. n \in 0..(k - 1)
        BY <3>2
      <4>2. h[n] = g[n] /\ (n # 0 => h[n - 1] = g[n - 1])
        BY <3>2, <4>1
      <4>3. g[n] = Next1(n, g[n - 1])
        BY <2>0, <4>1
      <4>4. CASE n = 0
        BY <4>2, <4>3, <4>4 DEF Next1
      <4>5. CASE n # 0
        <5> HIDE DEF h
        <5> QED
          BY <4>2, <4>3, <4>5
      <4> QED
        BY <4>4, <4>5
    <3> QED
      BY <3>1, <3>2
  <2>3. h = [n \in 0..k |-> h[n]]
    OBVIOUS
  <2> HIDE DEF h
  <2>4. h = [n \in 0..k |-> Next1(n, h[n - 1])]
    BY <2>2, <2>3
  <2>5. IsNumberUpTo(s, k, h)
    BY <2>4 DEF IsNumberUpTo, Next1
  <2> QED
    BY <2>5
<1> HIDE DEF T
<1>3. 0..m \subseteq T
  BY <1>1, <1>2, Induction
<1> QED
  BY <1>3 DEF T

(* The number that the first k digits stand for.                           *)
Reads(s, g) ==
    /\ g[0] = 0
    /\ \A k \in 1..Len(s) : g[k] \in Nat /\ g[k] = 10 * g[k - 1] + DigitValue(s[k])
    /\ Number(s) = g[Len(s)]

(* Number is its last value: each digit adds itself to ten times the       *)
(* number before it.                                                       *)
LEMMA NumberSteps ==
    ASSUME NEW s \in Seq(Ten)
    PROVE  \E g : Reads(s, g)
<1> DEFINE g == CHOOSE h : IsNumberUpTo(s, Len(s), h)
<1>0. Len(s) \in Nat
  OBVIOUS
<1>1. IsNumberUpTo(s, Len(s), g)
  BY <1>0, NumberExists
<1>2. Number(s) = g[Len(s)]
  BY DEF Number, IsNumberUpTo
<1> HIDE DEF g
<1>3. g[0] = 0 /\ \A k \in 1..Len(s) : g[k] = 10 * g[k - 1] + DigitValue(s[k])
  <2>1. \A k \in 1..Len(s) : s[k] \in Ten
    OBVIOUS
  <2>2. \A k \in 1..Len(s) : s[k] # "_"
    BY <2>1 DEF Ten
  <2>3. ASSUME NEW k \in 0..Len(s)
        PROVE  g[k] = IF k = 0 THEN 0
                      ELSE IF s[k] = "_" THEN g[k - 1]
                      ELSE 10 * g[k - 1] + DigitValue(s[k])
    BY <1>1, Zenon DEF IsNumberUpTo
  <2>4. g[0] = 0
    <3>1. 0 \in 0..Len(s)
      BY <1>0
    <3> QED
      BY <2>3, <3>1, Zenon
  <2>5. ASSUME NEW k \in 1..Len(s)
        PROVE  g[k] = 10 * g[k - 1] + DigitValue(s[k])
    <3>1. k \in 0..Len(s) /\ k # 0
      OBVIOUS
    <3> QED
      BY <2>2, <2>3, <3>1, Zenon
  <2> QED
    BY <2>4, <2>5
<1> DEFINE T == {k \in 0..Len(s) : g[k] \in Nat}
<1>4. 0 \in T
  BY <1>0, <1>3
<1>5. ASSUME NEW k \in 1..Len(s), k - 1 \in T
      PROVE  k \in T
  <2>1. PICK d \in 0..9 : d = DigitValue(s[k])
    BY DigitFacts
  <2>2. PICK a \in Nat : a = g[k - 1]
    BY <1>5
  <2>3. g[k] = 10 * a + d
    BY <1>3, <2>1, <2>2
  <2> QED
    BY <2>3
<1> HIDE DEF T
<1>6. 0..Len(s) \subseteq T
  BY <1>0, <1>4, <1>5, Induction
<1>7. \A k \in 1..Len(s) : g[k] \in Nat
  BY <1>6 DEF T
<1> QED
  BY <1>2, <1>3, <1>7 DEF Reads

(* One more digit.                                                         *)
LEMMA NumberAppends ==
    ASSUME NEW s \in Seq(Ten), NEW c \in Ten
    PROVE  /\ Number(s) \in Nat
           /\ Number(Append(s, c)) = 10 * Number(s) + DigitValue(c)
<1> DEFINE t == Append(s, c)
<1>1. t \in Seq(Ten) /\ Len(t) = Len(s) + 1 /\ Len(s) \in Nat
      /\ t[Len(s) + 1] = c /\ \A k \in 1..Len(s) : t[k] = s[k]
  OBVIOUS
<1> HIDE DEF t
<1>2. PICK g : Reads(s, g)
  BY NumberSteps
<1>3. PICK h : Reads(t, h)
  BY <1>1, NumberSteps
<1> DEFINE T == {k \in 0..Len(s) : g[k] = h[k]}
<1>4. 0 \in T
  BY <1>1, <1>2, <1>3 DEF Reads
<1>5. ASSUME NEW k \in 1..Len(s), k - 1 \in T
      PROVE  k \in T
  <2>1. g[k] = 10 * g[k - 1] + DigitValue(s[k]) /\ h[k] = 10 * h[k - 1] + DigitValue(t[k])
    BY <1>1, <1>2, <1>3 DEF Reads
  <2> QED
    BY <1>1, <1>5, <2>1
<1> HIDE DEF T
<1>6. 0..Len(s) \subseteq T
  BY <1>1, <1>4, <1>5, Induction
<1>7. h[Len(s)] = Number(s) /\ Number(s) \in Nat
  <2>1. g[Len(s)] = h[Len(s)]
    BY <1>1, <1>6 DEF T
  <2> QED
    BY <1>1, <1>2, <2>1 DEF Reads
<1>8. Number(t) = 10 * h[Len(s)] + DigitValue(c)
  BY <1>1, <1>3 DEF Reads
<1> QED
  BY <1>7, <1>8 DEF t

(* The number one digit spells, and the number of none.                    *)
LEMMA NumberOfOne ==
    ASSUME NEW c \in Ten
    PROVE  Number(<<c>>) = DigitValue(c) /\ Number(<<>>) = 0
<1>1. Append(<<>>, c) = <<c>> /\ <<>> \in Seq(Ten)
  OBVIOUS
<1>2. PICK g : Reads(<<>>, g)
  BY <1>1, NumberSteps
<1>3. Number(<<>>) = 0
  BY <1>2 DEF Reads
<1>4. DigitValue(c) \in 0..9
  BY DigitFacts
<1>5. Number(Append(<<>>, c)) = 10 * Number(<<>>) + DigitValue(c)
  BY <1>1, NumberAppends
<1> QED
  BY <1>1, <1>3, <1>4, <1>5

(* str() and int() are inverse.                                            *)
IsNumeral(s) == s \in Seq(Ten) /\ s # <<>> /\ ~LeadingZero(s)

(* str(n) is a numeral without a leading zero, and spells n.               *)
LEMMA DecimalFacts ==
    ASSUME NEW n \in Nat
    PROVE  /\ IsNumeral(Decimal(n))
           /\ Number(Decimal(n)) = n
           /\ n # 0 => Decimal(n)[1] # "0"
<1> DEFINE P(k) == /\ Decimal(k) \in Seq(Ten) /\ Len(Decimal(k)) \in Nat \ {0}
                   /\ Number(Decimal(k)) = k
                   /\ k # 0 => Decimal(k)[1] # "0"
                   /\ k = 0 => Len(Decimal(k)) = 1
           T == {k \in 0..n : \A j \in 0..k : P(j)}
<1>1. ASSUME NEW k \in Nat, k < 10
      PROVE  P(k)
  <2>1. PICK c : c = Digits[k + 1]
    OBVIOUS
  <2>2. c \in Ten /\ DigitValue(c) = k
    BY <1>1, <2>1, DigitFacts
  <2>3. Decimal(k) = <<c>>
    BY <1>1, <2>1, DecimalSteps
  <2>4. Number(<<c>>) = k
    BY <2>2, NumberOfOne
  <2>5. <<c>> \in Seq(Ten) /\ Len(<<c>>) = 1 /\ <<c>>[1] = c
    BY <2>2
  <2>6. k # 0 => c # "0"
    <3>1. DigitValue("0") = 0
      BY DigitFacts DEF Digits
    <3> QED
      BY <2>2, <3>1
  <2> QED
    BY <2>3, <2>4, <2>5, <2>6
<1>2. ASSUME NEW k \in Nat, k >= 10, P(k \div 10)
      PROVE  P(k)
  <2>1. PICK q \in Nat : q = k \div 10 /\ q # 0
    BY <1>2, TenthFacts
  <2>2. PICK r \in 0..9 : r = k % 10 /\ k = 10 * q + r
    BY <2>1, TenthFacts
  <2>3. PICK c \in Ten : c = LastDigit(k) /\ DigitValue(c) = r
    BY <2>2, DigitFacts DEF LastDigit
  <2>4. PICK s \in Seq(Ten) : s = Decimal(q) /\ Len(s) \in Nat \ {0} /\ Number(s) = q /\ s[1] # "0"
    BY <1>2, <2>1
  <2>5. Decimal(k) = Append(s, c)
    <3>1. ~(k < 10)
      BY <1>2
    <3> QED
      BY <2>1, <2>3, <2>4, <3>1, DecimalSteps, Zenon
  <2>6. /\ Append(s, c) \in Seq(Ten) /\ Len(Append(s, c)) = Len(s) + 1
        /\ Append(s, c)[1] = s[1]
    BY <2>4
  <2>7. Number(Append(s, c)) = k
    BY <2>2, <2>3, <2>4, NumberAppends
  <2>8. k # 0 /\ Len(s) + 1 \in Nat \ {0}
    BY <1>2, <2>4
  <2> QED
    BY <2>4, <2>5, <2>6, <2>7, <2>8
<1> HIDE DEF P
<1>3. 0 \in T
  BY <1>1
<1>4. ASSUME NEW k \in 1..n, k - 1 \in T
      PROVE  k \in T
  <2>1. \A j \in 0..(k - 1) : P(j)
    BY <1>4
  <2>2. P(k)
    <3>1. CASE k < 10
      BY <1>1, <3>1
    <3>2. CASE k >= 10
      <4>1. k \div 10 \in 0..(k - 1)
        BY <3>2, TenthFacts
      <4> QED
        BY <1>2, <2>1, <3>2, <4>1
    <3> QED
      BY <3>1, <3>2
  <2> QED
    BY <2>1, <2>2
<1> HIDE DEF T
<1>5. 0..n \subseteq T
  BY <1>3, <1>4, Induction
<1>6. P(n)
  BY <1>5 DEF T
<1>7. ~LeadingZero(Decimal(n))
  <2>1. Decimal(n) \in Seq(Ten) /\ Len(Decimal(n)) \in Nat \ {0} /\ (n # 0 => Decimal(n)[1] # "0")
        /\ (n = 0 => Len(Decimal(n)) = 1)
    BY <1>6 DEF P
  <2>2. PICK s \in Seq(Ten) : s = Decimal(n)
    BY <2>1
  <2>3. Len(s) > 1 => n # 0
    <3>1. CASE n = 0
      <4>1. Len(s) = 1
        BY <2>1, <2>2, <3>1, Zenon
      <4> QED
        BY <4>1
    <3> QED
      BY <3>1, Zenon
  <2>4. Len(s) > 1 => Head(s) # "0"
    BY <2>1, <2>2, <2>3
  <2> QED
    BY <2>2, <2>4, Zenon DEF LeadingZero
<1> QED
  BY <1>6, <1>7 DEF P, IsNumeral

(* A numeral without a leading zero is str() of the number it spells.      *)
LEMMA NumeralIsDecimal ==
    ASSUME NEW s, IsNumeral(s)
    PROVE  Number(s) \in Nat /\ Decimal(Number(s)) = s
<1> DEFINE P(t) == Number(t) \in Nat /\ Decimal(Number(t)) = t /\ (t[1] # "0" => Number(t) # 0)
           T == {k \in 0..Len(s) : \A t \in Seq(Ten) : IsNumeral(t) /\ Len(t) = k => P(t)}
<1>0. s \in Seq(Ten) /\ Len(s) \in Nat
  BY DEF IsNumeral
<1>1. ASSUME NEW c \in Ten
      PROVE  P(<<c>>)
  <2>1. Number(<<c>>) = DigitValue(c) /\ DigitValue(c) \in 0..9 /\ Digits[DigitValue(c) + 1] = c
    BY NumberOfOne, DigitFacts
  <2>2. Decimal(DigitValue(c)) = <<c>>
    BY <2>1, DecimalSteps
  <2>3. DigitValue(c) = 0 => c = "0"
    BY <2>1 DEF Digits
  <2> QED
    BY <2>1, <2>2, <2>3
<1>2. ASSUME NEW t \in Seq(Ten), NEW c \in Ten, t # <<>>, t[1] # "0", P(t)
      PROVE  P(Append(t, c))
  <2>1. PICK q \in Nat : q = Number(t) /\ q # 0 /\ Decimal(q) = t
    BY <1>2
  <2>2. PICK r \in 0..9 : r = DigitValue(c) /\ Digits[r + 1] = c
    BY DigitFacts
  <2>3. Number(Append(t, c)) = 10 * q + r
    BY <2>1, <2>2, NumberAppends
  <2>4. PICK n \in Nat : n = 10 * q + r /\ ~(n < 10)
    BY <2>1, <2>2
  <2>5. n \div 10 = q /\ n % 10 = r
    BY <2>4, TenfoldFacts
  <2>6. Decimal(n) = Append(Decimal(n \div 10), LastDigit(n))
    BY <2>4, DecimalSteps
  <2>7. Decimal(n) = Append(t, c)
    BY <2>1, <2>2, <2>5, <2>6 DEF LastDigit
  <2> QED
    BY <2>3, <2>4, <2>7
<1> HIDE DEF P
<1>3. 0 \in T
  BY <1>0 DEF IsNumeral
<1>4. ASSUME NEW k \in 1..Len(s), k - 1 \in T
      PROVE  k \in T
  <2> SUFFICES ASSUME NEW t \in Seq(Ten), IsNumeral(t), Len(t) = k
               PROVE  P(t)
    OBVIOUS
  <2>1. PICK c \in Ten : c = t[k]
    OBVIOUS
  <2>2. CASE k = 1
    <3>1. t = <<c>>
      BY <2>1, <2>2
    <3> QED
      BY <1>1, <3>1
  <2>3. CASE k > 1
    <3> DEFINE u == SubSeq(t, 1, k - 1)
    <3>1. u \in Seq(Ten) /\ Len(u) = k - 1 /\ \A j \in 1..(k - 1) : u[j] = t[1 + j - 1]
      <4>1. k - 1 \in Nat /\ 1 \in Nat /\ 1 <= 1 /\ 1 <= (k - 1) + 1 /\ k - 1 <= Len(t) /\ (k - 1) - 1 + 1 = k - 1
        BY <2>3
      <4> QED
        BY <4>1, SubSeqFacts
    <3>2. t[1] # "0"
      <4>1. Len(t) > 1 /\ Head(t) = t[1]
        BY <2>3
      <4> QED
        BY <4>1 DEF IsNumeral, LeadingZero
    <3> HIDE DEF u
    <3>3. u # <<>> /\ u[1] = t[1]
      BY <2>3, <3>1
    <3>4. IsNumeral(u)
      <4>1. Head(u) = u[1]
        BY <3>1, <3>3
      <4> QED
        BY <3>1, <3>2, <3>3, <4>1 DEF IsNumeral, LeadingZero
    <3>5. P(u)
      BY <1>4, <3>1, <3>4
    <3>6. t = Append(u, c)
      <4>1. Append(u, c) \in Seq(Ten) /\ Len(Append(u, c)) = k
            /\ \A j \in 1..(k - 1) : Append(u, c)[j] = t[j]
        BY <3>1
      <4>2. Append(u, c)[k] = t[k]
        BY <2>1, <3>1
      <4>3. \A j \in 1..k : Append(u, c)[j] = t[j]
        BY <4>1, <4>2
      <4> QED
        BY <4>1, <4>3
    <3>7. u[1] # "0"
      BY <3>2, <3>3
    <3> QED
      BY <1>2, <3>1, <3>3, <3>5, <3>6, <3>7
  <2> QED
    BY <2>2, <2>3
<1> HIDE DEF T
<1>5. 0..Len(s) \subseteq T
  BY <1>0, <1>3, <1>4, Induction
<1>6. P(s)
  BY <1>0, <1>5 DEF T
<1> QED
  BY <1>6 DEF P

-----------------------------------------------------------------------------
(* The least and the greatest number of a set.                             *)
(* strip() takes off blanks only where there are some.                     *)
LEMMA StripKeeps ==
    ASSUME NEW S, NEW s \in Seq(S), "space" \notin S
    PROVE  Strip(s) = s
<1> DEFINE kept == {k \in DOMAIN s : s[k] # "space"}
<1>0. DOMAIN s = 1..Len(s) /\ Len(s) \in Nat
  OBVIOUS
<1>1. kept = 1..Len(s)
  <2>1. \A k \in 1..Len(s) : s[k] \in S
    OBVIOUS
  <2>2. \A k \in 1..Len(s) : s[k] # "space"
    BY <2>1, Zenon
  <2> QED
    BY <1>0, <2>2
<1>2. CASE s = <<>>
  <2>1. kept = {}
    BY <1>1, <1>2
  <2> QED
    BY <1>2, <2>1, Zenon DEF Strip
<1>3. CASE s # <<>>
  <2>1. Len(s) \in Nat \ {0}
    BY <1>3, EmptySeq
  <2>2. Min(kept) = 1
    <3>1. 1 \in 1..Len(s) /\ 1..Len(s) \subseteq Int /\ \A y \in 1..Len(s) : 1 <= y
      BY <2>1
    <3> HIDE DEF kept
    <3> QED
      BY <1>1, <3>1, LeastIsMin
  <2>3. Max(kept) = Len(s)
    <3>1. Len(s) \in 1..Len(s) /\ 1..Len(s) \subseteq Int /\ \A y \in 1..Len(s) : Len(s) >= y
      BY <2>1
    <3> HIDE DEF kept
    <3> QED
      BY <1>1, <3>1, GreatestIsMax
  <2>4. kept # {}
    <3>1. 1 \in 1..Len(s)
      BY <2>1
    <3> HIDE DEF kept
    <3> QED
      BY <1>1, <3>1
  <2>5. SubSeq(s, 1, Len(s)) = s
    BY <2>1, WholeSlice
  <2>6. Strip(s) = IF kept = {} THEN <<>> ELSE SubSeq(s, Min(kept), Max(kept))
    BY DEF Strip
  <2> HIDE DEF kept
  <2> QED
    BY <2>2, <2>3, <2>4, <2>5, <2>6
<1> QED
  BY <1>2, <1>3

(* int() of digits alone is the number they spell.                         *)
LEMMA IntOfDigits ==
    ASSUME NEW s \in Seq(Ten), s # <<>>
    PROVE  PyInt(s) = {Number(s)}
<1>1. \A k \in 1..Len(s) : s[k] \in Ten
  OBVIOUS
<1>2. "space" \notin Ten
  BY DEF Ten
<1>3. Strip(s) = s
  BY <1>2, StripKeeps
<1>4. Head(s) \notin {"+", "-"}
  <2>1. Head(s) \in Ten
    OBVIOUS
  <2> QED
    BY <2>1 DEF Ten
<1>5. \A k \in DOMAIN s : IsDigit(s[k])
  BY <1>1, DigitFacts
<1> QED
  BY <1>3, <1>4, <1>5, Zenon DEF PyInt

(* int(str(n)) = n.                                                        *)
LEMMA IntOfDecimal ==
    ASSUME NEW n \in Nat
    PROVE  PyInt(Decimal(n)) = {n}
BY DecimalFacts, IntOfDigits DEF IsNumeral

(* Unquoting undoes quoting, and what is quoted holds no ampersand.        *)
LEMMA EscapesDiffer ==
    /\ \A e, f \in Escapes : (f[1] = e[1] \/ f[2] = e[2]) => f = e
    /\ \A e \in Escapes : e[2] # "+" /\ e[2] # "&" /\ e[2] \notin Ten
<1>1. \A e \in Escapes :
         /\ \/ (e[1] = "space" /\ e[2] = "%20") \/ (e[1] = "%" /\ e[2] = "%25")
            \/ (e[1] = "&" /\ e[2] = "%26") \/ (e[1] = "+" /\ e[2] = "%2B")
            \/ (e[1] = "=" /\ e[2] = "%3D")
         /\ e = <<e[1], e[2]>>
  <2> TAKE e \in Escapes
  <2>1. CASE e = <<"space", "%20">>
    BY <2>1
  <2>2. CASE e = <<"%", "%25">>
    BY <2>2
  <2>3. CASE e = <<"&", "%26">>
    BY <2>3
  <2>4. CASE e = <<"+", "%2B">>
    BY <2>4
  <2>5. CASE e = <<"=", "%3D">>
    BY <2>5
  <2> QED
    BY <2>1, <2>2, <2>3, <2>4, <2>5 DEF Escapes
<1>2. \A e \in Escapes : e[2] # "+" /\ e[2] # "&" /\ e[2] \notin Ten
  BY <1>1 DEF Ten
<1>3. ASSUME NEW e \in Escapes, NEW f \in Escapes, f[1] = e[1] \/ f[2] = e[2]
      PROVE  f = e
  <2>1. f[1] = e[1] /\ f[2] = e[2]
    BY <1>1, <1>3
  <2>2. PICK c, d : c = e[1] /\ d = e[2]
    OBVIOUS
  <2>3. e = <<c, d>> /\ f = <<c, d>>
    BY <1>1, <2>1, <2>2, Zenon
  <2> QED
    BY <2>3
<1> QED
  BY <1>2, <1>3

(* unquote undoes quote on every byte, and a quoted byte is never the      *)
(* separator.                                                              *)
LEMMA UnquoteByteInverts ==
    ASSUME NEW c \in Range(Symbols)
    PROVE  UnquoteByte(QuoteByte(c)) = c /\ QuoteByte(c) # "&"
<1>1. \A e \in Escapes : e[2] \notin Range(Symbols)
  BY RequestsAreLegal
<1>2. CASE \E e \in Escapes : e[1] = c
  <2>1. PICK e \in Escapes : e[1] = c
    BY <1>2
  <2>2. \A f \in Escapes : (f[1] = e[1] \/ f[2] = e[2]) => f = e
    BY EscapesDiffer
  <2>3. QuoteByte(c) = e[2]
    BY <1>2, <2>1, <2>2 DEF QuoteByte
  <2>4. e[2] # "+" /\ e[2] # "&"
    BY EscapesDiffer
  <2>5. UnquoteByte(e[2]) = e[1]
    BY <2>2, <2>4 DEF UnquoteByte
  <2> QED
    BY <2>1, <2>3, <2>4, <2>5
<1>3. CASE ~\E e \in Escapes : e[1] = c
  <2>1. QuoteByte(c) = c
    BY <1>3, Zenon DEF QuoteByte
  <2>2. c # "+" /\ c # "&"
    BY <1>3 DEF Escapes
  <2>3. ~\E e \in Escapes : e[2] = c
    BY <1>1
  <2>4. UnquoteByte(c) = c
    BY <2>2, <2>3, Zenon DEF UnquoteByte
  <2> QED
    BY <2>1, <2>2, <2>4
<1> QED
  BY <1>2, <1>3

(* unquote(quote(s)) = s, and no ampersand is left in a quoted text.       *)
LEMMA UnquoteInverts ==
    ASSUME NEW s \in Texts
    PROVE  /\ Unquote(Quote(s)) = s
           /\ Len(Quote(s)) = Len(s)
           /\ \A k \in 1..Len(s) : Quote(s)[k] # "&" /\ Quote(s)[k] = QuoteByte(s[k])
<1>1. Len(s) \in Nat /\ \A k \in 1..Len(s) : s[k] \in Range(Symbols)
  BY DEF Texts
<1>2. \A k \in 1..Len(s) : UnquoteByte(QuoteByte(s[k])) = s[k] /\ QuoteByte(s[k]) # "&"
  BY <1>1, UnquoteByteInverts
<1>3. Quote(s) = [k \in 1..Len(s) |-> QuoteByte(s[k])] /\ Len(Quote(s)) = Len(s)
  BY <1>1 DEF Quote
<1>4. Unquote(Quote(s)) = [k \in 1..Len(s) |-> UnquoteByte(QuoteByte(s[k]))]
  BY <1>3 DEF Unquote
<1>5. s = [k \in 1..Len(s) |-> s[k]]
  BY DEF Texts
<1> QED
  BY <1>2, <1>3, <1>4, <1>5

(* What has no escape and no plus sign is left as it is.                   *)
LEMMA UnquoteKeeps ==
    ASSUME NEW S, NEW s \in Seq(S), \A k \in 1..Len(s) : UnquoteByte(s[k]) = s[k]
    PROVE  Unquote(s) = s
<1>1. s = [k \in 1..Len(s) |-> s[k]]
  OBVIOUS
<1> QED
  BY <1>1 DEF Unquote

(* unquote leaves digits as they are.                                      *)
LEMMA DigitsStay ==
    ASSUME NEW s \in Seq(Ten)
    PROVE  Unquote(s) = s
<1>1. \A c \in Ten : UnquoteByte(c) = c
  <2> TAKE c \in Ten
  <2>1. c # "+"
    BY DEF Ten
  <2>2. ~\E e \in Escapes : e[2] = c
    BY EscapesDiffer
  <2> QED
    BY <2>1, <2>2, Zenon DEF UnquoteByte
<1>2. \A k \in 1..Len(s) : s[k] \in Ten
  OBVIOUS
<1> QED
  BY <1>1, <1>2, UnquoteKeeps

-----------------------------------------------------------------------------
(* A query is the fields it was built from, cut at the ampersands.         *)
Part(fields, i) == <<fields[i][1], "=">> \o fields[i][2]

(* What FlattenSeq joins: the fields, each but the first after an          *)
(* ampersand.                                                              *)
Pieces(fields) ==
    [i \in 1..Len(fields) |->
        (IF i = 1 THEN <<>> ELSE <<"&">>) \o <<fields[i][1], "=">> \o fields[i][2]]

(* Names without ampersands and equality signs, values without ampersands. *)
AreFields(S, fields) ==
    /\ fields \in Seq(S \X Seq(S)) /\ fields # <<>>
    /\ {"&", "="} \subseteq S
    /\ \A i \in 1..Len(fields) :
          /\ fields[i][1] \notin {"&", "="}
          /\ \A k \in 1..Len(fields[i][2]) : fields[i][2][k] # "&"

(* How many symbols the ampersand before the i-th field takes.             *)
Lead(i) == IF i = 1 THEN 0 ELSE 1

(* A field in the query: its name, the sign, and its value.                *)
LEMMA PieceFacts ==
    ASSUME NEW S, NEW fields, AreFields(S, fields), NEW i \in 1..Len(fields)
    PROVE  /\ Part(fields, i) \in Seq(S)
           /\ Len(fields[i][2]) \in Nat
           /\ Len(Part(fields, i)) = Len(fields[i][2]) + 2
           /\ Part(fields, i)[1] = fields[i][1] /\ Part(fields, i)[2] = "="
           /\ \A k \in 1..Len(fields[i][2]) : Part(fields, i)[k + 2] = fields[i][2][k]
           /\ \A k \in 1..Len(Part(fields, i)) : Part(fields, i)[k] # "&"
           /\ Pieces(fields)[i] \in Seq(S)
           /\ Len(Pieces(fields)[i]) = Lead(i) + Len(fields[i][2]) + 2
           /\ \A k \in 1..Len(Part(fields, i)) : Pieces(fields)[i][Lead(i) + k] = Part(fields, i)[k]
           /\ i # 1 => Pieces(fields)[i][1] = "&"
<1>1. PICK name \in S, value \in Seq(S) : name = fields[i][1] /\ value = fields[i][2]
  BY DEF AreFields
<1>2. /\ name # "&" /\ name # "=" /\ "&" \in S /\ "=" \in S
      /\ \A k \in 1..Len(value) : value[k] # "&"
  BY <1>1 DEF AreFields
<1>3. PICK part \in Seq(S) : part = <<name, "=">> \o value
  <2>1. <<name, "=">> \in Seq(S)
    BY <1>2
  <2>2. <<name, "=">> \o value \in Seq(S)
    BY <2>1
  <2> QED
    BY <2>2
<1>4. /\ Len(value) \in Nat /\ Len(part) = Len(value) + 2 /\ part[1] = name /\ part[2] = "="
      /\ \A k \in 1..Len(value) : part[k + 2] = value[k]
  BY <1>2, <1>3
<1>5. \A k \in 1..Len(part) : part[k] # "&"
  <2> TAKE k \in 1..Len(part)
  <2>1. CASE k = 1
    BY <1>2, <1>4, <2>1
  <2>2. CASE k = 2
    BY <1>4, <2>2
  <2>3. CASE k > 2
    <3>1. PICK j \in 1..Len(value) : k = j + 2
      <4>1. k - 2 \in 1..Len(value) /\ k = (k - 2) + 2
        BY <1>4, <2>3
      <4> QED
        BY <4>1
    <3> QED
      BY <1>2, <1>4, <3>1
  <2> QED
    BY <1>4, <2>1, <2>2, <2>3
<1>6. Pieces(fields)[i] = (IF i = 1 THEN <<>> ELSE <<"&">>) \o <<name, "=">> \o value
  BY <1>1 DEF Pieces
<1>7. Part(fields, i) = part
  BY <1>1, <1>3 DEF Part
<1>8. CASE i = 1
  <2>1. <<>> \o <<name, "=">> = <<name, "=">>
    BY <1>2
  <2>2. Pieces(fields)[i] = part
    BY <1>3, <1>6, <1>8, <2>1, Zenon
  <2> QED
    BY <1>1, <1>4, <1>5, <1>7, <1>8, <2>2 DEF Lead
<1>9. CASE i # 1
  <2>1. (<<"&">> \o <<name, "=">>) \o value = <<"&">> \o (<<name, "=">> \o value)
    BY <1>2
  <2>2. Pieces(fields)[i] = <<"&">> \o part
    BY <1>3, <1>6, <1>9, <2>1, Zenon
  <2>3. /\ <<"&">> \o part \in Seq(S) /\ Len(<<"&">> \o part) = Len(part) + 1
        /\ (<<"&">> \o part)[1] = "&" /\ \A k \in 1..Len(part) : (<<"&">> \o part)[1 + k] = part[k]
    BY <1>2
  <2> QED
    BY <1>1, <1>4, <1>5, <1>7, <1>9, <2>2, <2>3 DEF Lead
<1> QED
  BY <1>8, <1>9

(* Where each part of the query begins and ends.                           *)
AreCuts(cut, fields, q) ==
    /\ cut \in [0..Len(fields) -> Nat]
    /\ cut[0] = 0 /\ cut[Len(fields)] = Len(q) + 1
    /\ \A i \in 1..Len(fields) :
          /\ cut[i] = cut[i - 1] + Len(fields[i][2]) + 3
          /\ \A k \in 1..(Len(fields[i][2]) + 2) : q[cut[i - 1] + k] = Part(fields, i)[k]
    /\ \A i \in 1..(Len(fields) - 1) : q[cut[i]] = "&"

(* The fields one after the other make a text over the same symbols, with  *)
(* a cut after each field.                                                 *)
LEMMA CutsExist ==
    ASSUME NEW S, NEW fields, AreFields(S, fields)
    PROVE  /\ FlattenSeq(Pieces(fields)) \in Seq(S)
           /\ \E cut : AreCuts(cut, fields, FlattenSeq(Pieces(fields)))
<1> DEFINE q == FlattenSeq(Pieces(fields))
           P == Pieces(fields)
           sum == RunningSum(Lengths(P))
           cut == [i \in 0..Len(fields) |-> IF i = 0 THEN 0 ELSE sum[i] + 1]
<1>1. Len(fields) \in Nat \ {0}
  BY EmptySeq DEF AreFields
<1>2. P \in Seq(Seq(S)) /\ Len(P) = Len(fields)
  <2>1. \A i \in 1..Len(fields) : P[i] \in Seq(S)
    BY PieceFacts
  <2>2. P = [i \in 1..Len(fields) |-> P[i]]
    BY DEF Pieces
  <2> HIDE DEF P
  <2> QED
    BY <1>1, <2>1, <2>2
<1>3. q \in Seq(S) /\ Flattens(q, P, Len(P))
  BY <1>2, FlattenFacts
<1>4. /\ sum[0] = 0
      /\ \A i \in 1..Len(fields) : sum[i] = sum[i - 1] + Len(P[i])
      /\ \A i \in 0..Len(fields) : sum[i] \in Nat
  BY <1>2, LengthsFacts
<1>5. Len(q) = sum[Len(fields)]
      /\ \A m \in 1..Len(fields) : \A k \in 1..Len(P[m]) : q[sum[m - 1] + k] = P[m][k]
  BY <1>2, <1>3 DEF Flattens
<1> HIDE DEF q, P, sum
<1>6. /\ cut[0] = 0 /\ \A i \in 1..Len(fields) : cut[i] = sum[i] + 1
      /\ cut \in [0..Len(fields) -> Nat]
  BY <1>1, <1>4
<1> HIDE DEF cut
<1>7. \A i \in 1..Len(fields) : cut[i - 1] = sum[i - 1] + Lead(i)
  <2> TAKE i \in 1..Len(fields)
  <2>1. CASE i = 1
    BY <1>4, <1>6, <2>1 DEF Lead
  <2>2. CASE i # 1
    <3>1. i - 1 \in 1..Len(fields)
      BY <1>1, <2>2
    <3> QED
      BY <1>6, <2>2, <3>1 DEF Lead
  <2> QED
    BY <2>1, <2>2
<1>8. ASSUME NEW i \in 1..Len(fields)
      PROVE  /\ cut[i] = cut[i - 1] + Len(fields[i][2]) + 3
             /\ \A k \in 1..(Len(fields[i][2]) + 2) : q[cut[i - 1] + k] = Part(fields, i)[k]
             /\ i # 1 => q[cut[i - 1]] = "&"
  <2>0. PICK lead \in 0..1 : lead = Lead(i) /\ (i # 1 => lead = 1)
    BY DEF Lead
  <2>1. PICK len \in Nat : len = Len(fields[i][2])
    BY PieceFacts
  <2>8. /\ Len(Part(fields, i)) = len + 2 /\ Len(P[i]) = lead + len + 2
        /\ \A k \in 1..Len(Part(fields, i)) : P[i][lead + k] = Part(fields, i)[k]
        /\ i # 1 => P[i][1] = "&"
    BY <2>0, <2>1, PieceFacts DEF P
  <2>2. PICK a \in Nat : a = sum[i - 1] /\ sum[i] = a + Len(P[i])
    <3>1. i - 1 \in 0..Len(fields)
      BY <1>1
    <3> QED
      BY <1>4, <3>1
  <2>3. cut[i] = a + lead + len + 3 /\ cut[i - 1] = a + lead
    <3>1. cut[i] = sum[i] + 1 /\ sum[i] = a + (lead + len + 2)
      BY <1>6, <2>2, <2>8
    <3>2. cut[i - 1] = a + lead
      BY <1>7, <2>0, <2>2
    <3> QED
      BY <3>1, <3>2
  <2>4. \A k \in 1..Len(P[i]) : q[a + k] = P[i][k]
    BY <1>5, <2>2
  <2>5. ASSUME NEW k \in 1..(len + 2)
        PROVE  q[cut[i - 1] + k] = Part(fields, i)[k]
    <3>1. /\ lead + k \in 1..Len(P[i])
          /\ cut[i - 1] + k = a + (lead + k)
      <4>1. k \in Nat /\ 1 <= k /\ k <= len + 2
        OBVIOUS
      <4>2. lead + k \in 1..(lead + len + 2)
        BY <4>1
      <4>3. cut[i - 1] + k = a + (lead + k)
        BY <2>3, <4>1
      <4> QED
        BY <2>8, <4>2, <4>3, Zenon
    <3>2. q[a + (lead + k)] = P[i][lead + k]
      BY <2>4, <3>1
    <3> QED
      BY <2>8, <3>1, <3>2
  <2>6. i # 1 => q[cut[i - 1]] = "&"
    <3>1. i # 1 => 1 \in 1..Len(P[i]) /\ cut[i - 1] = a + 1
      BY <2>0, <2>3, <2>8
    <3> QED
      BY <2>4, <2>8, <3>1
  <2>7. cut[i] = cut[i - 1] + len + 3
    BY <2>3
  <2> QED
    BY <2>1, <2>5, <2>6, <2>7
<1>9. ASSUME NEW i \in 1..(Len(fields) - 1)
      PROVE  q[cut[i]] = "&"
  <2>1. i + 1 \in 1..Len(fields) /\ i + 1 # 1 /\ (i + 1) - 1 = i
    BY <1>1
  <2> QED
    BY <1>8, <2>1
<1>10. cut[Len(fields)] = Len(q) + 1
  BY <1>1, <1>5, <1>6
<1>11. AreCuts(cut, fields, q)
  BY <1>6, <1>8, <1>9, <1>10 DEF AreCuts
<1> QED
  BY <1>3, <1>11 DEF q, P

(* The cuts come in the fields' order, and a field lies between two of     *)
(* them.                                                                   *)
LEMMA CutsIncrease ==
    ASSUME NEW S, NEW fields, AreFields(S, fields), NEW q, NEW cut, AreCuts(cut, fields, q),
           NEW i \in 0..Len(fields), NEW j \in 0..Len(fields), i < j
    PROVE  cut[i] + 2 < cut[j]
<1> DEFINE T == {k \in 0..Len(fields) : i < k => cut[i] + 2 < cut[k]}
<1>0. Len(fields) \in Nat \ {0} /\ cut \in [0..Len(fields) -> Nat]
  BY EmptySeq DEF AreFields, AreCuts
<1>1. 0 \in T
  BY <1>0
<1>2. ASSUME NEW k \in 1..Len(fields), k - 1 \in T
      PROVE  k \in T
  <2>1. k - 1 \in 0..Len(fields) /\ k \in 0..Len(fields)
    BY <1>0
  <2>2. PICK len \in Nat : cut[k] = cut[k - 1] + len + 3
    <3>1. Len(fields[k][2]) \in Nat
      BY PieceFacts
    <3>2. cut[k] = cut[k - 1] + Len(fields[k][2]) + 3
      BY DEF AreCuts
    <3> QED
      BY <3>1, <3>2
  <2>3. PICK a \in Nat, b \in Nat, c \in Nat : a = cut[k - 1] /\ b = cut[k] /\ c = cut[i]
    BY <1>0, <2>1
  <2>4. i < k - 1 => c + 2 < a
    BY <1>2, <2>3
  <2>5. i = k - 1 => c = a
    BY <2>3
  <2>6. i < k => i < k - 1 \/ i = k - 1
    BY <1>0
  <2>7. b = a + len + 3
    BY <2>2, <2>3
  <2>8. i < k => c + 2 < b
    BY <2>4, <2>5, <2>6, <2>7
  <2> QED
    BY <2>1, <2>3, <2>8
<1> HIDE DEF T
<1>3. 0..Len(fields) \subseteq T
  BY <1>0, <1>1, <1>2, Induction
<1> QED
  BY <1>3 DEF T

(* The separators split a query exactly at the cuts.                       *)
LEMMA CutsOfQuery ==
    ASSUME NEW S, NEW fields, AreFields(S, fields), NEW q \in Seq(S),
           NEW cut, AreCuts(cut, fields, q)
    PROVE  Cuts(q) = {cut[i] : i \in 0..Len(fields)}
<1>0. /\ Len(fields) \in Nat \ {0} /\ cut \in [0..Len(fields) -> Nat] /\ Len(q) \in Nat
      /\ cut[0] = 0 /\ cut[Len(fields)] = Len(q) + 1
  BY EmptySeq DEF AreFields, AreCuts
<1>1. ASSUME NEW i \in 0..Len(fields)
      PROVE  cut[i] \in Cuts(q)
  <2>1. CASE i = 0
    BY <1>0, <2>1 DEF Cuts
  <2>2. CASE i = Len(fields)
    BY <1>0, <2>2 DEF Cuts
  <2>3. CASE i # 0 /\ i # Len(fields)
    <3>1. i \in 1..(Len(fields) - 1) /\ 0 \in 0..Len(fields) /\ Len(fields) \in 0..Len(fields)
      BY <1>0, <2>3
    <3>2. q[cut[i]] = "&"
      BY <3>1 DEF AreCuts
    <3>3. cut[0] + 2 < cut[i] /\ cut[i] + 2 < cut[Len(fields)]
      BY <1>0, <3>1, CutsIncrease
    <3>4. PICK a \in Nat : a = cut[i]
      BY <1>0
    <3>5. a \in 1..Len(q)
      BY <1>0, <3>3, <3>4
    <3> QED
      BY <3>2, <3>4, <3>5 DEF Cuts
  <2> QED
    BY <2>1, <2>2, <2>3
<1>2. ASSUME NEW k \in 1..Len(q), q[k] = "&"
      PROVE  \E i \in 0..Len(fields) : k = cut[i]
  <2> DEFINE after == {i \in 0..Len(fields) : k < cut[i]}
  <2>1. PICK i \in after : \A j \in after : i <= j
    <3>1. Len(fields) \in after
      BY <1>0
    <3>2. after \in SUBSET Nat /\ after # {}
      BY <3>1
    <3> HIDE DEF after
    <3> QED
      BY <3>2, LeastNumber
  <2>2. i \in 1..Len(fields) /\ i - 1 \in 0..Len(fields) /\ i - 1 \notin after
    BY <1>0, <2>1
  <2>3. PICK a \in Nat, b \in Nat : a = cut[i - 1] /\ b = cut[i]
    BY <1>0, <2>2
  <2>4. a <= k /\ k < b
    BY <2>1, <2>2, <2>3
  <2>5. PICK len \in Nat : len = Len(fields[i][2]) /\ Len(Part(fields, i)) = len + 2
    BY <2>2, PieceFacts
  <2>6. b = a + len + 3 /\ \A j \in 1..(len + 2) : q[a + j] = Part(fields, i)[j]
    BY <2>2, <2>3, <2>5 DEF AreCuts
  <2>7. ASSUME a # k
        PROVE  FALSE
    <3>1. PICK j \in 1..(len + 2) : k = a + j
      <4>1. k - a \in 1..(len + 2) /\ k = a + (k - a)
        BY <2>4, <2>6, <2>7
      <4> QED
        BY <4>1
    <3>2. Part(fields, i)[j] = "&"
      BY <1>2, <2>6, <3>1
    <3>3. Part(fields, i)[j] # "&"
      BY <2>2, <2>5, <3>1, PieceFacts
    <3> QED
      BY <3>2, <3>3
  <2> QED
    BY <2>2, <2>3, <2>7
<1>3. 0 \in 0..Len(fields) /\ Len(fields) \in 0..Len(fields)
  BY <1>0
<1>4. \A k : k \in Cuts(q) <=> k = 0 \/ k = Len(q) + 1 \/ (k \in 1..Len(q) /\ q[k] = "&")
  BY DEF Cuts
<1>5. \A k \in Cuts(q) : \E i \in 0..Len(fields) : k = cut[i]
  BY <1>0, <1>2, <1>3, <1>4, Zenon
<1> QED
  BY <1>1, <1>5

(* The components of a query are its fields.                               *)
LEMMA QueryComponents ==
    ASSUME NEW S, NEW fields, AreFields(S, fields), NEW q \in Seq(S),
           NEW cut, AreCuts(cut, fields, q)
    PROVE  /\ Components(q) = {<<cut[i - 1], cut[i]>> : i \in 1..Len(fields)}
           /\ \A i \in 1..Len(fields) : Component(q, <<cut[i - 1], cut[i]>>) = Part(fields, i)
<1> DEFINE n == Len(fields)
<1>0. /\ n \in Nat \ {0} /\ cut \in [0..n -> Nat]
      /\ cut[0] = 0 /\ cut[n] = Len(q) + 1
  BY EmptySeq DEF AreFields, AreCuts
<1>1. Cuts(q) = {cut[i] : i \in 0..n}
  BY CutsOfQuery
<1>2. \A i, j \in 0..n : i < j => cut[i] + 2 < cut[j]
  BY CutsIncrease
<1> HIDE DEF n
<1>3. ASSUME NEW c \in Components(q)
      PROVE  \E i \in 1..n : c = <<cut[i - 1], cut[i]>>
  <2>1. PICK a \in 0..n, b \in 0..n : c = <<cut[a], cut[b]>>
    BY <1>1 DEF Components
  <2>2. PICK x \in Nat, y \in Nat : x = cut[a] /\ y = cut[b]
    BY <1>0
  <2>3. c[1] = x /\ c[2] = y
    BY <2>1, <2>2
  <2>4. x + 1 < y /\ \A k \in (x + 1)..(y - 1) : k \notin Cuts(q)
    BY <2>3 DEF Components
  <2>5. a < b
    <3>1. b < a => y + 2 < x
      BY <1>2, <2>2
    <3>2. a = b => x = y
      BY <2>2
    <3> QED
      BY <1>0, <2>4, <3>1, <3>2
  <2>6. a + 1 = b
    <3> SUFFICES ASSUME a + 1 < b
                 PROVE  FALSE
      BY <1>0, <2>5
    <3>1. a + 1 \in 0..n
      BY <1>0
    <3>2. PICK z \in Nat : z = cut[a + 1]
      BY <1>0, <3>1
    <3>3. x + 2 < z
      BY <1>2, <2>2, <3>1, <3>2
    <3>4. z + 2 < y
      BY <1>2, <2>2, <3>1, <3>2
    <3>5. z \in (x + 1)..(y - 1)
      BY <3>3, <3>4
    <3>6. z \in Cuts(q)
      BY <1>1, <3>1, <3>2
    <3> QED
      BY <2>4, <3>5, <3>6
  <2>7. b \in 1..n /\ b - 1 = a
    BY <1>0, <2>6
  <2> QED
    BY <2>1, <2>7
<1>4. ASSUME NEW i \in 1..n
      PROVE  <<cut[i - 1], cut[i]>> \in Components(q)
  <2>1. i - 1 \in 0..n /\ i \in 0..n /\ i - 1 < i
    BY <1>0
  <2>2. PICK x \in Nat, y \in Nat : x = cut[i - 1] /\ y = cut[i]
    BY <1>0, <2>1
  <2>3. x + 2 < y
    BY <1>2, <2>1, <2>2
  <2>4. ASSUME NEW k \in (x + 1)..(y - 1)
        PROVE  k \notin Cuts(q)
    <3> SUFFICES ASSUME NEW j \in 0..n, k = cut[j]
                 PROVE  FALSE
      BY <1>1
    <3>1. j < i - 1 => cut[j] + 2 < cut[i - 1]
      BY <1>2, <2>1
    <3>2. i < j => cut[i] + 2 < cut[j]
      BY <1>2, <2>1
    <3>3. k \in Nat /\ x < k /\ k < y
      OBVIOUS
    <3>4. PICK z \in Nat : z = cut[j] /\ z = k
      BY <1>0
    <3>5. ~(j < i - 1) /\ ~(i < j)
      BY <2>2, <3>1, <3>2, <3>3, <3>4
    <3>6. j # i - 1 /\ j # i
      BY <2>2, <3>3, <3>4
    <3> QED
      BY <1>0, <3>5, <3>6
  <2>5. x \in Cuts(q) /\ y \in Cuts(q)
    BY <1>1, <2>1, <2>2
  <2>6. \A c : c \in Components(q) <=>
               /\ c \in Cuts(q) \X Cuts(q)
               /\ c[1] + 1 < c[2] /\ \A k \in (c[1] + 1)..(c[2] - 1) : k \notin Cuts(q)
    BY DEF Components
  <2>7. <<x, y>> \in Cuts(q) \X Cuts(q) /\ <<x, y>>[1] = x /\ <<x, y>>[2] = y
    BY <2>5
  <2>8. x + 1 < y
    BY <2>3
  <2>9. <<x, y>> \in Components(q)
    BY <2>4, <2>6, <2>7, <2>8, Zenon
  <2> QED
    BY <2>2, <2>9
<1>5. ASSUME NEW i \in 1..n
      PROVE  Component(q, <<cut[i - 1], cut[i]>>) = Part(fields, i)
  <2>1. i - 1 \in 0..n /\ i \in 0..n /\ n \in 0..n
    BY <1>0
  <2>2. PICK x \in Nat, y \in Nat : x = cut[i - 1] /\ y = cut[i]
    BY <1>0, <2>1
  <2>3. PICK part \in Seq(S) : part = Part(fields, i)
    BY PieceFacts DEF n
  <2>4. PICK len \in Nat : len = Len(fields[i][2]) /\ Len(part) = len + 2
    BY <2>3, PieceFacts DEF n
  <2>5. y = x + len + 3 /\ \A k \in 1..(len + 2) : q[x + k] = part[k]
    BY <2>2, <2>3, <2>4 DEF AreCuts, n
  <2>6. y <= Len(q) + 1
    <3>1. i < n => cut[i] + 2 < cut[n]
      BY <1>2, <2>1
    <3>2. i = n => cut[i] = cut[n]
      OBVIOUS
    <3> QED
      BY <1>0, <2>2, <3>1, <3>2
  <2>7. /\ SubSeq(q, x + 1, y - 1) \in Seq(S)
        /\ Len(SubSeq(q, x + 1, y - 1)) = (y - 1) - (x + 1) + 1
        /\ \A k \in 1..((y - 1) - (x + 1) + 1) : SubSeq(q, x + 1, y - 1)[k] = q[(x + 1) + k - 1]
    <3>1. x + 1 \in Nat /\ y - 1 \in Nat /\ 1 <= x + 1 /\ x + 1 <= (y - 1) + 1 /\ y - 1 <= Len(q)
      BY <2>5, <2>6
    <3> QED
      BY <3>1, SubSeqFacts
  <2>8. PICK t \in Seq(S) : t = SubSeq(q, x + 1, y - 1)
    BY <2>7
  <2>9. Len(t) = Len(part) /\ \A k \in 1..(len + 2) : t[k] = q[x + k]
    <3>1. (y - 1) - (x + 1) + 1 = len + 2 /\ \A k \in 1..(len + 2) : (x + 1) + k - 1 = x + k
      BY <2>5
    <3> QED
      BY <2>4, <2>7, <2>8, <3>1
  <2>10. t = part
    BY <2>4, <2>5, <2>9
  <2> QED
    BY <2>2, <2>3, <2>8, <2>10 DEF Component
<1> QED
  BY <1>3, <1>4, <1>5 DEF n

(* A component is taken apart into the name and the value it was made of.  *)
LEMMA PartParses ==
    ASSUME NEW S, NEW fields, AreFields(S, fields), NEW i \in 1..Len(fields)
    PROVE  /\ HasSign(Part(fields, i))
           /\ NameOf(Part(fields, i)) = <<UnquoteByte(fields[i][1])>>
           /\ ValueOf(Part(fields, i)) = Unquote(fields[i][2])
<1>1. PICK value \in Seq(S) : value = fields[i][2]
  BY DEF AreFields
<1>2. PICK part \in Seq(S) : part = Part(fields, i)
  BY PieceFacts
<1>3. /\ Len(value) \in Nat /\ Len(part) = Len(value) + 2
      /\ part[1] = fields[i][1] /\ part[2] = "=" /\ part[1] # "="
      /\ \A k \in 1..Len(value) : part[k + 2] = value[k]
  <2>1. fields[i][1] # "="
    BY DEF AreFields
  <2> QED
    BY <1>1, <1>2, <2>1, PieceFacts
<1> DEFINE found == {k \in 1..Len(part) : part[k] = "="}
<1>4. Min(found) = 2 /\ found # {}
  <2>1. 2 \in found /\ found \subseteq Int
    BY <1>3
  <2>2. \A y \in found : 2 <= y
    BY <1>3
  <2> HIDE DEF found
  <2> QED
    BY <2>1, <2>2, LeastIsMin
<1>5. Find(part, "=", 1) = {2}
  <2>1. Find(part, "=", 1) = IF found = {} THEN {} ELSE {Min(found)}
    BY DEF Find
  <2> HIDE DEF found
  <2> QED
    BY <1>4, <2>1
<1>6. Min({2}) = 2
  BY MinOfOne
<1>7. NameOf(part) = Unquote(SubSeq(part, 1, 1))
  <2>1. 2 - 1 = 1
    OBVIOUS
  <2> QED
    BY <1>5, <1>6, <2>1, Zenon DEF NameOf
<1>8. SubSeq(part, 1, 1) = <<part[1]>>
  <2>1. /\ SubSeq(part, 1, 1) \in Seq(S) /\ Len(SubSeq(part, 1, 1)) = 1 - 1 + 1
        /\ \A k \in 1..(1 - 1 + 1) : SubSeq(part, 1, 1)[k] = part[1 + k - 1]
    <3>1. 1 \in Nat /\ 1 <= 1 /\ 1 <= 1 + 1 /\ 1 <= Len(part)
      BY <1>3
    <3> QED
      BY <3>1, SubSeqFacts
  <2>2. PICK t \in Seq(S) : t = SubSeq(part, 1, 1)
    BY <2>1
  <2>3. Len(t) = 1 /\ t[1] = part[1]
    BY <2>1, <2>2
  <2>4. t = <<t[1]>>
    BY <2>3
  <2> QED
    BY <2>2, <2>3, <2>4
<1>9. Unquote(<<part[1]>>) = <<UnquoteByte(part[1])>>
  BY DEF Unquote
<1>10. ValueOf(part) = Unquote(SubSeq(part, 3, Len(part)))
  <2>1. 2 + 1 = 3
    OBVIOUS
  <2> QED
    BY <1>5, <1>6, <2>1, Zenon DEF ValueOf
<1>11. SubSeq(part, 3, Len(part)) = value
  <2>1. PICK len \in Nat : len = Len(value) /\ Len(part) = len + 2
    BY <1>3
  <2>2. /\ SubSeq(part, 3, len + 2) \in Seq(S) /\ Len(SubSeq(part, 3, len + 2)) = (len + 2) - 3 + 1
        /\ \A k \in 1..((len + 2) - 3 + 1) : SubSeq(part, 3, len + 2)[k] = part[3 + k - 1]
    <3>1. 3 \in Nat /\ len + 2 \in Nat /\ 1 <= 3 /\ 3 <= (len + 2) + 1 /\ len + 2 <= Len(part)
      BY <2>1
    <3> QED
      BY <3>1, SubSeqFacts
  <2>3. PICK t \in Seq(S) : t = SubSeq(part, 3, len + 2)
    BY <2>2
  <2>4. (len + 2) - 3 + 1 = len /\ \A k \in 1..len : 3 + k - 1 = k + 2
    BY <2>1
  <2>5. Len(t) = len /\ \A k \in 1..len : t[k] = part[k + 2]
    BY <2>2, <2>3, <2>4
  <2>6. value \in Seq(S) /\ \A k \in 1..len : value[k] = part[k + 2]
    BY <1>3, <2>1
  <2>7. \A k \in 1..len : t[k] = value[k]
    BY <2>5, <2>6
  <2>8. t = value
    BY ONLY t \in Seq(S), len \in Nat, <2>1, <2>5, <2>6, <2>7, SeqsEqual
  <2> QED
    BY <2>1, <2>3, <2>8
<1> QED
  BY <1>1, <1>2, <1>3, <1>5, <1>7, <1>8, <1>9, <1>10, <1>11, Zenon DEF HasSign

(* parse_qsl: no two parameters of one name, and each has its value.       *)
Key(fields, i) == <<UnquoteByte(fields[i][1])>>

(* No two fields have the same name.                                       *)
AllDiffer(fields) ==
    \A i, j \in 1..Len(fields) : Key(fields, i) = Key(fields, j) => i = j

(* Fields with different names are all there is to a query, and fields of  *)
(* one name make it illegal.                                               *)
LEMMA ParametersOfFields ==
    ASSUME NEW S, NEW fields, AreFields(S, fields)
    PROVE  /\ ~AllDiffer(fields) => Parameters(FlattenSeq(Pieces(fields))) = {}
           /\ AllDiffer(fields) =>
                 \E p : /\ Parameters(FlattenSeq(Pieces(fields))) = {p}
                        /\ DOMAIN p = {Key(fields, i) : i \in 1..Len(fields)}
                        /\ \A i \in 1..Len(fields) : p[Key(fields, i)] = Unquote(fields[i][2])
<1> DEFINE q == FlattenSeq(Pieces(fields))
           n == Len(fields)
           parts == Components(q)
           Name(c) == NameOf(Component(q, c))
           Value(c) == ValueOf(Component(q, c))
<1>1. q \in Seq(S) /\ n \in Nat \ {0}
  BY CutsExist, EmptySeq DEF AreFields
<1>2. PICK cut : AreCuts(cut, fields, q)
  BY CutsExist
<1> HIDE DEF q
<1> DEFINE At(i) == <<cut[i - 1], cut[i]>>
<1>3. parts = {At(i) : i \in 1..n} /\ \A i \in 1..n : Component(q, At(i)) = Part(fields, i)
  BY <1>1, <1>2, QueryComponents
<1>4. \A i, j \in 1..n : At(i) = At(j) => i = j
  <2> TAKE i, j \in 1..n
  <2>1. i \in 0..n /\ j \in 0..n
    BY <1>1
  <2>2. cut[i] \in Nat /\ cut[j] \in Nat
    BY <2>1, <1>2 DEF AreCuts
  <2>3. (i < j => cut[i] + 2 < cut[j]) /\ (j < i => cut[j] + 2 < cut[i])
    BY <2>1, <1>2, CutsIncrease
  <2>4. At(i) = At(j) => cut[i] = cut[j]
    OBVIOUS
  <2> HIDE DEF At
  <2> QED
    BY <1>1, <2>2, <2>3, <2>4
<1>5. \A i \in 1..n : /\ HasSign(Component(q, At(i)))
                      /\ Name(At(i)) = Key(fields, i)
                      /\ Value(At(i)) = Unquote(fields[i][2])
  BY <1>3, PartParses DEF Key
<1>6. \A i \in 1..n : Name(At(i)) # <<>>
  <2>1. \A i : Key(fields, i) # <<>>
    BY DEF Key
  <2> HIDE DEF Name
  <2> QED
    BY <1>5, <2>1
<1> HIDE DEF At, n
<1> DEFINE f == [name \in {Name(c) : c \in parts} |-> Value(CHOOSE c \in parts : Name(c) = name)]
<1>7. Parameters(q) =
         IF /\ \A c \in parts : HasSign(Component(q, c)) /\ Name(c) # <<>>
            /\ \A c, d \in parts : Name(c) = Name(d) => c = d
         THEN {f} ELSE {}
  BY DEF Parameters
<1> HIDE DEF Name, Value, parts
<1>8. \A c \in parts : HasSign(Component(q, c)) /\ Name(c) # <<>>
  BY <1>3, <1>5, <1>6
<1>9. (\A c, d \in parts : Name(c) = Name(d) => c = d) <=> AllDiffer(fields)
  <2>1. \A i, j \in 1..n : (Name(At(i)) = Name(At(j)) => At(i) = At(j)) <=>
                           (Key(fields, i) = Key(fields, j) => i = j)
    BY <1>4, <1>5
  <2> QED
    BY <1>3, <2>1 DEF AllDiffer, n
<1>10. ~AllDiffer(fields) => Parameters(q) = {}
  BY <1>7, <1>9, Zenon
<1>11. ASSUME AllDiffer(fields)
       PROVE  /\ Parameters(q) = {f}
              /\ DOMAIN f = {Key(fields, i) : i \in 1..n}
              /\ \A i \in 1..n : f[Key(fields, i)] = Unquote(fields[i][2])
  <2>1. Parameters(q) = {f}
    BY <1>7, <1>8, <1>9, <1>11, Zenon
  <2>2. {Name(c) : c \in parts} = {Key(fields, i) : i \in 1..n}
    BY <1>3, <1>5
  <2>3. ASSUME NEW i \in 1..n
        PROVE  f[Key(fields, i)] = Unquote(fields[i][2])
    <3>1. At(i) \in parts /\ Name(At(i)) = Key(fields, i)
      BY <1>3, <1>5
    <3>2. (CHOOSE c \in parts : Name(c) = Key(fields, i)) = At(i)
      <4>1. \A c \in parts : Name(c) = Key(fields, i) => c = At(i)
        BY <1>9, <1>11, <3>1
      <4> QED
        BY <3>1, <4>1
    <3>3. f[Key(fields, i)] = Value(CHOOSE c \in parts : Name(c) = Key(fields, i))
      BY <2>2
    <3> QED
      BY <1>5, <3>2, <3>3
  <2>4. DOMAIN f = {Key(fields, i) : i \in 1..n}
    BY <2>2
  <2> QED
    BY <2>1, <2>3, <2>4
<1> HIDE DEF f
<1>12. AllDiffer(fields) =>
                 \E p : /\ Parameters(q) = {p}
                        /\ DOMAIN p = {Key(fields, i) : i \in 1..Len(fields)}
                        /\ \A i \in 1..Len(fields) : p[Key(fields, i)] = Unquote(fields[i][2])
  BY <1>11 DEF n
<1> QED
  BY <1>10, <1>12 DEF q

(* unquote leaves the names of the fields and of the events as they are,   *)
(* and nothing else becomes one of them.                                   *)
LEMMA NamesStay ==
    /\ \A c \in Required \cup {"event"} \cup EventNames : UnquoteByte(c) = c
    /\ \A c : UnquoteByte(c) \in Required \cup {"event"} => UnquoteByte(c) = c
<1> DEFINE All == Required \cup {"event"} \cup EventNames
<1>1. "+" \notin All /\ "space" \notin All
      /\ \A e \in Escapes : e[1] \notin All /\ e[2] \notin All
  <2>1. \A e \in Escapes : /\ e[1] \in {"space", "%", "&", "+", "="}
                           /\ e[2] \in {"%20", "%25", "%26", "%2B", "%3D"}
    BY DEF Escapes
  <2> QED
    BY <2>1 DEF Required, EventNames
<1>2. \A c : /\ c = "+" => UnquoteByte(c) = "space"
             /\ c # "+" /\ ~(\E e \in Escapes : e[2] = c) => UnquoteByte(c) = c
             /\ c # "+" /\ (\E e \in Escapes : e[2] = c) => \E e \in Escapes : UnquoteByte(c) = e[1]
  <2> TAKE c
  <2>1. CASE c = "+"
    BY <2>1, Zenon DEF UnquoteByte
  <2>2. CASE c # "+" /\ ~(\E e \in Escapes : e[2] = c)
    BY <2>2, Zenon DEF UnquoteByte
  <2>3. CASE c # "+" /\ (\E e \in Escapes : e[2] = c)
    <3>1. UnquoteByte(c) = (CHOOSE e \in Escapes : e[2] = c)[1]
      BY <2>3, Zenon DEF UnquoteByte
    <3>2. (CHOOSE e \in Escapes : e[2] = c) \in Escapes
      BY <2>3
    <3> QED
      BY <2>3, <3>1, <3>2
  <2> QED
    BY <2>1, <2>2, <2>3
<1>3. \A c \in All : UnquoteByte(c) = c
  BY <1>1, <1>2
<1>4. ASSUME NEW c, UnquoteByte(c) \in All
      PROVE  UnquoteByte(c) = c
  BY <1>1, <1>2, <1>4
<1> QED
  BY <1>3, <1>4

(* What an announce URL is made of.                                        *)
UrlSymbols ==
    STRING \cup Range(Symbols) \cup {e[2] : e \in Escapes} \cup Ten
        \cup Required \cup EventNames \cup {"event", "&", "="}

(* The fields that _build_announce_url writes for r.                       *)
IsFieldOf(r, f) ==
    \/ f = <<"info_hash", Quote(r.info_hash)>>
    \/ f = <<"peer_id", Quote(r.peer_id)>>
    \/ \E n \in Numbers : f = <<n, Decimal(r[n])>>
    \/ f = <<"event", <<r.event>>>> /\ r.event # "none"

(* The fields urlencode is given, in their order.                          *)
LEMMA FieldsAreInOrder ==
    ASSUME NEW r \in AnnounceRequests
    PROVE  /\ Len(Fields(r)) \in {6, 7}
           /\ Len(Fields(r)) = 7 <=> r.event # "none"
           /\ Fields(r)[1] = <<"info_hash", Quote(r.info_hash)>>
           /\ Fields(r)[2] = <<"peer_id", Quote(r.peer_id)>>
           /\ Fields(r)[3] = <<"port", Decimal(r.port)>>
           /\ Fields(r)[4] = <<"uploaded", Decimal(r.uploaded)>>
           /\ Fields(r)[5] = <<"downloaded", Decimal(r.downloaded)>>
           /\ Fields(r)[6] = <<"left", Decimal(r.left)>>
           /\ r.event # "none" => Fields(r)[7] = <<"event", <<r.event>>>>
<1>1. PICK a, b, c, d, e, f, g :
         /\ a = <<"info_hash", Quote(r.info_hash)>> /\ b = <<"peer_id", Quote(r.peer_id)>>
         /\ c = <<"port", Decimal(r.port)>> /\ d = <<"uploaded", Decimal(r.uploaded)>>
         /\ e = <<"downloaded", Decimal(r.downloaded)>> /\ f = <<"left", Decimal(r.left)>>
         /\ g = <<"event", <<r.event>>>>
  OBVIOUS
<1>2. Fields(r) = <<a, b, c, d, e, f>> \o (IF r.event = "none" THEN <<>> ELSE <<g>>)
  BY <1>1, Zenon DEF Fields
<1>3. <<a, b, c, d, e, f>> \o <<>> = <<a, b, c, d, e, f>>
  OBVIOUS
<1>4. CASE r.event = "none"
  <2>1. Fields(r) = <<a, b, c, d, e, f>>
    BY <1>2, <1>3, <1>4
  <2> QED
    BY <1>1, <1>4, <2>1
<1>5. CASE r.event # "none"
  <2>1. PICK S : a \in S /\ b \in S /\ c \in S /\ d \in S /\ e \in S /\ f \in S /\ g \in S
    <3>1. PICK S : S = {a, b, c, d, e, f, g}
      OBVIOUS
    <3> QED
      BY <3>1
  <2>2. PICK s \in Seq(S) : s = <<a, b, c, d, e, f>>
    <3>1. <<a, b, c, d, e, f>> \in Seq(S)
      BY <2>1
    <3> QED
      BY <3>1
  <2>3. Fields(r) = Append(s, g)
    <3>1. Fields(r) = s \o <<g>>
      BY <1>2, <1>5, <2>2
    <3> QED
      BY <2>1, <3>1
  <2>4. /\ Len(s) = 6 /\ s[1] = a /\ s[2] = b /\ s[3] = c /\ s[4] = d /\ s[5] = e /\ s[6] = f
    BY <2>2
  <2>5. /\ Len(Fields(r)) = 7 /\ Fields(r)[7] = g
        /\ \A k \in 1..6 : Fields(r)[k] = s[k]
    <3>1. /\ Len(Append(s, g)) = Len(s) + 1 /\ Append(s, g)[Len(s) + 1] = g
          /\ \A k \in 1..Len(s) : Append(s, g)[k] = s[k]
      BY <2>1, AppendFacts
    <3> QED
      BY <2>3, <2>4, <3>1
  <2> QED
    BY <1>1, <1>5, <2>4, <2>5
<1> QED
  BY <1>4, <1>5

(* The symbols of a field, whose value has no separator in it.             *)
LEMMA FieldIsLegal ==
    ASSUME NEW r \in AnnounceRequests, NEW f, IsFieldOf(r, f)
    PROVE  /\ f \in UrlSymbols \X Seq(UrlSymbols)
           /\ f[1] \in Required \cup {"event"}
           /\ \A k \in 1..Len(f[2]) : f[2][k] # "&"
<1>1. /\ r.info_hash \in Texts /\ r.peer_id \in Texts /\ r.event \in {"none"} \cup EventNames
      /\ \A n \in Numbers : r[n] \in Nat
  BY DEF AnnounceRequests, Identifiers, Numbers
<1>2. Required \cup {"event"} \cup EventNames \subseteq UrlSymbols /\ Numbers \subseteq Required
  BY DEF UrlSymbols, Required, EventNames, Numbers
<1>3. ASSUME NEW s \in Texts, NEW n \in Required, f = <<n, Quote(s)>>
      PROVE  /\ f \in UrlSymbols \X Seq(UrlSymbols)
             /\ f[1] \in Required
             /\ \A k \in 1..Len(f[2]) : f[2][k] # "&"
  <2>1. Len(Quote(s)) \in Nat /\ \A k \in 1..Len(s) : s[k] \in Range(Symbols)
    BY UnquoteInverts DEF Texts
  <2>2. \A c \in Range(Symbols) : QuoteByte(c) \in UrlSymbols
    <3> TAKE c \in Range(Symbols)
    <3>1. CASE \E e \in Escapes : e[1] = c
      <4>1. (CHOOSE e \in Escapes : e[1] = c) \in Escapes
        BY <3>1
      <4> QED
        BY <3>1, <4>1 DEF QuoteByte, UrlSymbols
    <3>2. CASE ~\E e \in Escapes : e[1] = c
      BY <3>2 DEF QuoteByte, UrlSymbols
    <3> QED
      BY <3>1, <3>2
  <2>3. Quote(s) \in Seq(UrlSymbols)
    <3>1. Quote(s) = [k \in 1..Len(s) |-> QuoteByte(s[k])] /\ Len(s) \in Nat
      BY DEF Quote, Texts
    <3>2. \A k \in 1..Len(s) : QuoteByte(s[k]) \in UrlSymbols
      BY <2>1, <2>2
    <3> QED
      BY <3>1, <3>2
  <2>4. f[1] = n /\ f[2] = Quote(s)
    BY <1>3
  <2>5. \A k \in 1..Len(Quote(s)) : Quote(s)[k] # "&"
    BY UnquoteInverts
  <2>6. <<n, Quote(s)>> \in UrlSymbols \X Seq(UrlSymbols)
    BY <1>2, <2>3
  <2> QED
    BY <1>3, <2>4, <2>5, <2>6
<1>4. ASSUME NEW n \in Numbers, f = <<n, Decimal(r[n])>>
      PROVE  /\ f \in UrlSymbols \X Seq(UrlSymbols)
             /\ f[1] \in Required
             /\ \A k \in 1..Len(f[2]) : f[2][k] # "&"
  <2>1. PICK s \in Seq(Ten) : s = Decimal(r[n])
    BY <1>1, DecimalFacts DEF IsNumeral
  <2>2. Ten \subseteq UrlSymbols /\ "&" \notin Ten
    BY DEF Ten, UrlSymbols
  <2>3. s \in Seq(UrlSymbols)
    BY <2>2
  <2>4. \A k \in 1..Len(s) : s[k] \in Ten
    OBVIOUS
  <2>5. f[1] = n /\ f[2] = s
    BY <1>4, <2>1
  <2>6. <<n, s>> \in UrlSymbols \X Seq(UrlSymbols)
    BY <1>2, <2>3
  <2> QED
    BY <1>2, <1>4, <2>1, <2>2, <2>4, <2>5, <2>6
<1>5. ASSUME f = <<"event", <<r.event>>>>, r.event # "none"
      PROVE  /\ f \in UrlSymbols \X Seq(UrlSymbols)
             /\ f[1] = "event"
             /\ \A k \in 1..Len(f[2]) : f[2][k] # "&"
  <2>1. PICK e \in EventNames : e = r.event
    BY <1>1, <1>5
  <2>2. e \in UrlSymbols /\ "event" \in UrlSymbols /\ e # "&"
    BY <1>2 DEF EventNames
  <2>3. f = <<"event", <<e>>>>
    BY <1>5, <2>1
  <2> QED
    BY <2>2, <2>3
<1>6. "info_hash" \in Required /\ "peer_id" \in Required
  BY DEF Required
<1> QED
  BY <1>1, <1>3, <1>4, <1>5, <1>6 DEF IsFieldOf

(* Every field the client sends is one of those seven.                     *)
LEMMA FieldsOfRequest ==
    ASSUME NEW r \in AnnounceRequests
    PROVE  \A i \in 1..Len(Fields(r)) : IsFieldOf(r, Fields(r)[i])
<1>1. ASSUME NEW n \in Numbers, NEW i \in 1..Len(Fields(r)), Fields(r)[i] = <<n, Decimal(r[n])>>
      PROVE  IsFieldOf(r, Fields(r)[i])
  BY <1>1 DEF IsFieldOf
<1>2. /\ "port" \in Numbers /\ "uploaded" \in Numbers /\ "downloaded" \in Numbers
      /\ "left" \in Numbers
      /\ r.port = r["port"] /\ r.uploaded = r["uploaded"] /\ r.downloaded = r["downloaded"]
      /\ r.left = r["left"]
  BY DEF Numbers
<1> TAKE i \in 1..Len(Fields(r))
<1>3. i = 1 \/ i = 2 \/ i = 3 \/ i = 4 \/ i = 5 \/ i = 6 \/ (i = 7 /\ r.event # "none")
  <2>1. CASE Len(Fields(r)) = 6
    <3>1. i \in 1..6
      BY <2>1
    <3> QED
      BY <3>1
  <2>2. CASE Len(Fields(r)) = 7
    <3>1. i \in 1..7 /\ r.event # "none"
      BY <2>2, FieldsAreInOrder
    <3> QED
      BY <3>1
  <2> QED
    BY <2>1, <2>2, FieldsAreInOrder
<1>4. CASE i = 1
  BY <1>4, FieldsAreInOrder DEF IsFieldOf
<1>5. CASE i = 2
  BY <1>5, FieldsAreInOrder DEF IsFieldOf
<1>6. CASE i = 3
  BY <1>1, <1>2, <1>6, FieldsAreInOrder
<1>7. CASE i = 4
  BY <1>1, <1>2, <1>7, FieldsAreInOrder
<1>8. CASE i = 5
  BY <1>1, <1>2, <1>8, FieldsAreInOrder
<1>9. CASE i = 6
  BY <1>1, <1>2, <1>9, FieldsAreInOrder
<1>10. CASE i = 7 /\ r.event # "none"
  BY <1>10, FieldsAreInOrder DEF IsFieldOf
<1> QED
  BY <1>3, <1>4, <1>5, <1>6, <1>7, <1>8, <1>9, <1>10

(* The symbols of a parameter of the tracker's URL.                        *)
LEMMA OwnFieldIsLegal ==
    ASSUME NEW f \in OwnFields
    PROVE  /\ f \in UrlSymbols \X Seq(UrlSymbols)
           /\ f[1] \notin {"&", "=", "event"}
           /\ \A k \in 1..Len(f[2]) : f[2][k] # "&"
<1>1. PICK Names, Values1 : Names = STRING \ {"&", "=", "event"} /\ Values1 = STRING \ {"&"}
  OBVIOUS
<1>2. Names \subseteq UrlSymbols /\ Values1 \subseteq UrlSymbols /\ "&" \notin Values1
      /\ "&" \notin Names /\ "=" \notin Names /\ "event" \notin Names
  BY <1>1 DEF UrlSymbols
<1>3. f \in Names \X Seq(Values1)
  BY <1>1, Zenon DEF OwnFields
<1>4. PICK name \in Names, value \in Seq(Values1) : f = <<name, value>>
  BY <1>3
<1>5. \A k \in 1..Len(value) : value[k] \in Values1
  OBVIOUS
<1>6. value \in Seq(UrlSymbols)
  BY <1>2, <1>5
<1>7. f[1] = name /\ f[2] = value
  BY <1>4
<1>8. <<name, value>> \in UrlSymbols \X Seq(UrlSymbols)
  BY <1>2, <1>6
<1>9. \A k \in 1..Len(value) : value[k] # "&"
  BY <1>2, <1>5
<1> QED
  BY <1>2, <1>4, <1>7, <1>8, <1>9

(* The query of r is made of the URL's own parameters and of r's fields.   *)
LEMMA QueryIsOfFields ==
    ASSUME NEW r \in AnnounceRequests
    PROVE  /\ AreFields(UrlSymbols, r.own \o Fields(r))
           /\ Query(r) = FlattenSeq(Pieces(r.own \o Fields(r)))
           /\ Len(r.own) \in Nat /\ Len(Fields(r)) \in Nat
           /\ Len(r.own \o Fields(r)) = Len(r.own) + Len(Fields(r))
           /\ \A i \in 1..Len(r.own) : (r.own \o Fields(r))[i] = r.own[i] /\ r.own[i] \in OwnFields
           /\ \A i \in 1..Len(Fields(r)) : (r.own \o Fields(r))[Len(r.own) + i] = Fields(r)[i]
<1> DEFINE T == UrlSymbols \X Seq(UrlSymbols)
<1>1. PICK own : own = r.own /\ own \in Seq(OwnFields)
  BY DEF AnnounceRequests
<1>2. PICK named : named = Fields(r)
  OBVIOUS
<1>3. Len(own) \in Nat /\ \A i \in 1..Len(own) : own[i] \in OwnFields
  BY <1>1
<1>4. own \in Seq(T)
  <2>1. \A i \in 1..Len(own) : own[i] \in T
    BY <1>3, OwnFieldIsLegal
  <2> HIDE DEF T
  <2> QED
    BY <1>1, <2>1
<1>5. \A i \in 1..Len(named) : IsFieldOf(r, named[i])
  BY <1>2, FieldsOfRequest
<1>6. named \in Seq(T) /\ Len(named) \in {6, 7}
  <2>1. Len(named) \in {6, 7}
    BY <1>2, FieldsAreInOrder
  <2>2. \A i \in 1..Len(named) : named[i] \in T
    BY <1>5, FieldIsLegal
  <2>3. named = [i \in 1..Len(named) |-> named[i]]
    <3>1. PICK g : g = <<"event", <<r.event>>>>
      OBVIOUS
    <3>2. \E S : named \in Seq(S)
      <4>1. \E a, b, c, d, e, f : named = <<a, b, c, d, e, f>> \o (IF r.event = "none" THEN <<>> ELSE <<g>>)
        BY <1>2, <3>1, Zenon DEF Fields
      <4>2. PICK a, b, c, d, e, f : named = <<a, b, c, d, e, f>> \o (IF r.event = "none" THEN <<>> ELSE <<g>>)
        BY <4>1
      <4>3. PICK S : a \in S /\ b \in S /\ c \in S /\ d \in S /\ e \in S /\ f \in S /\ g \in S
        <5>1. PICK S : S = {a, b, c, d, e, f, g}
          OBVIOUS
        <5> QED
          BY <5>1
      <4>4. <<a, b, c, d, e, f>> \in Seq(S)
        BY <4>3
      <4>5. (IF r.event = "none" THEN <<>> ELSE <<g>>) \in Seq(S)
        BY <4>3
      <4> QED
        BY <4>2, <4>4, <4>5
    <3> QED
      BY <3>2
  <2> HIDE DEF T
  <2> QED
    BY <2>1, <2>2, <2>3
<1> DEFINE all == own \o named
<1>7. /\ all \in Seq(T) /\ Len(all) = Len(own) + Len(named)
      /\ \A i \in 1..Len(own) : all[i] = own[i]
      /\ \A i \in 1..Len(named) : all[Len(own) + i] = named[i]
  <2> HIDE DEF T
  <2> QED
    BY <1>4, <1>6, ConcatFacts
<1> HIDE DEF all
<1>8. AreFields(UrlSymbols, all)
  <2>1. all # <<>>
    <3>1. PICK m \in Nat : m = Len(own)
      BY <1>3
    <3>2. PICK n \in {6, 7} : n = Len(named)
      BY <1>6
    <3>3. Len(all) = m + n
      BY <1>7, <3>1, <3>2
    <3>4. m + n # 0
      OBVIOUS
    <3> QED
      BY <3>3, <3>4
  <2>2. {"&", "="} \subseteq UrlSymbols
    BY DEF UrlSymbols
  <2>3. "&" \notin Required \cup {"event"} /\ "=" \notin Required \cup {"event"}
    BY DEF Required
  <2>4. \A i \in 1..Len(all) : /\ all[i][1] \notin {"&", "="}
                               /\ \A k \in 1..Len(all[i][2]) : all[i][2][k] # "&"
    <3> TAKE i \in 1..Len(all)
    <3>1. CASE i <= Len(own)
      <4>1. i \in 1..Len(own)
        BY <1>3, <3>1
      <4> QED
        BY <1>3, <1>7, <4>1, OwnFieldIsLegal
    <3>2. CASE i > Len(own)
      <4>1. PICK j \in 1..Len(named) : i = Len(own) + j
        <5>1. i - Len(own) \in 1..Len(named) /\ i = Len(own) + (i - Len(own))
          BY <1>3, <1>6, <1>7, <3>2
        <5> QED
          BY <5>1
      <4>2. all[i] = named[j] /\ IsFieldOf(r, named[j])
        BY <1>5, <1>7, <4>1
      <4> QED
        BY <2>3, <4>2, FieldIsLegal
    <3> QED
      BY <1>3, <3>1, <3>2
  <2> QED
    BY <1>7, <2>1, <2>2, <2>4 DEF AreFields
<1>9. Query(r) = FlattenSeq(Pieces(r.own \o Fields(r)))
  BY DEF Query, Pieces
<1>10. Len(named) \in Nat
  BY <1>6
<1> QED
  BY <1>1, <1>2, <1>3, <1>7, <1>8, <1>9, <1>10 DEF all

(* What the server reads of a query whose parameters all differ.           *)
LEMMA BareRequestArrives ==
    ASSUME NEW r \in AnnounceRequests, r.own = <<>>
    PROVE  ParseRequest(Query(r)) = {[n \in Required \cup {"event"} |-> r[n]]}
<1> DEFINE all == r.own \o Fields(r)
<1>0. /\ r.info_hash \in Texts /\ r.peer_id \in Texts /\ r.event \in {"none"} \cup EventNames
      /\ Len(r.info_hash) = IdLength /\ Len(r.peer_id) = IdLength
      /\ \A n \in Numbers : r[n] \in Nat
  BY DEF AnnounceRequests, Identifiers, Numbers
<1>1. PICK n \in {6, 7} : n = Len(Fields(r)) /\ (n = 7 <=> r.event # "none")
  BY FieldsAreInOrder
<1>2. /\ AreFields(UrlSymbols, all) /\ Query(r) = FlattenSeq(Pieces(all)) /\ Len(all) = n
      /\ \A i \in 1..n : all[i] = Fields(r)[i]
  <2>1. Len(r.own) = 0
    OBVIOUS
  <2>2. /\ AreFields(UrlSymbols, all) /\ Query(r) = FlattenSeq(Pieces(all))
        /\ Len(all) = Len(r.own) + Len(Fields(r))
        /\ \A i \in 1..Len(Fields(r)) : all[Len(r.own) + i] = Fields(r)[i]
    BY QueryIsOfFields
  <2> HIDE DEF all
  <2>3. Len(all) = 0 + n /\ \A i \in 1..n : all[0 + i] = Fields(r)[i]
    BY <1>1, <2>1, <2>2, Zenon
  <2>4. 0 + n = n /\ \A i \in 1..n : 0 + i = i
    OBVIOUS
  <2>5. \A i \in 1..n : all[i] = Fields(r)[i]
    BY <2>3, <2>4
  <2> QED
    BY <2>2, <2>3, <2>4, <2>5
<1> HIDE DEF all
<1>3. /\ all[1] = <<"info_hash", Quote(r.info_hash)>> /\ all[2] = <<"peer_id", Quote(r.peer_id)>>
      /\ all[3] = <<"port", Decimal(r["port"])>> /\ all[4] = <<"uploaded", Decimal(r["uploaded"])>>
      /\ all[5] = <<"downloaded", Decimal(r["downloaded"])>> /\ all[6] = <<"left", Decimal(r["left"])>>
      /\ n = 7 => all[7] = <<"event", <<r.event>>>>
  <2>1. 1 \in 1..n /\ 2 \in 1..n /\ 3 \in 1..n /\ 4 \in 1..n /\ 5 \in 1..n /\ 6 \in 1..n
        /\ (n = 7 => 7 \in 1..n)
    OBVIOUS
  <2> QED
    BY <1>1, <1>2, <2>1, FieldsAreInOrder
<1>4. /\ all[1][1] = "info_hash" /\ all[2][1] = "peer_id" /\ all[3][1] = "port"
      /\ all[4][1] = "uploaded" /\ all[5][1] = "downloaded" /\ all[6][1] = "left"
      /\ n = 7 => all[7][1] = "event"
  BY <1>3
<1>5. \A i \in 1..n : i = 1 \/ i = 2 \/ i = 3 \/ i = 4 \/ i = 5 \/ i = 6 \/ (i = 7 /\ n = 7)
  OBVIOUS
<1>6. \A i \in 1..n : all[i][1] \in Required \cup {"event"}
  BY <1>4, <1>5 DEF Required
<1>7. \A i \in 1..n : Key(all, i) = <<all[i][1]>>
  BY <1>6, NamesStay DEF Key
<1>8. AllDiffer(all)
  <2>1. \A i, j \in 1..n : all[i][1] = all[j][1] => i = j
    BY <1>4, <1>5
  <2>2. \A i, j \in 1..n : Key(all, i) = Key(all, j) => all[i][1] = all[j][1]
    <3>1. \A a, b : <<a>> = <<b>> => a = b
      OBVIOUS
    <3> QED
      BY <1>7, <3>1
  <2> QED
    BY <1>2, <2>1, <2>2 DEF AllDiffer
<1>9. PICK p : /\ Parameters(Query(r)) = {p}
               /\ DOMAIN p = {Key(all, i) : i \in 1..n}
               /\ \A i \in 1..n : p[Key(all, i)] = Unquote(all[i][2])
  BY <1>2, <1>8, ParametersOfFields
<1>10. /\ p[<<"info_hash">>] = r.info_hash /\ p[<<"peer_id">>] = r.peer_id
  <2>1. 1 \in 1..n /\ 2 \in 1..n
    OBVIOUS
  <2>2. all[1][2] = Quote(r.info_hash) /\ all[2][2] = Quote(r.peer_id)
    BY <1>3
  <2>3. p[<<"info_hash">>] = Unquote(all[1][2]) /\ p[<<"peer_id">>] = Unquote(all[2][2])
    BY <1>4, <1>7, <1>9, <2>1
  <2> QED
    BY <1>0, <2>2, <2>3, UnquoteInverts
<1>11. \A m \in Numbers : <<m>> \in DOMAIN p /\ p[<<m>>] = Decimal(r[m])
  <2>1. ASSUME NEW m \in Numbers
        PROVE  \E i \in 1..n : all[i] = <<m, Decimal(r[m])>>
    <3>1. 3 \in 1..n /\ 4 \in 1..n /\ 5 \in 1..n /\ 6 \in 1..n
      OBVIOUS
    <3> QED
      BY <1>3, <3>1 DEF Numbers
  <2> TAKE m \in Numbers
  <2>2. PICK i \in 1..n : all[i] = <<m, Decimal(r[m])>>
    BY <2>1
  <2>3. PICK s \in Seq(Ten) : s = Decimal(r[m])
    BY <1>0, DecimalFacts DEF IsNumeral
  <2>4. Unquote(s) = s
    BY DigitsStay
  <2>5. all[i][1] = m /\ all[i][2] = s
    BY <2>2, <2>3
  <2>6. Key(all, i) = <<m>> /\ Key(all, i) \in DOMAIN p
    BY <1>7, <1>9, <2>5
  <2> QED
    BY <1>9, <2>3, <2>4, <2>5, <2>6
<1>12. <<"event">> \in DOMAIN p <=> n = 7
  <2>1. \A i \in 1..n : Key(all, i) = <<"event">> <=> all[i][1] = "event"
    BY <1>7
  <2>2. \A i \in 1..n : all[i][1] = "event" <=> (i = 7 /\ n = 7)
    BY <1>4, <1>5
  <2>3. n = 7 => 7 \in 1..n
    OBVIOUS
  <2> QED
    BY <1>9, <2>1, <2>2, <2>3
<1>13. n = 7 => p[<<"event">>] = <<r.event>> /\ r.event \in EventNames
  <2> SUFFICES ASSUME n = 7
               PROVE  p[<<"event">>] = <<r.event>> /\ r.event \in EventNames
    OBVIOUS
  <2>1. PICK e \in EventNames : e = r.event
    BY <1>0, <1>1
  <2>2. all[7][1] = "event" /\ all[7][2] = <<e>> /\ 7 \in 1..n
    BY <1>3, <2>1
  <2>3. p[<<"event">>] = Unquote(<<e>>)
    BY <1>7, <1>9, <2>2
  <2>4. Unquote(<<e>>) = <<UnquoteByte(e)>>
    BY DEF Unquote
  <2> QED
    BY <2>1, <2>3, <2>4, NamesStay
<1>14. \A k \in DOMAIN p : k \in {<<m>> : m \in Required \cup {"event"}}
  BY <1>6, <1>7, <1>9
<1>15. \A m \in Required : <<m>> \in DOMAIN p
  <2>1. 1 \in 1..n /\ 2 \in 1..n
    OBVIOUS
  <2>2. <<"info_hash">> \in DOMAIN p /\ <<"peer_id">> \in DOMAIN p
    BY <1>4, <1>7, <1>9, <2>1
  <2>3. \A m \in Required : m = "info_hash" \/ m = "peer_id" \/ m \in Numbers
    BY DEF Required, Numbers
  <2> QED
    BY <1>11, <2>2, <2>3
<1>16. \A m \in Numbers : /\ p[<<m>>] # <<>> /\ PyInt(p[<<m>>]) = {r[m]} /\ Min({r[m]}) = r[m]
                          /\ \A k \in DOMAIN p[<<m>>] : IsDigit(p[<<m>>][k])
  <2> TAKE m \in Numbers
  <2>1. PICK s \in Seq(Ten) : s = Decimal(r[m]) /\ s # <<>>
    BY <1>0, DecimalFacts DEF IsNumeral
  <2>2. \A k \in DOMAIN s : IsDigit(s[k])
    <3>1. \A k \in DOMAIN s : s[k] \in Ten
      OBVIOUS
    <3> QED
      BY <3>1, DigitFacts
  <2>3. p[<<m>>] = s
    BY <1>11, <2>1
  <2>4. PyInt(s) = {r[m]}
    BY <1>0, <2>1, IntOfDecimal
  <2>5. Min({r[m]}) = r[m]
    BY <1>0, MinOfOne
  <2> QED
    BY <2>1, <2>2, <2>3, <2>4, <2>5
<1>17. IsRequest(p)
  <2>1. Len(p[<<"info_hash">>]) = IdLength /\ Len(p[<<"peer_id">>]) = IdLength
    BY <1>0, <1>10
  <2>2. <<"event">> \in DOMAIN p => p[<<"event">>] \in {<<>>} \cup {<<e>> : e \in EventNames}
    BY <1>12, <1>13
  <2>3. {<<m>> : m \in Required} \subseteq DOMAIN p
    BY <1>15
  <2>4. DOMAIN p \subseteq {<<m>> : m \in Required \cup {"event"}}
    BY <1>14
  <2> QED
    BY <1>16, <2>1, <2>2, <2>3, <2>4, Zenon DEF IsRequest
<1>18. ParseRequest(Query(r)) = {RequestOf(p)}
  BY <1>9, <1>17 DEF ParseRequest
<1>19. /\ Min(PyInt(p[<<"port">>])) = r.port /\ Min(PyInt(p[<<"uploaded">>])) = r.uploaded
       /\ Min(PyInt(p[<<"downloaded">>])) = r.downloaded /\ Min(PyInt(p[<<"left">>])) = r.left
  BY <1>16 DEF Numbers
<1>20. (IF <<"event">> \notin DOMAIN p \/ p[<<"event">>] = <<>> THEN "none"
        ELSE Head(p[<<"event">>])) = r.event
  <2>1. CASE n = 7
    <3>1. p[<<"event">>] # <<>> /\ Head(p[<<"event">>]) = r.event
      BY <1>13, <2>1
    <3> QED
      BY <1>12, <2>1, <3>1
  <2>2. CASE n # 7
    BY <1>1, <1>12, <2>2
  <2> QED
    BY <2>1, <2>2
<1>21. RequestOf(p) = [info_hash |-> r.info_hash, peer_id |-> r.peer_id, port |-> r.port,
                       uploaded |-> r.uploaded, downloaded |-> r.downloaded, left |-> r.left,
                       event |-> r.event]
  BY <1>10, <1>19, <1>20, Zenon DEF RequestOf
<1>22. [info_hash |-> r.info_hash, peer_id |-> r.peer_id, port |-> r.port,
        uploaded |-> r.uploaded, downloaded |-> r.downloaded, left |-> r.left,
        event |-> r.event] = [m \in Required \cup {"event"} |-> r[m]]
  BY DEF Required
<1> QED
  BY <1>18, <1>21, <1>22

(* An unknown parameter, and a parameter that comes twice, are refused.    *)
LEMMA OwnRequestRefused ==
    ASSUME NEW r \in AnnounceRequests, r.own # <<>>
    PROVE  ParseRequest(Query(r)) = {}
<1> DEFINE all == r.own \o Fields(r)
           a == Len(r.own)
<1>1. /\ AreFields(UrlSymbols, all) /\ Query(r) = FlattenSeq(Pieces(all))
      /\ Len(Fields(r)) \in {6, 7} /\ Len(all) = a + Len(Fields(r)) /\ a \in Nat
      /\ all[1] = r.own[1] /\ r.own[1] \in OwnFields
      /\ \A i \in 1..Len(Fields(r)) : all[a + i] = Fields(r)[i]
  <2>1. 1 \in 1..a /\ a \in Nat
    BY EmptySeq DEF AnnounceRequests
  <2> QED
    BY <2>1, QueryIsOfFields, FieldsAreInOrder
<1>2. a # 0
  BY EmptySeq DEF AnnounceRequests
<1> HIDE DEF all, a
<1>3. PICK name : name = all[1][1] /\ name # "event"
  BY <1>1, OwnFieldIsLegal
<1>4. ASSUME NEW p \in Parameters(Query(r)), IsRequest(p)
      PROVE  FALSE
  <2>1. AllDiffer(all)
    BY <1>1, <1>4, ParametersOfFields
  <2>2. DOMAIN p = {Key(all, i) : i \in 1..Len(all)}
    BY <1>1, <1>4, <2>1, ParametersOfFields
  <2>3. 1 \in 1..Len(all)
    BY <1>1, <1>2
  <2>4. Key(all, 1) \in {<<m>> : m \in Required \cup {"event"}}
    BY <1>4, <2>2, <2>3 DEF IsRequest
  <2>5. Key(all, 1) = <<UnquoteByte(name)>>
    BY <1>3 DEF Key
  <2>6. UnquoteByte(name) \in Required \cup {"event"}
    <3>1. \A x, y : <<x>> = <<y>> => x = y
      OBVIOUS
    <3> QED
      BY <2>4, <2>5, <3>1
  <2>7. UnquoteByte(name) = name
    BY <2>6, NamesStay
  <2>8. name \in Required
    BY <1>3, <2>6, <2>7
  <2>9. PICK j \in 1..6 : Fields(r)[j][1] = name
    <3>1. /\ Fields(r)[1][1] = "info_hash" /\ Fields(r)[2][1] = "peer_id" /\ Fields(r)[3][1] = "port"
          /\ Fields(r)[4][1] = "uploaded" /\ Fields(r)[5][1] = "downloaded" /\ Fields(r)[6][1] = "left"
      BY FieldsAreInOrder
    <3> QED
      BY <2>8, <3>1 DEF Required
  <2>10. a + j \in 1..Len(all) /\ all[a + j][1] = name /\ a + j # 1
    BY <1>1, <1>2, <2>9
  <2>11. Key(all, a + j) = Key(all, 1)
    BY <2>5, <2>10 DEF Key
  <2> QED
    BY <2>1, <2>3, <2>10, <2>11 DEF AllDiffer
<1> QED
  BY <1>4 DEF ParseRequest

-----------------------------------------------------------------------------
(* The request on the wire is never changed.                               *)
RequestIsSent ==
    "request" \in DOMAIN sent =>
        /\ sent.request \in AnnounceRequests
        /\ text = Query(sent.request)

(* The query under way is that of the request the client made, in every    *)
(* state.                                                                  *)
LEMMA RequestIsSentInvariant == WireSpec => []RequestIsSent
<1>1. WireInit => RequestIsSent
  <2> SUFFICES ASSUME WireInit, "request" \in DOMAIN sent
               PROVE  sent.request \in AnnounceRequests /\ text = Query(sent.request)
    BY DEF RequestIsSent
  <2>1. PICK q \in SentRequests : sent = [request |-> q] /\ text = Query(q)
    <3>1. \A x : "request" \notin DOMAIN [response |-> x] /\ "request" \notin DOMAIN [failure |-> x]
      OBVIOUS
    <3> QED
      BY <3>1 DEF WireInit, Send
  <2>2. sent.request = q
    BY <2>1
  <2> QED
    BY <2>1, <2>2, RequestsAreLegal
<1>2. RequestIsSent /\ [WireNext]_wireVars => RequestIsSent'
  BY DEF RequestIsSent, WireNext, Damage, wireVars
<1> QED
  BY <1>1, <1>2, PTL DEF WireSpec

(* RequestArrives, for every set of requests.                              *)
THEOREM EveryRequestArrives == WireSpec => []RequestArrives
<1>1. RequestIsSent => RequestArrives
  <2> SUFFICES ASSUME RequestIsSent, "request" \in DOMAIN sent
               PROVE  ParseRequest(text) =
                         IF sent.request.own # <<>> THEN {}
                         ELSE {[n \in Required \cup {"event"} |-> sent.request[n]]}
    BY DEF RequestArrives
  <2>1. sent.request \in AnnounceRequests /\ text = Query(sent.request)
    BY DEF RequestIsSent
  <2> QED
    BY <2>1, BareRequestArrives, OwnRequestRefused
<1> QED
  BY <1>1, RequestIsSentInvariant, PTL

-----------------------------------------------------------------------------
(* Keys in the order of their bytes.                                       *)
LEMMA RankFacts ==
    /\ \A c \in Range(Symbols) : Rank(c) \in Nat
    /\ \A c, d \in Range(Symbols) : Rank(c) = Rank(d) => c = d
<1>1. Symbols \in Seq(Range(Symbols)) /\ DOMAIN Symbols \subseteq Nat
  BY SymbolsDiffer
<1>2. \A c \in Range(Symbols) : Rank(c) \in DOMAIN Symbols /\ Symbols[Rank(c)] = c
  BY DEF Range, Rank
<1> QED
  BY <1>1, <1>2

(* No key precedes itself.                                                 *)
LEMMA KeyLessIrreflexive ==
    ASSUME NEW a \in Texts
    PROVE  ~KeyLess(a, a)
<1> SUFFICES ASSUME NEW k \in 0..Len(a), k < Len(a), Rank(a[k + 1]) < Rank(a[k + 1])
             PROVE  FALSE
  BY DEF KeyLess
<1>1. k + 1 \in 1..Len(a)
  BY DEF Texts
<1>2. Rank(a[k + 1]) \in Nat
  BY <1>1, RankFacts DEF Texts
<1> QED
  BY <1>2

(* The order of the keys is a strict one.                                  *)
LEMMA KeyLessTransitive ==
    ASSUME NEW a \in Texts, NEW b \in Texts, NEW c \in Texts, KeyLess(a, b), KeyLess(b, c)
    PROVE  KeyLess(a, c)
<1>0. /\ Len(a) \in Nat /\ Len(b) \in Nat /\ Len(c) \in Nat
      /\ \A j \in 1..Len(a) : Rank(a[j]) \in Nat
      /\ \A j \in 1..Len(b) : Rank(b[j]) \in Nat
      /\ \A j \in 1..Len(c) : Rank(c[j]) \in Nat
  BY RankFacts DEF Texts
<1>1. PICK m \in 0..Len(a) : /\ m < Len(b) /\ \A j \in 1..m : a[j] = b[j]
                             /\ m < Len(a) => Rank(a[m + 1]) < Rank(b[m + 1])
  BY DEF KeyLess
<1>2. PICK n \in 0..Len(b) : /\ n < Len(c) /\ \A j \in 1..n : b[j] = c[j]
                             /\ n < Len(b) => Rank(b[n + 1]) < Rank(c[n + 1])
  BY DEF KeyLess
<1>3. CASE m < n
  <2>1. m < Len(c) /\ \A j \in 1..m : a[j] = c[j]
    BY <1>0, <1>1, <1>2, <1>3
  <2>2. m + 1 \in 1..n
    BY <1>0, <1>3
  <2>3. m < Len(a) => Rank(a[m + 1]) < Rank(c[m + 1])
    BY <1>1, <1>2, <2>2
  <2> QED
    BY <1>0, <2>1, <2>3 DEF KeyLess
<1>4. CASE m = n
  <2>1. m < Len(c) /\ \A j \in 1..m : a[j] = c[j]
    BY <1>1, <1>2, <1>4
  <2>2. m < Len(a) => Rank(a[m + 1]) < Rank(c[m + 1])
    <3> SUFFICES ASSUME m < Len(a)
                 PROVE  Rank(a[m + 1]) < Rank(c[m + 1])
      OBVIOUS
    <3>1. m + 1 \in 1..Len(a) /\ m + 1 \in 1..Len(b) /\ m + 1 \in 1..Len(c)
      BY <1>0, <1>1, <2>1
    <3>2. PICK x \in Nat, y \in Nat, z \in Nat :
             x = Rank(a[m + 1]) /\ y = Rank(b[m + 1]) /\ z = Rank(c[m + 1])
      BY <1>0, <3>1
    <3>3. x < y /\ y < z
      BY <1>1, <1>2, <1>4, <3>2
    <3>4. x < z
      BY <3>3
    <3> QED
      BY <3>2, <3>4
  <2> QED
    BY <1>0, <2>1, <2>2 DEF KeyLess
<1>5. CASE n < m
  <2>1. n \in 0..Len(a) /\ n < Len(c) /\ \A j \in 1..n : a[j] = c[j]
    BY <1>0, <1>1, <1>2, <1>5
  <2>2. n + 1 \in 1..m /\ n < Len(b)
    BY <1>0, <1>1, <1>5
  <2>3. a[n + 1] = b[n + 1] /\ Rank(b[n + 1]) < Rank(c[n + 1])
    BY <1>1, <1>2, <2>2
  <2> QED
    BY <2>1, <2>3 DEF KeyLess
<1> QED
  BY <1>0, <1>3, <1>4, <1>5

(* Only one listing of a set is sorted.                                    *)
Keyed(s) ==
    /\ Len(s) \in Nat /\ DOMAIN s = 1..Len(s)
    /\ \A i \in 1..Len(s) : s[i].key \in Texts
    /\ Sorted(s)

(* Items in strict order of their keys are all different.                  *)
LEMMA SortedDiffer ==
    ASSUME NEW s, Keyed(s), NEW i \in 1..Len(s), NEW j \in 1..Len(s)
    PROVE  s[i] = s[j] => i = j
<1>1. \A m, n \in 1..Len(s) : m < n => s[m] # s[n]
  <2> TAKE m, n \in 1..Len(s)
  <2>1. m < n => KeyLess(s[m].key, s[n].key)
    BY DEF Keyed, Sorted
  <2>2. ~KeyLess(s[m].key, s[m].key)
    BY KeyLessIrreflexive DEF Keyed
  <2> QED
    BY <2>1, <2>2
<1>2. i \in Int /\ j \in Int
  OBVIOUS
<1> QED
  BY <1>1, <1>2

(* Two such lists of the same items agree at the first place where they    *)
(* have not been compared.                                                 *)
LEMMA SortedAlike ==
    ASSUME NEW s, Keyed(s), NEW t, Keyed(t), Len(s) = Len(t), Range(s) = Range(t),
           NEW k \in 1..Len(s), \A j \in 1..(k - 1) : s[j] = t[j]
    PROVE  s[k] = t[k]
<1>0. Len(s) \in Nat /\ DOMAIN s = 1..Len(s) /\ DOMAIN t = 1..Len(s)
  BY DEF Keyed
<1>1. PICK m \in 1..Len(s) : t[m] = s[k]
  BY <1>0 DEF Range
<1>2. PICK n \in 1..Len(s) : s[n] = t[k]
  BY <1>0 DEF Range
<1>3. m >= k
  <2> SUFFICES ASSUME m < k
               PROVE  FALSE
    BY <1>0
  <2>1. m \in 1..(k - 1)
    BY <1>0
  <2>2. s[m] = s[k]
    BY <1>1, <2>1
  <2> QED
    BY <2>1, <2>2, SortedDiffer
<1>4. n >= k
  <2> SUFFICES ASSUME n < k
               PROVE  FALSE
    BY <1>0
  <2>1. n \in 1..(k - 1)
    BY <1>0
  <2>2. t[n] = t[k] /\ k \in 1..Len(t) /\ n \in 1..Len(t)
    BY <1>2, <2>1
  <2> QED
    BY <2>1, <2>2, SortedDiffer
<1>5. CASE m = k
  BY <1>1, <1>5
<1>6. CASE n = k
  BY <1>2, <1>6
<1>7. CASE m > k /\ n > k
  <2>1. KeyLess(t[k].key, t[m].key) /\ KeyLess(s[k].key, s[n].key)
    BY <1>0, <1>7 DEF Keyed, Sorted
  <2>2. KeyLess(t[k].key, s[k].key) /\ KeyLess(s[k].key, t[k].key)
    BY <1>1, <1>2, <2>1
  <2>3. s[k].key \in Texts /\ t[k].key \in Texts
    BY DEF Keyed
  <2> QED
    BY <2>2, <2>3, KeyLessIrreflexive, KeyLessTransitive
<1> QED
  BY <1>0, <1>3, <1>4, <1>5, <1>6, <1>7

(* Two sorted listings of the same items are the same listing.             *)
LEMMA SortedOnce ==
    ASSUME NEW s, Keyed(s), NEW t, Keyed(t), Len(s) = Len(t), Range(s) = Range(t)
    PROVE  \A k \in 1..Len(s) : s[k] = t[k]
<1> DEFINE T == {k \in 0..Len(s) : \A j \in 1..k : s[j] = t[j]}
<1>0. Len(s) \in Nat
  BY DEF Keyed
<1>1. 0 \in T
  BY <1>0
<1>2. ASSUME NEW k \in 1..Len(s), k - 1 \in T
      PROVE  k \in T
  <2>1. \A j \in 1..(k - 1) : s[j] = t[j]
    BY <1>2
  <2>2. s[k] = t[k]
    BY <2>1, SortedAlike
  <2>3. \A j \in 1..k : j \in 1..(k - 1) \/ j = k
    BY <1>0
  <2> QED
    BY <2>1, <2>2, <2>3
<1> HIDE DEF T
<1>3. 0..Len(s) \subseteq T
  BY <1>0, <1>1, <1>2, Induction
<1>4. Len(s) \in 0..Len(s)
  BY <1>0
<1> QED
  BY <1>3, <1>4 DEF T

(* A sorted sequence is what the encoder makes of the set of its items.    *)
LEMMA SortedItemsOfSorted ==
    ASSUME NEW S, NEW s \in Seq(S), Keyed(s)
    PROVE  SortedItems(Range(s)) = s /\ Cardinality(Range(s)) = Len(s)
<1> DEFINE n == Len(s)
           items == Range(s)
<1>1. n \in Nat /\ DOMAIN s = 1..n
  OBVIOUS
<1>2. s \in Bijection(1..n, items)
  <2>1. s \in [1..n -> items] /\ \A x \in items : \E i \in 1..n : s[i] = x
    BY <1>1 DEF Range
  <2>2. \A i, j \in 1..n : s[i] = s[j] => i = j
    BY SortedDiffer
  <2> QED
    BY <2>1, <2>2 DEF Bijection, Injection, Surjection, IsInjective
<1>3. Cardinality(items) = n
  <2>1. ExistsBijection(1..n, items)
    BY <1>2 DEF ExistsBijection
  <2> HIDE DEF n, items
  <2> QED
    BY <1>1, <2>1, FS_CountingElements
<1>4. s \in Listings(items) /\ Sorted(s)
  BY <1>2, <1>3 DEF Listings, Bijection, Injection, Keyed
<1>5. ASSUME NEW t \in Listings(items), Sorted(t)
      PROVE  t = s
  <2>1. t \in [1..n -> items]
    BY <1>3 DEF Listings
  <2>2. \A i \in 1..n : t[i] \in items /\ t[i].key \in Texts
    <3>1. \A x \in items : x.key \in Texts
      BY <1>1 DEF Keyed, Range
    <3> QED
      BY <2>1, <3>1
  <2>3. t \in Seq(items) /\ Len(t) = n /\ DOMAIN t = 1..n
    BY <1>1, <2>1
  <2>4. Keyed(t)
    BY <1>1, <1>5, <2>2, <2>3 DEF Keyed
  <2>5. t \in Injection(1..n, items)
    BY <2>1, <2>3, <2>4, SortedDiffer DEF Injection, IsInjective
  <2>6. t \in Surjection(1..n, items)
    <3>1. IsFiniteSet(1..n) /\ Cardinality(1..n) = n
      BY <1>1, FS_Interval
    <3>2. IsFiniteSet(items)
      <4>1. s \in Surjection(1..n, items)
        BY <1>2 DEF Bijection
      <4> QED
        BY <3>1, <4>1, FS_Surjection
    <3> HIDE DEF items, n
    <3> QED
      BY <1>3, <2>5, <3>1, <3>2, FS_Injection
  <2>7. Range(t) = items
    BY <2>1, <2>3, <2>6 DEF Surjection, Range
  <2>8. \A k \in 1..n : s[k] = t[k]
    BY <2>3, <2>4, <2>7, SortedOnce
  <2> QED
    BY <1>1, <2>1, <2>8
<1>6. SortedItems(items) = CHOOSE t \in Listings(items) : Sorted(t)
  BY DEF SortedItems
<1> HIDE DEF items
<1>7. SortedItems(items) = s
  BY <1>4, <1>5, <1>6
<1> QED
  BY <1>3, <1>7 DEF items

-----------------------------------------------------------------------------
(* The values, and their encodings, by depth.                              *)
AreValuesUpTo(m, g) == g = [d \in 0..m |-> ValuesWith(IF d = 0 THEN {} ELSE g[d - 1])]

(* There is a function with the values of each depth up to m.              *)
LEMMA ValuesExist ==
    ASSUME NEW m \in Nat
    PROVE  \E g : AreValuesUpTo(m, g)
<1> DEFINE T == {k \in 0..m : \E g : AreValuesUpTo(k, g)}
           Level(d, v) == ValuesWith(IF d = 0 THEN {} ELSE v)
<1>0. \A v, w : Level(0, v) = Level(0, w)
  OBVIOUS
<1>5. \A k, g : AreValuesUpTo(k, g) <=> g = [d \in 0..k |-> Level(d, g[d - 1])]
  BY DEF AreValuesUpTo
<1> HIDE DEF Level
<1>1. 0 \in T
  <2> DEFINE g == [d \in 0..0 |-> Level(0, {})]
  <2>1. \A d \in 0..0 : g[d] = Level(d, g[d - 1])
    BY <1>0
  <2>2. g = [d \in 0..0 |-> g[d]]
    OBVIOUS
  <2> HIDE DEF g
  <2>3. g = [d \in 0..0 |-> Level(d, g[d - 1])]
    BY <2>1, <2>2
  <2>4. AreValuesUpTo(0, g)
    BY <1>5, <2>3
  <2> QED
    BY <2>4
<1>2. ASSUME NEW k \in 1..m, k - 1 \in T
      PROVE  k \in T
  <2>1. PICK g : AreValuesUpTo(k - 1, g)
    BY <1>2
  <2>2. g = [d \in 0..(k - 1) |-> Level(d, g[d - 1])]
    BY <1>5, <2>1
  <2> DEFINE h == [d \in 0..k |-> IF d = k THEN Level(k, g[k - 1]) ELSE g[d]]
  <2>3. ASSUME NEW d \in 0..k
        PROVE  h[d] = Level(d, h[d - 1])
    <3>1. CASE d = k
      <4>1. h[d] = Level(k, g[k - 1]) /\ h[d - 1] = g[k - 1]
        BY <3>1
      <4> QED
        BY <3>1, <4>1
    <3>2. CASE d # k
      <4>1. d \in 0..(k - 1)
        BY <3>2
      <4>2. h[d] = g[d] /\ (d # 0 => h[d - 1] = g[d - 1])
        BY <3>2, <4>1
      <4>3. g[d] = Level(d, g[d - 1])
        BY <2>2, <4>1
      <4> HIDE DEF h
      <4>4. CASE d = 0
        BY <1>0, <4>2, <4>3, <4>4
      <4>5. CASE d # 0
        BY <4>2, <4>3, <4>5
      <4> QED
        BY <4>4, <4>5
    <3> QED
      BY <3>1, <3>2
  <2>4. h = [d \in 0..k |-> h[d]]
    OBVIOUS
  <2> HIDE DEF h
  <2>5. h = [d \in 0..k |-> Level(d, h[d - 1])]
    BY <2>3, <2>4
  <2>6. AreValuesUpTo(k, h)
    BY <1>5, <2>5
  <2> QED
    BY <2>6
<1> HIDE DEF T
<1>3. 0..m \subseteq T
  BY <1>1, <1>2, Induction
<1> QED
  BY <1>3 DEF T

(* The equations of Values: texts, numbers and empty groups at depth 0,    *)
(* then groups of the values one level less deep.                          *)
LEMMA ValuesSteps ==
    ASSUME NEW m \in Nat
    PROVE  /\ Values(m)[0] = ValuesWith({})
           /\ \A d \in 1..m : Values(m)[d] = ValuesWith(Values(m)[d - 1])
<1> DEFINE g == CHOOSE h : AreValuesUpTo(m, h)
<1>1. AreValuesUpTo(m, g)
  BY ValuesExist
<1>2. Values(m) = g
  BY DEF Values, AreValuesUpTo
<1> HIDE DEF g
<1>3. \A d \in 0..m : g[d] = ValuesWith(IF d = 0 THEN {} ELSE g[d - 1])
  BY <1>1, Zenon DEF AreValuesUpTo
<1>4. g[0] = ValuesWith({})
  <2>1. 0 \in 0..m
    OBVIOUS
  <2> QED
    BY <1>3, <2>1, Zenon
<1>5. ASSUME NEW d \in 1..m
      PROVE  g[d] = ValuesWith(g[d - 1])
  <2>1. d \in 0..m /\ d # 0
    OBVIOUS
  <2> QED
    BY <1>3, <2>1, Zenon
<1> QED
  BY <1>2, <1>4, <1>5

(* The encodings of the values up to depth m, as Codes defines them.       *)
AreCodesUpTo(values, m, g) ==
    g = [d \in 0..m |->
            [v \in values[d] |-> EncodeWith(IF d = 0 THEN <<>> ELSE g[d - 1], v)]]

(* There is a function with the codes of the values of each depth up to    *)
(* m.                                                                      *)
LEMMA CodesExist ==
    ASSUME NEW values, NEW m \in Nat
    PROVE  \E g : AreCodesUpTo(values, m, g)
<1> DEFINE T == {k \in 0..m : \E g : AreCodesUpTo(values, k, g)}
           Level(d, code) == [v \in values[d] |-> EncodeWith(IF d = 0 THEN <<>> ELSE code, v)]
<1>0. \A c, e : Level(0, c) = Level(0, e)
  OBVIOUS
<1>5. \A k, g : AreCodesUpTo(values, k, g) <=> g = [d \in 0..k |-> Level(d, g[d - 1])]
  BY DEF AreCodesUpTo
<1> HIDE DEF Level
<1>1. 0 \in T
  <2> DEFINE g == [d \in 0..0 |-> Level(0, {})]
  <2>1. \A d \in 0..0 : g[d] = Level(d, g[d - 1])
    BY <1>0
  <2>2. g = [d \in 0..0 |-> g[d]]
    OBVIOUS
  <2> HIDE DEF g
  <2>3. g = [d \in 0..0 |-> Level(d, g[d - 1])]
    BY <2>1, <2>2
  <2>4. AreCodesUpTo(values, 0, g)
    BY <1>5, <2>3
  <2> QED
    BY <2>4
<1>2. ASSUME NEW k \in 1..m, k - 1 \in T
      PROVE  k \in T
  <2>1. PICK g : AreCodesUpTo(values, k - 1, g)
    BY <1>2
  <2>2. g = [d \in 0..(k - 1) |-> Level(d, g[d - 1])]
    BY <1>5, <2>1
  <2> DEFINE h == [d \in 0..k |-> IF d = k THEN Level(k, g[k - 1]) ELSE g[d]]
  <2>3. ASSUME NEW d \in 0..k
        PROVE  h[d] = Level(d, h[d - 1])
    <3>1. CASE d = k
      <4>1. h[d] = Level(k, g[k - 1]) /\ h[d - 1] = g[k - 1]
        BY <3>1
      <4> QED
        BY <3>1, <4>1
    <3>2. CASE d # k
      <4>1. d \in 0..(k - 1)
        BY <3>2
      <4>2. h[d] = g[d] /\ (d # 0 => h[d - 1] = g[d - 1])
        BY <3>2, <4>1
      <4>3. g[d] = Level(d, g[d - 1])
        BY <2>2, <4>1
      <4> HIDE DEF h
      <4>4. CASE d = 0
        BY <1>0, <4>2, <4>3, <4>4
      <4>5. CASE d # 0
        BY <4>2, <4>3, <4>5
      <4> QED
        BY <4>4, <4>5
    <3> QED
      BY <3>1, <3>2
  <2>4. h = [d \in 0..k |-> h[d]]
    OBVIOUS
  <2> HIDE DEF h
  <2>5. h = [d \in 0..k |-> Level(d, h[d - 1])]
    BY <2>3, <2>4
  <2>6. AreCodesUpTo(values, k, h)
    BY <1>5, <2>5
  <2> QED
    BY <2>6
<1> HIDE DEF T
<1>3. 0..m \subseteq T
  BY <1>1, <1>2, Induction
<1> QED
  BY <1>3 DEF T

(* The encoding of a value, from the encodings of the values inside it.    *)
LEMMA CodesSteps ==
    ASSUME NEW m \in Nat
    PROVE  /\ \A v \in Values(m)[0] : Codes(m)[0][v] = EncodeWith(<<>>, v)
           /\ \A d \in 1..m : \A v \in Values(m)[d] :
                 Codes(m)[d][v] = EncodeWith(Codes(m)[d - 1], v)
<1> DEFINE g == CHOOSE h : AreCodesUpTo(Values(m), m, h)
<1>1. AreCodesUpTo(Values(m), m, g)
  BY CodesExist
<1>2. Codes(m) = g
  BY DEF Codes, AreCodesUpTo
<1> HIDE DEF g
<1>3. \A d \in 0..m : g[d] = [v \in Values(m)[d] |-> EncodeWith(IF d = 0 THEN <<>> ELSE g[d - 1], v)]
  BY <1>1, Zenon DEF AreCodesUpTo
<1>4. ASSUME NEW d \in 0..m, NEW v \in Values(m)[d]
      PROVE  g[d][v] = EncodeWith(IF d = 0 THEN <<>> ELSE g[d - 1], v)
  BY <1>3, Zenon
<1>5. \A v \in Values(m)[0] : g[0][v] = EncodeWith(<<>>, v)
  <2>1. 0 \in 0..m
    OBVIOUS
  <2> QED
    BY <1>4, <2>1, Zenon
<1>6. ASSUME NEW d \in 1..m, NEW v \in Values(m)[d]
      PROVE  g[d][v] = EncodeWith(g[d - 1], v)
  <2>1. d \in 0..m /\ d # 0
    OBVIOUS
  <2> QED
    BY <1>4, <2>1, Zenon
<1> QED
  BY <1>2, <1>5, <1>6

(* What a value encodes to, whatever its parts encode to.                  *)
LEMMA EncodeWithFacts ==
    ASSUME NEW code
    PROVE  /\ \A n : EncodeWith(code, [int |-> n]) = <<"i">> \o Signed(n) \o <<"e">>
           /\ \A s : EncodeWith(code, [bytes |-> s]) = EncodeBytes(s)
           /\ \A s : EncodeWith(code, [list |-> s]) =
                        <<"l">> \o FlattenSeq([i \in 1..Len(s) |-> code[s[i]]]) \o <<"e">>
           /\ \A items : EncodeWith(code, [dict |-> items]) =
                 <<"d">> \o FlattenSeq([i \in 1..Len(SortedItems(items)) |->
                                           EncodeItem(code, SortedItems(items)[i])]) \o <<"e">>
<1>1. \A x : /\ "int" \in DOMAIN [int |-> x] /\ "int" \notin DOMAIN [bytes |-> x]
             /\ "int" \notin DOMAIN [list |-> x] /\ "int" \notin DOMAIN [dict |-> x]
             /\ "bytes" \in DOMAIN [bytes |-> x] /\ "bytes" \notin DOMAIN [list |-> x]
             /\ "bytes" \notin DOMAIN [dict |-> x]
             /\ "list" \in DOMAIN [list |-> x] /\ "list" \notin DOMAIN [dict |-> x]
             /\ [int |-> x].int = x /\ [bytes |-> x].bytes = x /\ [list |-> x].list = x
             /\ [dict |-> x].dict = x
  OBVIOUS
<1>2. \A n : EncodeWith(code, [int |-> n]) = <<"i">> \o Signed(n) \o <<"e">>
  BY <1>1, Zenon DEF EncodeWith
<1>3. \A s : EncodeWith(code, [bytes |-> s]) = EncodeBytes(s)
  BY <1>1, Zenon DEF EncodeWith
<1>4. \A s : EncodeWith(code, [list |-> s]) =
                <<"l">> \o FlattenSeq([i \in 1..Len(s) |-> code[s[i]]]) \o <<"e">>
  BY <1>1, Zenon DEF EncodeWith
<1>5. \A items : EncodeWith(code, [dict |-> items]) =
         <<"d">> \o FlattenSeq([i \in 1..Len(SortedItems(items)) |->
                                   EncodeItem(code, SortedItems(items)[i])]) \o <<"e">>
  BY <1>1, Zenon DEF EncodeWith
<1> QED
  BY <1>2, <1>3, <1>4, <1>5

(* The values whose parts are in a set.                                    *)
LEMMA ValuesWithFacts ==
    ASSUME NEW inner
    PROVE  /\ \A n \in Int : [int |-> n] \in ValuesWith(inner)
           /\ \A s \in Texts : [bytes |-> s] \in ValuesWith(inner)
           /\ \A s \in Seq(inner) : [list |-> s] \in ValuesWith(inner)
           /\ \A items \in SUBSET [key : Texts, value : inner] : [dict |-> items] \in ValuesWith(inner)
BY DEF ValuesWith

-----------------------------------------------------------------------------
(* int() on bytes.                                                         *)
Spread == Ten \cup {"_"}

(* Digits and underscores stand for a natural number.                      *)
LEMMA NumberIsNatural ==
    ASSUME NEW s \in Seq(Spread)
    PROVE  Number(s) \in Nat
<1> DEFINE g == CHOOSE h : IsNumberUpTo(s, Len(s), h)
<1>0. Len(s) \in Nat /\ \A k \in 1..Len(s) : s[k] \in Spread
  OBVIOUS
<1>1. IsNumberUpTo(s, Len(s), g)
  BY <1>0, NumberExists
<1>2. Number(s) = g[Len(s)]
  BY DEF Number, IsNumberUpTo
<1> HIDE DEF g
<1>3. ASSUME NEW k \in 0..Len(s)
      PROVE  g[k] = IF k = 0 THEN 0
                    ELSE IF s[k] = "_" THEN g[k - 1]
                    ELSE 10 * g[k - 1] + DigitValue(s[k])
  BY <1>1, Zenon DEF IsNumberUpTo
<1> DEFINE T == {k \in 0..Len(s) : g[k] \in Nat}
<1>4. 0 \in T
  <2>1. 0 \in 0..Len(s)
    BY <1>0
  <2>2. g[0] = 0
    BY <1>3, <2>1, Zenon
  <2> QED
    BY <2>1, <2>2
<1>5. ASSUME NEW k \in 1..Len(s), k - 1 \in T
      PROVE  k \in T
  <2>0. k \in 0..Len(s) /\ k # 0
    OBVIOUS
  <2>1. PICK a \in Nat : a = g[k - 1]
    BY <1>5
  <2>2. CASE s[k] = "_"
    <3>1. g[k] = g[k - 1]
      BY <1>3, <2>0, <2>2, Zenon
    <3> QED
      BY <2>1, <3>1
  <2>3. CASE s[k] # "_"
    <3>1. PICK d \in 0..9 : d = DigitValue(s[k])
      BY <1>0, <2>3, DigitFacts DEF Spread
    <3>2. g[k] = 10 * a + d
      BY <1>3, <2>0, <2>1, <2>3, <3>1, Zenon
    <3> QED
      BY <3>2
  <2> QED
    BY <2>2, <2>3
<1> HIDE DEF T
<1>6. 0..Len(s) \subseteq T
  BY <1>0, <1>4, <1>5, Induction
<1>7. Len(s) \in 0..Len(s)
  BY <1>0
<1> QED
  BY <1>2, <1>6, <1>7 DEF T

(* What int() takes once the blanks are off: digits after at most one sign.*)
LEMMA IntReads ==
    ASSUME NEW S, NEW s \in Seq(S), Strip(s) \in Seq(S), NEW n \in PyInt(s)
    PROVE  /\ Strip(s) # <<>>
           /\ \/ /\ Head(Strip(s)) = "-" /\ Tail(Strip(s)) \in Seq(Spread)
                 /\ Tail(Strip(s)) # <<>> /\ n = -Number(Tail(Strip(s)))
              \/ /\ Head(Strip(s)) = "+" /\ Tail(Strip(s)) \in Seq(Spread)
                 /\ n = Number(Tail(Strip(s)))
              \/ Strip(s) \in Seq(Spread) /\ n = Number(Strip(s))
<1>1. PICK t \in Seq(S) : t = Strip(s)
  OBVIOUS
<1> DEFINE signed == t # <<>> /\ Head(t) \in {"+", "-"}
<1>2. PICK body : body = IF signed THEN Tail(t) ELSE t
  OBVIOUS
<1>3. /\ body # <<>>
      /\ \A k \in DOMAIN body :
            \/ IsDigit(body[k])
            \/ body[k] = "_" /\ k \in 2..(Len(body) - 1) /\ body[k + 1] # "_"
      /\ n = IF signed /\ Head(t) = "-" THEN -Number(body) ELSE Number(body)
  BY <1>1, <1>2 DEF PyInt
<1>4. body \in Seq(S)
  BY <1>2, TailFacts
<1>5. body \in Seq(Spread)
  <2>0. DOMAIN body = 1..Len(body)
    BY <1>4
  <2>1. \A k \in 1..Len(body) : body[k] \in Spread
    <3>1. \A k \in DOMAIN body : IsDigit(body[k]) \/ body[k] = "_"
      BY <1>3
    <3>2. \A k \in DOMAIN body : body[k] \in Spread
      BY <3>1, DigitFacts DEF Spread
    <3> QED
      BY <2>0, <3>2
  <2> QED
    BY <1>4, <2>1
<1>6. t # <<>>
  BY <1>2, <1>3
<1>7. CASE Head(t) = "-"
  BY <1>1, <1>2, <1>3, <1>5, <1>6, <1>7
<1>8. CASE Head(t) = "+"
  BY <1>1, <1>2, <1>3, <1>5, <1>6, <1>8
<1>9. CASE Head(t) # "-" /\ Head(t) # "+"
  BY <1>1, <1>2, <1>3, <1>5, <1>6, <1>9
<1> QED
  BY <1>7, <1>8, <1>9

(* strip() keeps every symbol that is no blank.                            *)
LEMMA StripFacts ==
    ASSUME NEW S, NEW s \in Seq(S)
    PROVE  /\ Strip(s) \in Seq(S)
           /\ s # <<>> /\ s[1] # "space" => Strip(s) # <<>> /\ Strip(s)[1] = s[1]
           /\ \A k \in 1..Len(s) : s[k] # "space" => \E j \in 1..Len(Strip(s)) : Strip(s)[j] = s[k]
<1> DEFINE kept == {k \in 1..Len(s) : s[k] # "space"}
<1>0. DOMAIN s = 1..Len(s) /\ Len(s) \in Nat
  OBVIOUS
<1>4. \A i \in 1..Len(s) : Len(s) - i \in Nat
  <2>1. PICK len \in Nat : len = Len(s)
    BY <1>0
  <2>2. \A i \in 1..len : len - i \in Nat
    OBVIOUS
  <2> QED
    BY <2>1, <2>2
<1>1. Strip(s) = IF kept = {} THEN <<>> ELSE SubSeq(s, Min(kept), Max(kept))
  BY <1>0 DEF Strip
<1>2. CASE kept = {}
  <2>1. Strip(s) = <<>>
    BY <1>1, <1>2, Zenon
  <2>2. s # <<>> => 1 \in 1..Len(s)
    BY <1>0, EmptySeq
  <2>3. s # <<>> => s[1] = "space"
    BY <1>2, <2>2
  <2>4. \A k \in 1..Len(s) : ~(s[k] # "space")
    BY <1>2
  <2> QED
    BY <2>1, <2>3, <2>4
<1>3. CASE kept # {}
  <2>1. PICK a \in kept : \A k \in kept : a <= k
    <3>1. kept \in SUBSET Nat
      OBVIOUS
    <3> HIDE DEF kept
    <3> QED
      BY <1>3, <3>1, LeastNumber
  <2>2. PICK b \in kept : \A k \in kept : b >= k
    <3> DEFINE far == {m \in Nat : \E k \in kept : m = Len(s) - k}
    <3>1. far \in SUBSET Nat /\ far # {}
      <4>1. Len(s) - a \in Nat
        BY <1>0
      <4> QED
        BY <2>1, <4>1
    <3>2. PICK m \in far : \A k \in far : m <= k
      <4> HIDE DEF far
      <4> QED
        BY <3>1, LeastNumber
    <3>3. PICK k \in kept : m = Len(s) - k
      BY <3>2
    <3>4. ASSUME NEW j \in kept
          PROVE  k >= j
      <4>0. Len(s) - j \in Nat
        <5>1. j \in 1..Len(s)
          OBVIOUS
        <5> QED
          BY <1>4, <5>1
      <4>1. Len(s) - j \in far
        BY <3>4, <4>0
      <4>2. m <= Len(s) - j
        BY <3>2, <4>1
      <4> QED
        BY <1>0, <3>3, <4>2
    <3> QED
      BY <3>4
  <2>3. a \in 1..Len(s) /\ b \in 1..Len(s) /\ a <= b /\ kept \subseteq Int
    BY <2>1, <2>2
  <2>4. Min(kept) = a /\ Max(kept) = b
    <3> HIDE DEF kept
    <3> QED
      BY <2>1, <2>2, <2>3, LeastIsMin, GreatestIsMax
  <2>5. Strip(s) = SubSeq(s, a, b)
    BY <1>1, <1>3, <2>4, Zenon
  <2>6. /\ SubSeq(s, a, b) \in Seq(S) /\ Len(SubSeq(s, a, b)) = b - a + 1
        /\ \A k \in 1..(b - a + 1) : SubSeq(s, a, b)[k] = s[a + k - 1]
    <3>1. a \in Nat /\ b \in Nat /\ 1 <= a /\ a <= b + 1 /\ b <= Len(s)
      BY <1>0, <2>3
    <3> QED
      BY <3>1, SubSeqFacts
  <2>7. PICK x \in Seq(S) : x = SubSeq(s, a, b)
    BY <2>6
  <2>8. ASSUME s # <<>>, s[1] # "space"
        PROVE  x # <<>> /\ x[1] = s[1]
    <3>1. 1 \in kept
      BY <1>0, <2>8, EmptySeq
    <3>2. a = 1
      BY <2>1, <2>3, <3>1
    <3>3. Len(x) = b - a + 1 /\ b - a + 1 \in Nat \ {0}
      BY <2>3, <2>6, <2>7
    <3>4. x[1] = s[a + 1 - 1]
      BY <2>6, <2>7, <3>3
    <3> QED
      BY <3>2, <3>3, <3>4
  <2>9. ASSUME NEW k \in 1..Len(s), s[k] # "space"
        PROVE  \E j \in 1..Len(x) : x[j] = s[k]
    <3>1. a <= k /\ k <= b
      <4>1. k \in kept
        BY <2>9
      <4> QED
        BY <2>1, <2>2, <4>1
    <3>2. Len(x) = b - a + 1 /\ k - a + 1 \in 1..(b - a + 1) /\ a + (k - a + 1) - 1 = k
      BY <2>3, <2>6, <2>7, <3>1
    <3>3. x[k - a + 1] = s[a + (k - a + 1) - 1]
      BY <2>6, <2>7, <3>2
    <3> QED
      BY <3>2, <3>3
  <2> QED
    BY <2>5, <2>7, <2>8, <2>9
<1> QED
  BY <1>2, <1>3

(* int() returns integers, and natural numbers of what begins with a       *)
(* digit.                                                                  *)
LEMMA IntsAreIntegers ==
    ASSUME NEW S, NEW s \in Seq(S), NEW n \in PyInt(s)
    PROVE  n \in Int /\ (s # <<>> /\ s[1] \in Ten => n \in Nat)
<1>1. PICK t \in Seq(S) : t = Strip(s)
  BY StripFacts
<1>2. /\ t # <<>>
      /\ \/ /\ Head(t) = "-" /\ Tail(t) \in Seq(Spread)
            /\ Tail(t) # <<>> /\ n = -Number(Tail(t))
         \/ /\ Head(t) = "+" /\ Tail(t) \in Seq(Spread)
            /\ n = Number(Tail(t))
         \/ t \in Seq(Spread) /\ n = Number(t)
  BY <1>1, IntReads
<1>3. CASE Head(t) = "-" /\ Tail(t) \in Seq(Spread) /\ n = -Number(Tail(t))
  <2>1. PICK m \in Nat : n = -m
    BY <1>3, NumberIsNatural
  <2>2. s # <<>> /\ s[1] \in Ten => FALSE
    <3> SUFFICES ASSUME s # <<>>, s[1] \in Ten
                 PROVE  FALSE
      OBVIOUS
    <3>1. s[1] # "space"
      BY DEF Ten
    <3>2. t[1] = s[1]
      BY <1>1, <3>1, StripFacts
    <3>3. Head(t) = t[1]
      BY <1>2, TailFacts
    <3> QED
      BY <1>3, <3>2, <3>3 DEF Ten
  <2> QED
    BY <2>1, <2>2
<1>4. CASE Tail(t) \in Seq(Spread) /\ n = Number(Tail(t))
  <2>1. n \in Nat
    BY <1>4, NumberIsNatural
  <2> QED
    BY <2>1
<1>5. CASE t \in Seq(Spread) /\ n = Number(t)
  <2>1. n \in Nat
    <3>1. PICK u \in Seq(Spread) : u = t
      BY <1>5
    <3> QED
      BY <1>5, <3>1, NumberIsNatural
  <2> QED
    BY <2>1
<1> QED
  BY <1>2, <1>3, <1>4, <1>5

(* Without blanks, plus signs and underscores only a numeral is a number.  *)
Plain == Range(Symbols) \ {"space", "+", "_"}

(* What int() takes in a text of plain symbols without a leading zero: a   *)
(* numeral, or a minus sign and one.                                       *)
LEMMA PlainInt ==
    ASSUME NEW s \in Seq(Plain), NEW n \in PyInt(s), ~LeadingZero(s)
    PROVE  \/ IsNumeral(s) /\ n = Number(s)
           \/ s # <<>> /\ Head(s) = "-" /\ Tail(s) \in Seq(Ten) /\ Tail(s) # <<>> /\ n = -Number(Tail(s))
<1>1. Strip(s) = s
  BY StripKeeps DEF Plain
<1>2. /\ s # <<>>
      /\ \/ /\ Head(s) = "-" /\ Tail(s) \in Seq(Spread)
            /\ Tail(s) # <<>> /\ n = -Number(Tail(s))
         \/ /\ Head(s) = "+" /\ Tail(s) \in Seq(Spread)
            /\ n = Number(Tail(s))
         \/ s \in Seq(Spread) /\ n = Number(s)
  BY <1>1, IntReads
<1>3. "+" \notin Plain /\ "_" \notin Plain
  BY DEF Plain
<1>4. ASSUME NEW t \in Seq(Plain), t \in Seq(Spread)
      PROVE  t \in Seq(Ten)
  <2>1. \A k \in 1..Len(t) : t[k] \in Plain
    OBVIOUS
  <2>3. \A k \in 1..Len(t) : t[k] \in Spread
    BY ONLY t \in Seq(Spread)
  <2>2. \A k \in 1..Len(t) : t[k] \in Ten
    BY <1>3, <2>1, <2>3 DEF Spread
  <2> QED
    BY <2>2
<1>5. Tail(s) \in Seq(Plain) /\ Head(s) \in Plain
  <2>1. Tail(s) \in Seq(Plain) /\ Head(s) = s[1]
    BY <1>2, TailFacts
  <2>2. 1 \in 1..Len(s)
    BY <1>2, EmptySeq
  <2> QED
    BY <2>1, <2>2
<1>6. CASE Head(s) = "-" /\ Tail(s) \in Seq(Spread) /\ Tail(s) # <<>> /\ n = -Number(Tail(s))
  BY <1>2, <1>4, <1>5, <1>6
<1>7. CASE Head(s) = "+"
  BY <1>3, <1>5, <1>7
<1>8. CASE s \in Seq(Spread) /\ n = Number(s)
  BY <1>2, <1>4, <1>8 DEF IsNumeral
<1> QED
  BY <1>2, <1>6, <1>7, <1>8

(* The decoder's checks leave one text for each number.                    *)
LEMMA SignedInverts ==
    ASSUME NEW s \in Seq(Plain), NEW n \in PyInt(s),
           ~LeadingZero(s), ~IsPrefix(<<"-", "0">>, s)
    PROVE  n \in Int /\ Signed(n) = s
<1>1. CASE IsNumeral(s) /\ n = Number(s)
  <2>1. n \in Nat /\ Decimal(n) = s
    BY <1>1, NumeralIsDecimal
  <2>2. ~(n < 0)
    BY <2>1
  <2> QED
    BY <2>1, <2>2 DEF Signed
<1>2. CASE s # <<>> /\ Head(s) = "-" /\ Tail(s) \in Seq(Ten) /\ Tail(s) # <<>> /\ n = -Number(Tail(s))
  <2>1. PICK t \in Seq(Ten) : t = Tail(s) /\ t # <<>>
    BY <1>2
  <2>2. s = <<"-">> \o t /\ Len(t) = Len(s) - 1 /\ s[1] = "-" /\ t[1] = s[2] /\ Len(s) \in Nat /\ Len(s) >= 2
    <3>1. /\ Len(Tail(s)) = Len(s) - 1 /\ Head(s) = s[1]
          /\ \A k \in 1..(Len(s) - 1) : Tail(s)[k] = s[k + 1]
          /\ s = <<Head(s)>> \o Tail(s)
      BY <1>2, TailFacts
    <3>2. Len(t) \in Nat \ {0} /\ Len(s) \in Nat
      BY <2>1, EmptySeq
    <3>3. 1 \in 1..(Len(s) - 1) /\ Len(s) >= 2
      BY <2>1, <3>1, <3>2
    <3> QED
      BY <1>2, <2>1, <3>1, <3>2, <3>3
  <2>3. t[1] # "0"
    <3> SUFFICES ASSUME t[1] = "0"
                 PROVE  IsPrefix(<<"-", "0">>, s)
      OBVIOUS
    <3>1. Len(<<"-", "0">>) = 2 /\ SubSeq(<<"-", "0">>, 1, 2) = <<"-", "0">>
      BY ONLY SliceOfPair
    <3>2. SubSeq(s, 1, 2) = <<s[1], s[2]>>
      BY <2>2, SliceOfTwo
    <3>3. SubSeq(s, 1, 2) = <<"-", "0">>
      BY <2>2, <3>2
    <3> QED
      BY <2>2, <3>1, <3>3 DEF IsPrefix
  <2>4. IsNumeral(t)
    BY <2>1, <2>3 DEF IsNumeral, LeadingZero
  <2>5. PICK m \in Nat : m = Number(t) /\ Decimal(m) = t
    BY <2>4, NumeralIsDecimal
  <2>6. m # 0
    <3>1. Decimal(0) = <<Digits[1]>>
      <4>1. 0 < 10 /\ 0 + 1 = 1 /\ 0 \in Nat
        OBVIOUS
      <4> QED
        BY <4>1, DecimalSteps, Zenon
    <3>2. Digits[1] = "0"
      BY DEF Digits
    <3>3. m = 0 => t[1] = "0"
      BY <2>5, <3>1, <3>2
    <3> QED
      BY <2>3, <3>3
  <2>7. n = -m /\ n < 0 /\ -n = m
    BY <1>2, <2>1, <2>5, <2>6
  <2>8. Signed(n) = <<"-">> \o t
    BY <2>5, <2>7, Zenon DEF Signed
  <2> QED
    BY <2>2, <2>7, <2>8
<1> QED
  BY <1>1, <1>2, PlainInt

-----------------------------------------------------------------------------
(* The parser.                                                             *)
LEMMA FindFacts ==
    ASSUME NEW S, NEW data \in Seq(S), NEW c, NEW i \in Nat, NEW k \in Find(data, c, i)
    PROVE  k \in i..Len(data) /\ data[k] = c /\ \A j \in i..(k - 1) : data[j] # c
<1> DEFINE found == {j \in i..Len(data) : data[j] = c}
<1>1. found # {} /\ k = Min(found)
  BY DEF Find
<1>2. PICK m \in found : \A j \in found : m <= j
  <2>1. found \in SUBSET Nat
    OBVIOUS
  <2> HIDE DEF found
  <2> QED
    BY <1>1, <2>1, LeastNumber
<1>3. Min(found) = m
  <2>1. found \subseteq Int
    OBVIOUS
  <2> HIDE DEF found
  <2> QED
    BY <1>2, <2>1, LeastIsMin
<1>4. m \in i..Len(data) /\ data[m] = c
  BY <1>2
<1>5. \A j \in i..(m - 1) : data[j] # c
  <2> TAKE j \in i..(m - 1)
  <2>1. j \in i..Len(data) /\ j < m
    BY <1>4
  <2> QED
    BY <1>2, <2>1
<1> QED
  BY <1>1, <1>3, <1>4, <1>5

(* bytes.find returns the first place of the symbol.                       *)
LEMMA FindsFirst ==
    ASSUME NEW S, NEW data \in Seq(S), NEW c, NEW i \in Nat, NEW k \in i..Len(data),
           data[k] = c, \A j \in i..(k - 1) : data[j] # c
    PROVE  Find(data, c, i) = {k}
<1> DEFINE found == {j \in i..Len(data) : data[j] = c}
<1>1. k \in found /\ found \subseteq Int
  OBVIOUS
<1>2. \A j \in found : k <= j
  <2> TAKE j \in found
  <2>1. j < k => j \in i..(k - 1)
    OBVIOUS
  <2>2. j \in Int /\ k \in Int /\ data[j] = c
    OBVIOUS
  <2> QED
    BY <2>1, <2>2
<1>3. Find(data, c, i) = IF found = {} THEN {} ELSE {Min(found)}
  BY DEF Find
<1> HIDE DEF found
<1>4. Min(found) = k
  BY <1>1, <1>2, LeastIsMin
<1> QED
  BY <1>1, <1>3, <1>4

(* What the parser returns.                                                *)
LEMMA ParsedFacts ==
    \A v, n : Parsed(v, n).value = v /\ Parsed(v, n).next = n
BY DEF Parsed

(* Where a value that begins with each symbol comes from.                  *)
LEMMA ParseValueAt ==
    ASSUME NEW data, NEW g, NEW i
    PROVE  /\ i > Len(data) => ParseValue(data, g, i) = {}
           /\ ~(i > Len(data)) =>
                 /\ data[i] = "i" => ParseValue(data, g, i) = ParseInteger(data, i)
                 /\ data[i] = "l" =>
                       ParseValue(data, g, i) =
                          {Parsed([list |-> rest.value], rest.next) : rest \in g[i + 1]["list"]}
                 /\ data[i] = "d" =>
                       ParseValue(data, g, i) =
                          {Parsed([dict |-> Range(rest.value)], rest.next) : rest \in g[i + 1]["dict"]}
                 /\ data[i] \in Ten => ParseValue(data, g, i) = ParseBytes(data, i)
                 /\ data[i] \notin {"i", "l", "d"} \cup Ten => ParseValue(data, g, i) = {}
<1>1. "i" \notin Ten /\ "l" \notin Ten /\ "d" \notin Ten /\ "i" # "l" /\ "i" # "d" /\ "l" # "d"
  BY DEF Ten
<1>2. data[i] \in Ten => data[i] # "i" /\ data[i] # "l" /\ data[i] # "d" /\ IsDigit(data[i])
  BY <1>1, DigitFacts
<1>3. data[i] \notin {"i", "l", "d"} \cup Ten =>
         data[i] # "i" /\ data[i] # "l" /\ data[i] # "d" /\ ~IsDigit(data[i])
  BY DigitFacts
<1>4. i > Len(data) => ParseValue(data, g, i) = {}
  BY Zenon DEF ParseValue
<1>5. ASSUME ~(i > Len(data)), data[i] = "i"
      PROVE  ParseValue(data, g, i) = ParseInteger(data, i)
  BY <1>5, Zenon DEF ParseValue
<1>6. ASSUME ~(i > Len(data)), data[i] = "l"
      PROVE  ParseValue(data, g, i) =
                {Parsed([list |-> rest.value], rest.next) : rest \in g[i + 1]["list"]}
  <2>1. data[i] # "i"
    BY <1>6, <1>1
  <2> QED
    BY <1>6, <2>1, Zenon DEF ParseValue
<1>7. ASSUME ~(i > Len(data)), data[i] = "d"
      PROVE  ParseValue(data, g, i) =
                {Parsed([dict |-> Range(rest.value)], rest.next) : rest \in g[i + 1]["dict"]}
  <2>1. data[i] # "i" /\ data[i] # "l"
    BY <1>7, <1>1
  <2> QED
    BY <1>7, <2>1, Zenon DEF ParseValue
<1>8. ASSUME ~(i > Len(data)), data[i] \in Ten
      PROVE  ParseValue(data, g, i) = ParseBytes(data, i)
  BY <1>2, <1>8, Zenon DEF ParseValue
<1>9. ASSUME ~(i > Len(data)), data[i] \notin {"i", "l", "d"} \cup Ten
      PROVE  ParseValue(data, g, i) = {}
  BY <1>3, <1>9, Zenon DEF ParseValue
<1> QED
  BY <1>4, <1>5, <1>6, <1>7, <1>8, <1>9

(* What ParseInteger reads at position i, and under which checks.          *)
IsInteger(data, i, x) ==
    \E end \in (i + 1)..Len(data) :
        LET raw == SubSeq(data, i + 1, end - 1) IN
        /\ data[end] = "e"
        /\ ~LeadingZero(raw) /\ ~IsPrefix(<<"-", "0">>, raw)
        /\ \E n \in PyInt(raw) : x = Parsed([int |-> n], end + 1)

(* What the decoder of an integer accepts.                                 *)
LEMMA IntegerParsed ==
    ASSUME NEW S, NEW data \in Seq(S), NEW i \in Nat, NEW x \in ParseInteger(data, i)
    PROVE  IsInteger(data, i, x)
<1>1. PICK end \in Find(data, "e", i + 1) :
         x \in LET raw == SubSeq(data, i + 1, end - 1) IN
               IF LeadingZero(raw) \/ IsPrefix(<<"-", "0">>, raw)
               THEN {}
               ELSE {Parsed([int |-> n], end + 1) : n \in PyInt(raw)}
  BY DEF ParseInteger
<1>2. end \in (i + 1)..Len(data) /\ data[end] = "e"
  <2>1. i + 1 \in Nat
    OBVIOUS
  <2> QED
    BY <2>1, FindFacts
<1>3. PICK raw : raw = SubSeq(data, i + 1, end - 1)
  OBVIOUS
<1>4. /\ ~LeadingZero(raw) /\ ~IsPrefix(<<"-", "0">>, raw)
      /\ \E n \in PyInt(raw) : x = Parsed([int |-> n], end + 1)
  <2>1. x \in IF LeadingZero(raw) \/ IsPrefix(<<"-", "0">>, raw)
              THEN {}
              ELSE {Parsed([int |-> n], end + 1) : n \in PyInt(raw)}
    BY <1>1, <1>3
  <2>2. CASE LeadingZero(raw) \/ IsPrefix(<<"-", "0">>, raw)
    BY <2>1, <2>2
  <2>3. CASE ~(LeadingZero(raw) \/ IsPrefix(<<"-", "0">>, raw))
    BY <2>1, <2>3
  <2> QED
    BY <2>2, <2>3
<1> QED
  BY <1>2, <1>3, <1>4, Zenon DEF IsInteger

(* What ParseBytes reads at position i, and under which checks.            *)
AreBytes(data, i, x) ==
    \E colon \in i..Len(data) :
        LET raw == SubSeq(data, i, colon - 1) IN
        /\ data[colon] = ":"
        /\ ~LeadingZero(raw)
        /\ \E n \in PyInt(raw) :
              /\ colon + n <= Len(data)
              /\ x = Parsed([bytes |-> SubSeq(data, colon + 1, colon + n)], colon + n + 1)

(* What the decoder of a byte string accepts.                              *)
LEMMA BytesParsed ==
    ASSUME NEW S, NEW data \in Seq(S), NEW i \in Nat, NEW x \in ParseBytes(data, i)
    PROVE  AreBytes(data, i, x)
<1>1. PICK colon \in Find(data, ":", i) :
         x \in LET raw == SubSeq(data, i, colon - 1) IN
               IF LeadingZero(raw)
               THEN {}
               ELSE {Parsed([bytes |-> SubSeq(data, colon + 1, colon + n)], colon + n + 1)
                       : n \in {m \in PyInt(raw) : colon + m <= Len(data)}}
  BY DEF ParseBytes
<1>2. colon \in i..Len(data) /\ data[colon] = ":"
  BY FindFacts
<1>3. PICK raw : raw = SubSeq(data, i, colon - 1)
  OBVIOUS
<1>4. /\ ~LeadingZero(raw)
      /\ \E n \in PyInt(raw) :
            /\ colon + n <= Len(data)
            /\ x = Parsed([bytes |-> SubSeq(data, colon + 1, colon + n)], colon + n + 1)
  <2>1. x \in IF LeadingZero(raw)
              THEN {}
              ELSE {Parsed([bytes |-> SubSeq(data, colon + 1, colon + n)], colon + n + 1)
                      : n \in {m \in PyInt(raw) : colon + m <= Len(data)}}
    BY <1>1, <1>3
  <2>2. CASE LeadingZero(raw)
    BY <2>1, <2>2
  <2>3. CASE ~LeadingZero(raw)
    BY <2>1, <2>3
  <2> QED
    BY <2>2, <2>3
<1> QED
  BY <1>2, <1>3, <1>4, Zenon DEF AreBytes

(* What the decoder of a list accepts: the end mark, or a value and the    *)
(* rest of the list.                                                       *)
LEMMA ListParsed ==
    ASSUME NEW data, NEW g, NEW i
    PROVE  /\ i > Len(data) => ParseList(data, g, i) = {}
           /\ ~(i > Len(data)) =>
                 /\ data[i] = "e" => ParseList(data, g, i) = {Parsed(<<>>, i + 1)}
                 /\ data[i] # "e" => \A x :
                       x \in ParseList(data, g, i) <=>
                          \E item \in ParseValue(data, g, i) : \E rest \in g[item.next]["list"] :
                             x = Parsed(<<item.value>> \o rest.value, rest.next)
<1>1. i > Len(data) => ParseList(data, g, i) = {}
  BY Zenon DEF ParseList
<1>2. ~(i > Len(data)) /\ data[i] = "e" => ParseList(data, g, i) = {Parsed(<<>>, i + 1)}
  BY Zenon DEF ParseList
<1>3. ASSUME ~(i > Len(data)), data[i] # "e"
      PROVE  \A x :
                x \in ParseList(data, g, i) <=>
                   \E item \in ParseValue(data, g, i) : \E rest \in g[item.next]["list"] :
                      x = Parsed(<<item.value>> \o rest.value, rest.next)
  <2>1. ParseList(data, g, i) =
           UNION {{Parsed(<<item.value>> \o rest.value, rest.next) : rest \in g[item.next]["list"]}
                    : item \in ParseValue(data, g, i)}
    BY <1>3, Zenon DEF ParseList
  <2> QED
    BY <2>1
<1> QED
  BY <1>1, <1>2, <1>3

(* The first item of a dictionary, and the others after it.                *)
StartsWithItem(data, g, i, x) ==
    \E key \in ParseValue(data, g, i) :
       /\ "bytes" \in DOMAIN key.value
       /\ \E item \in g[key.next]["value"] : \E rest \in g[item.next]["dict"] :
             /\ Precedes(key.value.bytes, rest.value)
             /\ x = Parsed(<<[key |-> key.value.bytes, value |-> item.value]>>
                              \o rest.value, rest.next)

(* What the decoder of a dictionary accepts: the end mark, or an item and  *)
(* the rest of it.                                                         *)
LEMMA DictionaryParsed ==
    ASSUME NEW data, NEW g, NEW i
    PROVE  /\ i > Len(data) => ParseDictionary(data, g, i) = {}
           /\ ~(i > Len(data)) =>
                 /\ data[i] = "e" => ParseDictionary(data, g, i) = {Parsed(<<>>, i + 1)}
                 /\ data[i] # "e" => \A x :
                       x \in ParseDictionary(data, g, i) <=> StartsWithItem(data, g, i, x)
<1>1. i > Len(data) => ParseDictionary(data, g, i) = {}
  BY Zenon DEF ParseDictionary
<1>2. ~(i > Len(data)) /\ data[i] = "e" => ParseDictionary(data, g, i) = {Parsed(<<>>, i + 1)}
  BY Zenon DEF ParseDictionary
<1>3. ASSUME ~(i > Len(data)), data[i] # "e", NEW x
      PROVE  x \in ParseDictionary(data, g, i) <=> StartsWithItem(data, g, i, x)
  <2> DEFINE One(key, item, rest) ==
                Parsed(<<[key |-> key.value.bytes, value |-> item.value]>> \o rest.value, rest.next)
             Rests(key, item) == {r \in g[item.next]["dict"] : Precedes(key.value.bytes, r.value)}
             Ends(key, item) == {One(key, item, rest) : rest \in Rests(key, item)}
             OfKey(key) == UNION {Ends(key, item) : item \in g[key.next]["value"]}
             Keys == {k \in ParseValue(data, g, i) : "bytes" \in DOMAIN k.value}
  <2>1. ParseDictionary(data, g, i) = UNION {OfKey(key) : key \in Keys}
    BY <1>3, Zenon DEF ParseDictionary
  <2>2. \A key, item, y : y \in Ends(key, item) <=>
           \E rest \in g[item.next]["dict"] :
              Precedes(key.value.bytes, rest.value) /\ y = One(key, item, rest)
    <3> HIDE DEF One
    <3> QED
      OBVIOUS
  <2> HIDE DEF Ends
  <2>3. \A key, y : y \in OfKey(key) <=> \E item \in g[key.next]["value"] : y \in Ends(key, item)
    OBVIOUS
  <2> HIDE DEF OfKey
  <2>4. \A y : y \in UNION {OfKey(key) : key \in Keys} <=> \E key \in Keys : y \in OfKey(key)
    OBVIOUS
  <2>5. \A key : key \in Keys <=> key \in ParseValue(data, g, i) /\ "bytes" \in DOMAIN key.value
    OBVIOUS
  <2> HIDE DEF Keys
  <2>6. \A y : y \in ParseDictionary(data, g, i) <=>
           \E key \in Keys : \E item \in g[key.next]["value"] : y \in Ends(key, item)
    BY <2>1, <2>3, <2>4, Zenon
  <2>7. \A y : y \in ParseDictionary(data, g, i) <=>
           \E key \in ParseValue(data, g, i) :
              /\ "bytes" \in DOMAIN key.value
              /\ \E item \in g[key.next]["value"] : y \in Ends(key, item)
    BY <2>5, <2>6, Zenon
  <2>8. x \in ParseDictionary(data, g, i) <=>
                 \E key \in ParseValue(data, g, i) :
                    /\ "bytes" \in DOMAIN key.value
                    /\ \E item \in g[key.next]["value"] : \E rest \in g[item.next]["dict"] :
                          /\ Precedes(key.value.bytes, rest.value)
                          /\ x = One(key, item, rest)
    <3> HIDE DEF One
    <3>1. CASE x \in ParseDictionary(data, g, i)
      BY <2>2, <2>7, <3>1
    <3>2. CASE x \notin ParseDictionary(data, g, i)
      BY <2>2, <2>7, <3>2
    <3> QED
      BY <3>1, <3>2
  <2> QED
    BY <2>8, Zenon DEF StartsWithItem
<1> QED
  BY <1>1, <1>2, <1>3

(* A length is a number without a sign, for a digit comes first.           *)
LEMMA BytesRead ==
    ASSUME NEW S, NEW data \in Seq(S), NEW i \in 1..Len(data), data[i] \in Ten,
           NEW x \in ParseBytes(data, i)
    PROVE  \E colon \in (i + 1)..Len(data) : \E n \in Nat :
              /\ data[colon] = ":"
              /\ ~LeadingZero(SubSeq(data, i, colon - 1))
              /\ n \in PyInt(SubSeq(data, i, colon - 1))
              /\ colon + n <= Len(data)
              /\ x = Parsed([bytes |-> SubSeq(data, colon + 1, colon + n)], colon + n + 1)
<1>1. AreBytes(data, i, x)
  BY BytesParsed
<1>2. PICK colon \in i..Len(data) :
         LET raw == SubSeq(data, i, colon - 1) IN
         /\ data[colon] = ":"
         /\ ~LeadingZero(raw)
         /\ \E n \in PyInt(raw) :
               /\ colon + n <= Len(data)
               /\ x = Parsed([bytes |-> SubSeq(data, colon + 1, colon + n)], colon + n + 1)
  BY <1>1, Zenon DEF AreBytes
<1>3. PICK raw : raw = SubSeq(data, i, colon - 1)
  OBVIOUS
<1>4. /\ data[colon] = ":"
      /\ ~LeadingZero(raw)
      /\ \E n \in PyInt(raw) :
            /\ colon + n <= Len(data)
            /\ x = Parsed([bytes |-> SubSeq(data, colon + 1, colon + n)], colon + n + 1)
  BY <1>2, <1>3
<1>5. PICK n \in PyInt(raw) :
         /\ colon + n <= Len(data)
         /\ x = Parsed([bytes |-> SubSeq(data, colon + 1, colon + n)], colon + n + 1)
  BY <1>4
<1>6. colon # i /\ colon \in (i + 1)..Len(data)
  <2>1. ":" \notin Ten
    BY DEF Ten
  <2>2. colon # i
    BY <1>4, <2>1
  <2> QED
    BY <2>2
<1>7. raw \in Seq(S) /\ raw # <<>> /\ raw[1] = data[i]
  <2>1. i \in Nat /\ colon - 1 \in Nat /\ 1 <= i /\ i <= (colon - 1) + 1 /\ colon - 1 <= Len(data)
    BY <1>6
  <2>2. /\ SubSeq(data, i, colon - 1) \in Seq(S)
        /\ Len(SubSeq(data, i, colon - 1)) = (colon - 1) - i + 1
        /\ \A k \in 1..((colon - 1) - i + 1) : SubSeq(data, i, colon - 1)[k] = data[i + k - 1]
    BY <2>1, SubSeqFacts
  <2>3. 1 \in 1..((colon - 1) - i + 1) /\ i + 1 - 1 = i /\ (colon - 1) - i + 1 # 0
    BY <1>6
  <2> QED
    BY <1>3, <2>2, <2>3
<1>8. n \in Nat
  BY <1>7, IntsAreIntegers
<1> QED
  BY <1>3, <1>4, <1>5, <1>6, <1>8

(* The table of the parser, from position m on.                            *)
Parts == {"value", "list", "dict"}

(* The row of the parser's table at position i.                            *)
PartsOf(data, g, i) ==
    [part \in Parts |->
        IF part = "value" THEN ParseValue(data, g, i)
        ELSE IF part = "list" THEN ParseList(data, g, i)
        ELSE ParseDictionary(data, g, i)]

(* Whatever is read ends further on, in the text or right after it.        *)
Advances(data, g, m) ==
    \A i \in m..(Len(data) + 1) : \A part \in Parts : \A x \in g[i][part] :
        x.next \in (i + 1)..(Len(data) + 1)

(* The three decoders at one place of a text.                              *)
LEMMA PartsOfFacts ==
    ASSUME NEW data, NEW g, NEW i
    PROVE  /\ PartsOf(data, g, i)["value"] = ParseValue(data, g, i)
           /\ PartsOf(data, g, i)["list"] = ParseList(data, g, i)
           /\ PartsOf(data, g, i)["dict"] = ParseDictionary(data, g, i)
<1>1. "value" \in Parts /\ "list" \in Parts /\ "dict" \in Parts
      /\ "list" # "value" /\ "dict" # "value" /\ "dict" # "list"
  BY DEF Parts
<1> QED
  BY <1>1, Zenon DEF PartsOf

(* The decoder of a value stops after the place it starts at, and within   *)
(* the text.                                                               *)
LEMMA ValuesAdvance ==
    ASSUME NEW S, NEW data \in Seq(S), NEW i \in 1..(Len(data) + 1), NEW g,
           Advances(data, g, i + 1), NEW x \in ParseValue(data, g, i)
    PROVE  i <= Len(data) /\ x.next \in (i + 1)..(Len(data) + 1)
<1>0. Len(data) \in Nat
  OBVIOUS
<1>1. i <= Len(data) /\ ~(i > Len(data)) /\ i + 1 \in (i + 1)..(Len(data) + 1)
  <2>1. ~(i > Len(data))
    BY ParseValueAt
  <2> QED
    BY <1>0, <2>1
<1>2. CASE data[i] = "i"
  <2>1. IsInteger(data, i, x)
    <3>1. x \in ParseInteger(data, i)
      BY <1>1, <1>2, ParseValueAt
    <3> QED
      BY <3>1, IntegerParsed
  <2>2. PICK end \in (i + 1)..Len(data) : \E n : x = Parsed([int |-> n], end + 1)
    BY <2>1, Zenon DEF IsInteger
  <2>3. x.next = end + 1
    BY <2>2, ParsedFacts
  <2> QED
    BY <1>1, <2>3
<1>3. CASE data[i] = "l"
  <2>1. PICK rest \in g[i + 1]["list"] : x = Parsed([list |-> rest.value], rest.next)
    BY <1>1, <1>3, ParseValueAt
  <2>2. x.next = rest.next
    BY <2>1, ParsedFacts
  <2>3. rest.next \in (i + 1 + 1)..(Len(data) + 1)
    BY <1>1, <2>1 DEF Advances, Parts
  <2> QED
    BY <1>1, <2>2, <2>3
<1>4. CASE data[i] = "d"
  <2>1. PICK rest \in g[i + 1]["dict"] : x = Parsed([dict |-> Range(rest.value)], rest.next)
    BY <1>1, <1>4, ParseValueAt
  <2>2. x.next = rest.next
    BY <2>1, ParsedFacts
  <2>3. rest.next \in (i + 1 + 1)..(Len(data) + 1)
    BY <1>1, <2>1 DEF Advances, Parts
  <2> QED
    BY <1>1, <2>2, <2>3
<1>5. CASE data[i] \in Ten
  <2>0. x \in ParseBytes(data, i)
    BY <1>1, <1>5, ParseValueAt
  <2>1. PICK colon \in (i + 1)..Len(data) : \E n \in Nat :
              /\ data[colon] = ":"
              /\ ~LeadingZero(SubSeq(data, i, colon - 1))
              /\ n \in PyInt(SubSeq(data, i, colon - 1))
              /\ colon + n <= Len(data)
              /\ x = Parsed([bytes |-> SubSeq(data, colon + 1, colon + n)], colon + n + 1)
    <3>1. i \in 1..Len(data)
      BY <1>1
    <3> QED
      BY <1>5, <2>0, <3>1, BytesRead
  <2>2. PICK n \in Nat :
              /\ colon + n <= Len(data)
              /\ x = Parsed([bytes |-> SubSeq(data, colon + 1, colon + n)], colon + n + 1)
    BY <2>1
  <2>3. x.next = colon + n + 1
    BY <2>2, ParsedFacts
  <2> QED
    BY <1>1, <2>2, <2>3
<1>6. CASE data[i] \notin {"i", "l", "d"} \cup Ten
  BY <1>1, <1>6, ParseValueAt
<1> QED
  BY <1>2, <1>3, <1>4, <1>5, <1>6

(* So does that of a list.                                                 *)
LEMMA ListsAdvance ==
    ASSUME NEW S, NEW data \in Seq(S), NEW i \in 1..(Len(data) + 1), NEW g,
           Advances(data, g, i + 1), NEW x \in ParseList(data, g, i)
    PROVE  x.next \in (i + 1)..(Len(data) + 1)
<1>0. Len(data) \in Nat
  OBVIOUS
<1>1. i <= Len(data) /\ ~(i > Len(data))
  <2>1. ~(i > Len(data))
    BY ListParsed
  <2> QED
    BY <1>0, <2>1
<1>2. CASE data[i] = "e"
  <2>1. x = Parsed(<<>>, i + 1)
    BY <1>1, <1>2, ListParsed
  <2>2. x.next = i + 1
    BY <2>1, ParsedFacts
  <2> QED
    BY <1>1, <2>2
<1>3. CASE data[i] # "e"
  <2>1. PICK item \in ParseValue(data, g, i) : \E rest \in g[item.next]["list"] :
           x = Parsed(<<item.value>> \o rest.value, rest.next)
    BY <1>1, <1>3, ListParsed
  <2>6. PICK rest \in g[item.next]["list"] : x = Parsed(<<item.value>> \o rest.value, rest.next)
    BY <2>1
  <2>2. x.next = rest.next
    BY <2>6, ParsedFacts
  <2>3. item.next \in (i + 1)..(Len(data) + 1)
    BY ValuesAdvance
  <2>4. PICK j \in (i + 1)..(Len(data) + 1) : j = item.next
    BY <2>3
  <2>5. rest.next \in (j + 1)..(Len(data) + 1)
    BY <2>4, <2>6 DEF Advances, Parts
  <2> QED
    BY <1>0, <2>2, <2>5
<1> QED
  BY <1>2, <1>3

(* So does that of a dictionary.                                           *)
LEMMA DictionariesAdvance ==
    ASSUME NEW S, NEW data \in Seq(S), NEW i \in 1..(Len(data) + 1), NEW g,
           Advances(data, g, i + 1), NEW x \in ParseDictionary(data, g, i)
    PROVE  x.next \in (i + 1)..(Len(data) + 1)
<1>0. Len(data) \in Nat
  OBVIOUS
<1>1. i <= Len(data) /\ ~(i > Len(data))
  <2>1. ~(i > Len(data))
    BY DictionaryParsed
  <2> QED
    BY <1>0, <2>1
<1>2. CASE data[i] = "e"
  <2>1. x = Parsed(<<>>, i + 1)
    BY <1>1, <1>2, DictionaryParsed
  <2>2. x.next = i + 1
    BY <2>1, ParsedFacts
  <2> QED
    BY <1>1, <2>2
<1>3. CASE data[i] # "e"
  <2>1. PICK key \in ParseValue(data, g, i) :
           /\ "bytes" \in DOMAIN key.value
           /\ \E item \in g[key.next]["value"] : \E rest \in g[item.next]["dict"] :
                 /\ Precedes(key.value.bytes, rest.value)
                 /\ x = Parsed(<<[key |-> key.value.bytes, value |-> item.value]>>
                                  \o rest.value, rest.next)
    <3>1. StartsWithItem(data, g, i, x)
      BY <1>1, <1>3, DictionaryParsed
    <3> QED
      BY <3>1, Zenon DEF StartsWithItem
  <2>2. PICK item \in g[key.next]["value"] : \E rest \in g[item.next]["dict"] :
           x = Parsed(<<[key |-> key.value.bytes, value |-> item.value]>> \o rest.value, rest.next)
    BY <2>1
  <2>8. PICK rest \in g[item.next]["dict"] :
           x = Parsed(<<[key |-> key.value.bytes, value |-> item.value]>> \o rest.value, rest.next)
    BY <2>2
  <2>3. x.next = rest.next
    BY <2>8, ParsedFacts
  <2>4. PICK k \in (i + 1)..(Len(data) + 1) : k = key.next
    <3>1. key.next \in (i + 1)..(Len(data) + 1)
      BY ValuesAdvance
    <3> QED
      BY <3>1
  <2>5. PICK j \in (k + 1)..(Len(data) + 1) : j = item.next
    <3>1. item.next \in (k + 1)..(Len(data) + 1)
      BY <2>2, <2>4 DEF Advances, Parts
    <3> QED
      BY <3>1
  <2>6. j \in (i + 1)..(Len(data) + 1)
    BY <1>0
  <2>7. rest.next \in (j + 1)..(Len(data) + 1)
    BY <2>5, <2>6, <2>8 DEF Advances, Parts
  <2> QED
    BY <1>0, <2>3, <2>6, <2>7
<1> QED
  BY <1>2, <1>3

(* What is read at a position depends on what is read further on only.     *)
LEMMA ValuesAgree ==
    ASSUME NEW S, NEW data \in Seq(S), NEW i \in 1..(Len(data) + 1), NEW g, NEW h,
           \A j \in (i + 1)..(Len(data) + 1) : g[j] = h[j]
    PROVE  ParseValue(data, g, i) = ParseValue(data, h, i)
<1>0. Len(data) \in Nat
  OBVIOUS
<1>1. CASE i > Len(data)
  BY <1>1, ParseValueAt
<1>2. CASE ~(i > Len(data))
  <2>1. g[i + 1] = h[i + 1]
    <3>1. i + 1 \in (i + 1)..(Len(data) + 1)
      BY <1>0, <1>2
    <3> QED
      BY <3>1
  <2>2. CASE data[i] = "i"
    BY <1>2, <2>2, ParseValueAt
  <2>3. CASE data[i] = "l"
    BY <1>2, <2>1, <2>3, ParseValueAt
  <2>4. CASE data[i] = "d"
    BY <1>2, <2>1, <2>4, ParseValueAt
  <2>5. CASE data[i] \in Ten
    <3>1. ParseValue(data, g, i) = ParseBytes(data, i)
      BY <1>2, <2>5, ParseValueAt
    <3>2. ParseValue(data, h, i) = ParseBytes(data, i)
      BY <1>2, <2>5, ParseValueAt
    <3> QED
      BY <3>1, <3>2
  <2>6. CASE data[i] \notin {"i", "l", "d"} \cup Ten
    <3>1. ParseValue(data, g, i) = {}
      BY <1>2, <2>6, ParseValueAt
    <3>2. ParseValue(data, h, i) = {}
      BY <1>2, <2>6, ParseValueAt
    <3> QED
      BY <3>1, <3>2
  <2> QED
    BY <2>2, <2>3, <2>4, <2>5, <2>6
<1> QED
  BY <1>1, <1>2

(* So a row of the table is the same for two tables that agree further on. *)
LEMMA ItemsAgree ==
    ASSUME NEW S, NEW data \in Seq(S), NEW i \in 1..(Len(data) + 1), NEW g, NEW h,
           \A j \in (i + 1)..(Len(data) + 1) : g[j] = h[j], Advances(data, g, i + 1),
           NEW x, StartsWithItem(data, g, i, x)
    PROVE  StartsWithItem(data, h, i, x)
<1>0. Len(data) \in Nat
  OBVIOUS
<1>1. PICK key \in ParseValue(data, g, i) :
         /\ "bytes" \in DOMAIN key.value
         /\ \E item \in g[key.next]["value"] : \E rest \in g[item.next]["dict"] :
               /\ Precedes(key.value.bytes, rest.value)
               /\ x = Parsed(<<[key |-> key.value.bytes, value |-> item.value]>>
                                \o rest.value, rest.next)
  BY Zenon DEF StartsWithItem
<1>2. PICK item \in g[key.next]["value"] : \E rest \in g[item.next]["dict"] :
         /\ Precedes(key.value.bytes, rest.value)
         /\ x = Parsed(<<[key |-> key.value.bytes, value |-> item.value]>>
                          \o rest.value, rest.next)
  BY <1>1
<1>3. PICK rest \in g[item.next]["dict"] :
         /\ Precedes(key.value.bytes, rest.value)
         /\ x = Parsed(<<[key |-> key.value.bytes, value |-> item.value]>>
                          \o rest.value, rest.next)
  BY <1>2
<1>4. PICK k \in (i + 1)..(Len(data) + 1) : k = key.next
  <2>1. key.next \in (i + 1)..(Len(data) + 1)
    BY ValuesAdvance
  <2> QED
    BY <2>1
<1>5. PICK j \in (i + 1)..(Len(data) + 1) : j = item.next
  <2>1. item.next \in (k + 1)..(Len(data) + 1)
    BY <1>2, <1>4 DEF Advances, Parts
  <2>2. item.next \in (i + 1)..(Len(data) + 1)
    BY <1>0, <2>1
  <2> QED
    BY <2>2
<1>6. key \in ParseValue(data, h, i)
  BY ValuesAgree
<1>7. item \in h[key.next]["value"] /\ rest \in h[item.next]["dict"]
  BY <1>2, <1>3, <1>4, <1>5
<1> QED
  BY <1>1, <1>3, <1>6, <1>7, Zenon DEF StartsWithItem

(* What is read of a list depends on the later places of the text only.    *)
LEMMA ListsAgree ==
    ASSUME NEW S, NEW data \in Seq(S), NEW i \in 1..(Len(data) + 1), NEW g, NEW h,
           \A j \in (i + 1)..(Len(data) + 1) : g[j] = h[j], Advances(data, g, i + 1)
    PROVE  ParseList(data, g, i) = ParseList(data, h, i)
<1>1. CASE i > Len(data)
  BY <1>1, ListParsed
<1>2. CASE ~(i > Len(data)) /\ data[i] = "e"
  BY <1>2, ListParsed
<1>3. CASE ~(i > Len(data)) /\ data[i] # "e"
  <2> SUFFICES ASSUME NEW x
               PROVE  x \in ParseList(data, g, i) <=> x \in ParseList(data, h, i)
    OBVIOUS
  <2>1. \A item \in ParseValue(data, g, i) : g[item.next] = h[item.next]
    BY ValuesAdvance
  <2>2. ParseValue(data, g, i) = ParseValue(data, h, i)
    BY ValuesAgree
  <2>3. x \in ParseList(data, g, i) <=>
           \E item \in ParseValue(data, g, i) : \E rest \in g[item.next]["list"] :
              x = Parsed(<<item.value>> \o rest.value, rest.next)
    BY <1>3, ListParsed
  <2>4. x \in ParseList(data, h, i) <=>
           \E item \in ParseValue(data, h, i) : \E rest \in h[item.next]["list"] :
              x = Parsed(<<item.value>> \o rest.value, rest.next)
    BY <1>3, ListParsed
  <2> QED
    BY <2>1, <2>2, <2>3, <2>4
<1> QED
  BY <1>1, <1>2, <1>3

(* So does what is read of a dictionary.                                   *)
LEMMA DictionariesAgree ==
    ASSUME NEW S, NEW data \in Seq(S), NEW i \in 1..(Len(data) + 1), NEW g, NEW h,
           \A j \in (i + 1)..(Len(data) + 1) : g[j] = h[j], Advances(data, g, i + 1)
    PROVE  ParseDictionary(data, g, i) = ParseDictionary(data, h, i)
<1>1. CASE i > Len(data)
  BY <1>1, DictionaryParsed
<1>2. CASE ~(i > Len(data)) /\ data[i] = "e"
  BY <1>2, DictionaryParsed
<1>3. CASE ~(i > Len(data)) /\ data[i] # "e"
  <2> SUFFICES ASSUME NEW x
               PROVE  x \in ParseDictionary(data, g, i) <=> x \in ParseDictionary(data, h, i)
    OBVIOUS
  <2>1. Advances(data, h, i + 1)
    BY DEF Advances
  <2>2. StartsWithItem(data, g, i, x) <=> StartsWithItem(data, h, i, x)
    BY <2>1, ItemsAgree
  <2> QED
    BY <1>3, <2>2, DictionaryParsed
<1> QED
  BY <1>1, <1>2, <1>3

(* So does all that is read at a place; this makes the recursion from      *)
(* right to left a definition.                                             *)
LEMMA PartsAgree ==
    ASSUME NEW S, NEW data \in Seq(S), NEW i \in 1..(Len(data) + 1), NEW g, NEW h,
           \A j \in (i + 1)..(Len(data) + 1) : g[j] = h[j], Advances(data, g, i + 1)
    PROVE  /\ PartsOf(data, g, i) = PartsOf(data, h, i)
           /\ \A part \in Parts : \A x \in PartsOf(data, g, i)[part] :
                 x.next \in (i + 1)..(Len(data) + 1)
<1>1. /\ ParseValue(data, g, i) = ParseValue(data, h, i)
      /\ ParseList(data, g, i) = ParseList(data, h, i)
      /\ ParseDictionary(data, g, i) = ParseDictionary(data, h, i)
  BY ValuesAgree, ListsAgree, DictionariesAgree
<1>2. PartsOf(data, g, i) = PartsOf(data, h, i)
  BY <1>1 DEF PartsOf
<1>3. \A x \in ParseValue(data, g, i) : x.next \in (i + 1)..(Len(data) + 1)
  BY ValuesAdvance
<1>4. \A x \in ParseList(data, g, i) : x.next \in (i + 1)..(Len(data) + 1)
  BY ListsAdvance
<1>5. \A x \in ParseDictionary(data, g, i) : x.next \in (i + 1)..(Len(data) + 1)
  BY DictionariesAdvance
<1> QED
  BY <1>2, <1>3, <1>4, <1>5, PartsOfFacts DEF Parts

(* The table, by the number of positions from its first to the last.       *)
IsParserFrom(data, m, g) ==
    /\ g = [i \in m..(Len(data) + 1) |-> PartsOf(data, g, i)]
    /\ Advances(data, g, m)

(* There is a function with what is read at each place of a text.          *)
LEMMA ParserExists ==
    ASSUME NEW S, NEW data \in Seq(S)
    PROVE  \E g : IsParserFrom(data, 1, g)
<1>0. PICK len \in Nat : len = Len(data)
  OBVIOUS
<1> DEFINE T == {k \in 0..len : \E g : IsParserFrom(data, len + 1 - k, g)}
<1>1. 0 \in T
  <2> DEFINE g == [i \in (len + 1)..(len + 1) |-> PartsOf(data, <<>>, i)]
  <2>0. len + 1 \in 1..(Len(data) + 1) /\ len + 1 > Len(data)
    BY <1>0
  <2>1. \A h : /\ ParseValue(data, h, len + 1) = {} /\ ParseList(data, h, len + 1) = {}
               /\ ParseDictionary(data, h, len + 1) = {}
    BY <2>0, ParseValueAt, ListParsed, DictionaryParsed
  <2>2. \A h : PartsOf(data, h, len + 1) = PartsOf(data, <<>>, len + 1)
    BY <2>1 DEF PartsOf
  <2>3. \A i \in (len + 1)..(len + 1) : i = len + 1 /\ g[i] = PartsOf(data, <<>>, i)
    OBVIOUS
  <2>4. g = [i \in (len + 1)..(len + 1) |-> g[i]]
    OBVIOUS
  <2> HIDE DEF g
  <2>5. \A i \in (len + 1)..(len + 1) : g[i] = PartsOf(data, g, i)
    BY <2>2, <2>3
  <2>6. g = [i \in (len + 1)..(len + 1) |-> PartsOf(data, g, i)]
    BY <2>4, <2>5
  <2>7. Advances(data, g, len + 1)
    <3>1. \A part \in Parts : PartsOf(data, <<>>, len + 1)[part] = {}
      BY <2>1, PartsOfFacts DEF Parts
    <3> QED
      BY <1>0, <2>3, <3>1 DEF Advances
  <2>8. IsParserFrom(data, len + 1, g)
    BY <1>0, <2>6, <2>7 DEF IsParserFrom
  <2>9. 0 \in 0..len /\ len + 1 - 0 = len + 1
    OBVIOUS
  <2> QED
    BY <2>8, <2>9
<1>2. ASSUME NEW k \in 1..len, k - 1 \in T
      PROVE  k \in T
  <2>1. PICK g : IsParserFrom(data, len + 1 - (k - 1), g)
    BY <1>2
  <2>2. PICK m \in 1..len : m = len + 1 - k
    <3>1. len + 1 - k \in 1..len
      OBVIOUS
    <3> QED
      BY <3>1
  <2>3. len + 1 - (k - 1) = m + 1
    BY <2>2
  <2>4. /\ g = [i \in (m + 1)..(len + 1) |-> PartsOf(data, g, i)]
        /\ Advances(data, g, m + 1)
    BY <1>0, <2>1, <2>3, Zenon DEF IsParserFrom
  <2>5. \A i \in (m + 1)..(len + 1) : g[i] = PartsOf(data, g, i)
    BY <2>4, Zenon
  <2> DEFINE h == [i \in m..(len + 1) |-> IF i = m THEN PartsOf(data, g, m) ELSE g[i]]
  <2>6. \A j \in (m + 1)..(len + 1) : g[j] = h[j]
    OBVIOUS
  <2>7. m \in m..(len + 1) /\ h[m] = PartsOf(data, g, m)
    OBVIOUS
  <2>8. h = [i \in m..(len + 1) |-> h[i]]
    OBVIOUS
  <2> HIDE DEF h
  <2>9. ASSUME NEW i \in m..(len + 1)
        PROVE  /\ h[i] = PartsOf(data, h, i)
               /\ \A part \in Parts : \A x \in h[i][part] : x.next \in (i + 1)..(len + 1)
    <3>1. i \in 1..(Len(data) + 1) /\ \A j \in (i + 1)..(Len(data) + 1) : g[j] = h[j]
      BY <1>0, <2>6
    <3>2. Advances(data, g, i + 1)
      <4>1. (i + 1)..(Len(data) + 1) \subseteq (m + 1)..(Len(data) + 1)
        OBVIOUS
      <4> QED
        BY <2>4, <4>1 DEF Advances
    <3>3. /\ PartsOf(data, g, i) = PartsOf(data, h, i)
          /\ \A part \in Parts : \A x \in PartsOf(data, g, i)[part] :
                x.next \in (i + 1)..(Len(data) + 1)
      BY <3>1, <3>2, PartsAgree
    <3>4. h[i] = PartsOf(data, g, i)
      <4>1. CASE i = m
        BY <2>7, <4>1
      <4>2. CASE i # m
        <5>1. i \in (m + 1)..(len + 1)
          BY <4>2
        <5> QED
          BY <2>5, <2>6, <5>1
      <4> QED
        BY <4>1, <4>2
    <3> QED
      BY <1>0, <3>3, <3>4
  <2>10. h = [i \in m..(Len(data) + 1) |-> PartsOf(data, h, i)]
    BY <1>0, <2>8, <2>9
  <2>11. Advances(data, h, m)
    BY <1>0, <2>9 DEF Advances
  <2>12. IsParserFrom(data, m, h)
    BY <2>10, <2>11 DEF IsParserFrom
  <2> QED
    BY <2>2, <2>12
<1> HIDE DEF T
<1>3. 0..len \subseteq T
  BY <1>1, <1>2, Induction
<1>4. len \in T /\ len + 1 - len = 1
  BY <1>3
<1> QED
  BY <1>4 DEF T

(* Every function with the decoders' equations reads forward.              *)
LEMMA ParsersAdvance ==
    ASSUME NEW S, NEW data \in Seq(S), NEW f,
           \A i \in 1..(Len(data) + 1) : f[i] = PartsOf(data, f, i)
    PROVE  Advances(data, f, 1)
<1>0. PICK len \in Nat : len = Len(data)
  OBVIOUS
<1> DEFINE T == {k \in 0..len : Advances(data, f, len + 1 - k)}
<1>1. ASSUME NEW i \in 1..(len + 1), Advances(data, f, i + 1)
      PROVE  Advances(data, f, i)
  <2>1. \A part \in Parts : \A x \in f[i][part] : x.next \in (i + 1)..(Len(data) + 1)
    BY <1>0, <1>1, PartsAgree
  <2>2. \A j \in i..(Len(data) + 1) : j = i \/ j \in (i + 1)..(Len(data) + 1)
    OBVIOUS
  <2> QED
    BY <1>1, <2>1, <2>2 DEF Advances
<1>2. 0 \in T
  <2>1. Advances(data, f, len + 1 + 1)
    BY <1>0 DEF Advances
  <2>2. len + 1 \in 1..(len + 1) /\ len + 1 - 0 = len + 1 /\ 0 \in 0..len
    OBVIOUS
  <2> QED
    BY <1>1, <2>1, <2>2
<1>3. ASSUME NEW k \in 1..len, k - 1 \in T
      PROVE  k \in T
  <2>1. PICK m \in 1..(len + 1) : m = len + 1 - k
    <3>1. len + 1 - k \in 1..(len + 1)
      OBVIOUS
    <3> QED
      BY <3>1
  <2>2. len + 1 - (k - 1) = m + 1
    BY <2>1
  <2>3. Advances(data, f, m)
    BY <1>1, <1>3, <2>2
  <2> QED
    BY <2>1, <2>3
<1> HIDE DEF T
<1>4. 0..len \subseteq T
  BY <1>2, <1>3, Induction
<1>5. len \in T /\ len + 1 - len = 1
  BY <1>4
<1> QED
  BY <1>5 DEF T

(* The table that Parser chooses exists, and satisfies its equation.       *)
LEMMA ParserFacts ==
    ASSUME NEW S, NEW data \in Seq(S)
    PROVE  /\ Advances(data, Parser(data), 1)
           /\ \A i \in 1..(Len(data) + 1) :
                 /\ Parser(data)[i]["value"] = ParseValue(data, Parser(data), i)
                 /\ Parser(data)[i]["list"] = ParseList(data, Parser(data), i)
                 /\ Parser(data)[i]["dict"] = ParseDictionary(data, Parser(data), i)
<1> DEFINE f == CHOOSE g : g = [i \in 1..(Len(data) + 1) |-> PartsOf(data, g, i)]
<1>1. f = [i \in 1..(Len(data) + 1) |-> PartsOf(data, f, i)]
  <2>1. \E g : g = [i \in 1..(Len(data) + 1) |-> PartsOf(data, g, i)]
    BY ParserExists DEF IsParserFrom
  <2> QED
    BY <2>1
<1>2. Parser(data) = f
  BY DEF Parser, PartsOf, Parts
<1> HIDE DEF f
<1>3. \A i \in 1..(Len(data) + 1) : f[i] = PartsOf(data, f, i)
  BY <1>1, Zenon
<1>4. Advances(data, f, 1)
  BY <1>3, ParsersAdvance
<1>5. \A i \in 1..(Len(data) + 1) :
         /\ f[i]["value"] = ParseValue(data, f, i)
         /\ f[i]["list"] = ParseList(data, f, i)
         /\ f[i]["dict"] = ParseDictionary(data, f, i)
  BY <1>3, PartsOfFacts
<1> QED
  BY <1>2, <1>4, <1>5

(* A text of plain symbols is a text.                                      *)
LEMMA PlainTexts ==
    ASSUME NEW s \in Seq(Plain)
    PROVE  s \in Texts
<1>1. Plain \subseteq Range(Symbols)
  BY DEF Plain
<1> QED
  BY <1>1 DEF Texts

(* A number that is read is written back as the symbols it is read from.   *)
LEMMA IntegerInverts ==
    ASSUME NEW data \in Seq(Plain), NEW i \in 1..Len(data), data[i] = "i",
           NEW x \in ParseInteger(data, i)
    PROVE  \E n \in Int :
              /\ x.value = [int |-> n] /\ x.next - 1 \in i..Len(data)
              /\ <<"i">> \o Signed(n) \o <<"e">> = SubSeq(data, i, x.next - 1)
<1>0. Len(data) \in Nat
  OBVIOUS
<1>1. PICK end \in (i + 1)..Len(data) :
        LET raw == SubSeq(data, i + 1, end - 1) IN
        /\ data[end] = "e"
        /\ ~LeadingZero(raw) /\ ~IsPrefix(<<"-", "0">>, raw)
        /\ \E n \in PyInt(raw) : x = Parsed([int |-> n], end + 1)
  <2>1. IsInteger(data, i, x)
    BY IntegerParsed
  <2> QED
    BY <2>1, Zenon DEF IsInteger
<1>2. PICK raw \in Seq(Plain) : raw = SubSeq(data, i + 1, end - 1)
  <2>1. SubSeq(data, i + 1, end - 1) \in Seq(Plain)
    <3>1. i + 1 \in Nat /\ end - 1 \in Nat /\ 1 <= i + 1 /\ i + 1 <= (end - 1) + 1 /\ end - 1 <= Len(data)
      BY <1>0
    <3> QED
      BY <3>1, SubSeqFacts
  <2> QED
    BY <2>1
<1>3. /\ data[end] = "e" /\ ~LeadingZero(raw) /\ ~IsPrefix(<<"-", "0">>, raw)
      /\ \E n \in PyInt(raw) : x = Parsed([int |-> n], end + 1)
  BY <1>1, <1>2
<1>4. PICK n \in PyInt(raw) : x = Parsed([int |-> n], end + 1)
  BY <1>3
<1>5. n \in Int /\ Signed(n) = raw
  BY <1>3, SignedInverts
<1>6. x.value = [int |-> n] /\ x.next = end + 1
  BY <1>4, ParsedFacts
<1>7. x.next - 1 = end /\ end \in i..Len(data)
  BY <1>0, <1>6
<1>8. <<data[i]>> \o raw = SubSeq(data, i, end - 1)
  <2>1. end - 1 \in i..Len(data)
    BY <1>0
  <2> QED
    BY <1>2, <2>1, SliceFromFirst
<1>9. SubSeq(data, i, end - 1) \o <<data[end]>> = SubSeq(data, i, end)
  BY <1>7, SliceToLast
<1> QED
  BY <1>3, <1>5, <1>6, <1>7, <1>8, <1>9

(* What is read as a byte string encodes to the text it was read from.     *)
LEMMA BytesInvert ==
    ASSUME NEW data \in Seq(Plain), NEW i \in 1..Len(data), data[i] \in Ten,
           NEW x \in ParseBytes(data, i)
    PROVE  \E s \in Texts :
              /\ x.value = [bytes |-> s] /\ x.next - 1 \in i..Len(data)
              /\ EncodeBytes(s) = SubSeq(data, i, x.next - 1)
<1>0. Len(data) \in Nat
  OBVIOUS
<1>1. PICK colon \in (i + 1)..Len(data) : \E n \in Nat :
              /\ data[colon] = ":"
              /\ ~LeadingZero(SubSeq(data, i, colon - 1))
              /\ n \in PyInt(SubSeq(data, i, colon - 1))
              /\ colon + n <= Len(data)
              /\ x = Parsed([bytes |-> SubSeq(data, colon + 1, colon + n)], colon + n + 1)
  BY BytesRead
<1>2. PICK n \in Nat :
              /\ data[colon] = ":"
              /\ ~LeadingZero(SubSeq(data, i, colon - 1))
              /\ n \in PyInt(SubSeq(data, i, colon - 1))
              /\ colon + n <= Len(data)
              /\ x = Parsed([bytes |-> SubSeq(data, colon + 1, colon + n)], colon + n + 1)
  BY <1>1
<1>3. PICK last \in i..Len(data) : last = colon + n
  <2>1. colon + n \in i..Len(data)
    BY <1>0, <1>2
  <2> QED
    BY <2>1
<1>4. PICK raw \in Seq(Plain) :
         raw = SubSeq(data, i, colon - 1) /\ raw # <<>> /\ raw[1] = data[i]
  <2>1. i \in Nat /\ colon - 1 \in Nat /\ 1 <= i /\ i <= (colon - 1) + 1 /\ colon - 1 <= Len(data)
    BY <1>0
  <2>2. /\ SubSeq(data, i, colon - 1) \in Seq(Plain)
        /\ Len(SubSeq(data, i, colon - 1)) = (colon - 1) - i + 1
        /\ \A k \in 1..((colon - 1) - i + 1) : SubSeq(data, i, colon - 1)[k] = data[i + k - 1]
    BY <2>1, SubSeqFacts
  <2>3. 1 \in 1..((colon - 1) - i + 1) /\ i + 1 - 1 = i /\ (colon - 1) - i + 1 # 0
    BY <1>0
  <2>4. PICK r \in Seq(Plain) : r = SubSeq(data, i, colon - 1)
    BY <2>2
  <2>5. Len(r) # 0 /\ r[1] = data[i]
    BY <2>2, <2>3, <2>4
  <2>6. r # <<>>
    BY <2>5, EmptySeq
  <2> QED
    BY <2>4, <2>5, <2>6
<1>5. Decimal(n) = raw
  <2>1. Head(raw) # "-"
    <3>1. "-" \notin Ten /\ Head(raw) = raw[1]
      BY <1>4, TailFacts DEF Ten
    <3> QED
      BY <1>4, <3>1
  <2>2. IsNumeral(raw) /\ n = Number(raw)
    BY <1>2, <1>4, <2>1, PlainInt
  <2> QED
    BY <2>2, NumeralIsDecimal
<1>6. PICK s \in Seq(Plain) : s = SubSeq(data, colon + 1, last) /\ Len(s) = n
  <2>1. colon + 1 \in Nat /\ last \in Nat /\ 1 <= colon + 1 /\ colon + 1 <= last + 1 /\ last <= Len(data)
        /\ last - (colon + 1) + 1 = n
    BY <1>0, <1>3
  <2>2. /\ SubSeq(data, colon + 1, last) \in Seq(Plain)
        /\ Len(SubSeq(data, colon + 1, last)) = last - (colon + 1) + 1
    BY <2>1, SubSeqFacts
  <2> QED
    BY <2>1, <2>2
<1>7. x.value = [bytes |-> s] /\ x.next = last + 1
  BY <1>2, <1>3, <1>6, ParsedFacts
<1>8. x.next - 1 = last
  BY <1>0, <1>7
<1>9. raw \o <<":">> = SubSeq(data, i, colon)
  <2>1. colon \in i..Len(data)
    BY <1>0
  <2> QED
    BY <1>2, <1>4, <2>1, SliceToLast
<1>10. SubSeq(data, i, colon) \o s = SubSeq(data, i, last)
  <2>1. i \in Nat /\ colon \in Nat /\ last \in Nat /\ 1 <= i /\ i <= colon + 1 /\ colon <= last
        /\ last <= Len(data)
    BY <1>0, <1>3
  <2> QED
    BY <1>6, <2>1, SlicesJoin
<1>11. EncodeBytes(s) = SubSeq(data, i, last)
  BY <1>5, <1>6, <1>9, <1>10 DEF EncodeBytes
<1>12. s \in Texts
  BY PlainTexts
<1> QED
  BY <1>7, <1>8, <1>11, <1>12

(* A value that is bytes begins with a digit.                              *)
LEMMA BytesBegin ==
    ASSUME NEW data, NEW g, NEW i, NEW x \in ParseValue(data, g, i),
           Len(data) \in Nat, i \in 1..(Len(data) + 1), "bytes" \in DOMAIN x.value
    PROVE  i \in 1..Len(data) /\ data[i] \in Ten /\ x \in ParseBytes(data, i)
<1>1. ~(i > Len(data)) /\ i \in 1..Len(data)
  <2>1. ~(i > Len(data))
    BY ParseValueAt
  <2> QED
    BY <2>1
<1>2. data[i] # "i"
  <2> SUFFICES ASSUME data[i] = "i"
               PROVE  FALSE
    OBVIOUS
  <2>1. x \in ParseInteger(data, i)
    BY <1>1, ParseValueAt
  <2>2. \E n, m : x = Parsed([int |-> n], m)
    <3>1. PICK end : x \in LET raw == SubSeq(data, i + 1, end - 1) IN
                           IF LeadingZero(raw) \/ IsPrefix(<<"-", "0">>, raw)
                           THEN {}
                           ELSE {Parsed([int |-> n], end + 1) : n \in PyInt(raw)}
      BY <2>1 DEF ParseInteger
    <3>2. PICK raw : raw = SubSeq(data, i + 1, end - 1)
      OBVIOUS
    <3>3. x \in IF LeadingZero(raw) \/ IsPrefix(<<"-", "0">>, raw)
                THEN {}
                ELSE {Parsed([int |-> n], end + 1) : n \in PyInt(raw)}
      BY <3>1, <3>2
    <3>4. x \in {Parsed([int |-> n], end + 1) : n \in PyInt(raw)}
      <4>1. CASE LeadingZero(raw) \/ IsPrefix(<<"-", "0">>, raw)
        BY <3>3, <4>1
      <4>2. CASE ~(LeadingZero(raw) \/ IsPrefix(<<"-", "0">>, raw))
        BY <3>3, <4>2
      <4> QED
        BY <4>1, <4>2
    <3> QED
      BY <3>4
  <2>3. PICK n : x.value = [int |-> n]
    BY <2>2, ParsedFacts
  <2> QED
    BY <2>3
<1>3. data[i] # "l"
  <2> SUFFICES ASSUME data[i] = "l"
               PROVE  FALSE
    OBVIOUS
  <2>1. PICK rest \in g[i + 1]["list"] : x = Parsed([list |-> rest.value], rest.next)
    BY <1>1, ParseValueAt
  <2>2. x.value = [list |-> rest.value]
    BY <2>1, ParsedFacts
  <2> QED
    BY <2>2
<1>4. data[i] # "d"
  <2> SUFFICES ASSUME data[i] = "d"
               PROVE  FALSE
    OBVIOUS
  <2>1. PICK rest \in g[i + 1]["dict"] : x = Parsed([dict |-> Range(rest.value)], rest.next)
    BY <1>1, ParseValueAt
  <2>2. x.value = [dict |-> Range(rest.value)]
    BY <2>1, ParsedFacts
  <2> QED
    BY <2>2
<1>5. data[i] \in Ten
  <2> SUFFICES ASSUME data[i] \notin Ten
               PROVE  FALSE
    OBVIOUS
  <2>1. data[i] \notin {"i", "l", "d"} \cup Ten
    BY <1>2, <1>3, <1>4
  <2>2. ParseValue(data, g, i) = {}
    BY <1>1, <2>1, ParseValueAt
  <2> QED
    BY <2>2
<1>6. ParseValue(data, g, i) = ParseBytes(data, i)
  BY <1>1, <1>5, ParseValueAt
<1> QED
  BY <1>1, <1>5, <1>6

(* What the parser has read of a text, and what it encodes to.             *)
ListCode(code, s) == [k \in 1..Len(s) |-> code[s[k]]]

(* The encodings of the items, one by one.                                 *)
ItemsCode(code, s) == [k \in 1..Len(s) |-> EncodeItem(code, s[k])]

(* The items of a dictionary whose values are of this set.                 *)
ItemsOf(values) == [key : Texts, value : values]

(* x is a value of this depth, and the text between i and x.next is its    *)
(* encoding.                                                               *)
ReadsValue(data, depth, d, i, x) ==
    /\ x.value \in Values(depth)[d]
    /\ Codes(depth)[d][x.value] = SubSeq(data, i, x.next - 1)

(* The same for the values up to the end of a list.                        *)
ReadsList(data, depth, d, i, x) ==
    /\ x.value \in Seq(Values(depth)[d])
    /\ ListCode(Codes(depth)[d], x.value) \in Seq(Seq(Plain))
    /\ FlattenSeq(ListCode(Codes(depth)[d], x.value)) \o <<"e">> = SubSeq(data, i, x.next - 1)

(* The same for the items up to the end of a dictionary, which are sorted. *)
ReadsItems(data, depth, d, i, x) ==
    /\ x.value \in Seq(ItemsOf(Values(depth)[d])) /\ Keyed(x.value)
    /\ ItemsCode(Codes(depth)[d], x.value) \in Seq(Seq(Plain))
    /\ FlattenSeq(ItemsCode(Codes(depth)[d], x.value)) \o <<"e">> = SubSeq(data, i, x.next - 1)

(* One more in front, as the loops of the parser append from the other     *)
(* side.                                                                   *)
Prepend(v, s) == <<v>> \o s

(* The concatenation of a first sequence and the others.                   *)
LEMMA FlattenPrepended ==
    ASSUME NEW S, NEW x \in Seq(S), NEW rest \in Seq(Seq(S))
    PROVE  FlattenSeq(Prepend(x, rest)) = x \o FlattenSeq(rest)
BY FlattenCons DEF Prepend

(* A sequence that starts with c and goes on as another is that one with   *)
(* c before it.                                                            *)
LEMMA PrependedBy ==
    ASSUME NEW S, NEW s \in Seq(S), NEW rest \in Seq(S), NEW c \in S,
           Len(s) = Len(rest) + 1, s[1] = c, \A k \in 1..Len(rest) : s[k + 1] = rest[k]
    PROVE  s = Prepend(c, rest)
BY ConsFacts DEF Prepend

(* The length and the elements of a sequence with one more before it.      *)
LEMMA Prepended ==
    ASSUME NEW T, NEW v \in T, NEW s \in Seq(T)
    PROVE  \E t \in Seq(T) : /\ t = Prepend(v, s) /\ Len(t) = Len(s) + 1 /\ t[1] = v
                             /\ \A k \in 1..Len(s) : t[k + 1] = s[k]
<1>1. PICK one \in Seq(T) : one = <<v>> /\ Len(one) = 1 /\ one[1] = v
  <2>1. <<v>> \in Seq(T)
    OBVIOUS
  <2> QED
    BY <2>1
<1>2. PICK n \in Nat : n = Len(s)
  OBVIOUS
<1>3. /\ one \o s \in Seq(T) /\ Len(one \o s) = 1 + n
      /\ \A k \in 1..1 : (one \o s)[k] = one[k]
      /\ \A k \in 1..n : (one \o s)[1 + k] = s[k]
  BY <1>1, <1>2, ConcatFacts
<1>4. PICK t \in Seq(T) : t = one \o s
  BY <1>3
<1>5. 1 + n = n + 1 /\ 1 \in 1..1 /\ \A k \in 1..n : 1 + k = k + 1
  OBVIOUS
<1>6. Len(t) = n + 1 /\ t[1] = v /\ \A k \in 1..n : t[k + 1] = s[k]
  BY <1>1, <1>3, <1>4, <1>5
<1>7. t = Prepend(v, s)
  BY <1>1, <1>4 DEF Prepend
<1> QED
  BY <1>2, <1>6, <1>7

(* t is a sequence of m elements.                                          *)
IsTable(t, m) == t = [k \in 1..m |-> t[k]]

(* The encodings of the first element and of the others.                   *)
Shifted(all, c, codes) == all[1] = c /\ \A k \in 1..Len(codes) : all[k + 1] = codes[k]

(* The codes of a list with one value more before it.                      *)
LEMMA PrependedCodes ==
    ASSUME NEW S, NEW codes \in Seq(S), NEW c \in S, NEW all,
           IsTable(all, Len(codes) + 1), Shifted(all, c, codes)
    PROVE  all \in Seq(S) /\ all = Prepend(c, codes)
<1>0. PICK n \in Nat : n = Len(codes)
  OBVIOUS
<1>1. \A k \in 1..(n + 1) : all[k] \in S
  <2> TAKE k \in 1..(n + 1)
  <2>1. CASE k = 1
    BY <2>1 DEF Shifted
  <2>2. CASE k # 1
    <3>1. PICK j \in 1..n : k = j + 1
      <4>1. k - 1 \in 1..n /\ k = (k - 1) + 1
        BY <2>2
      <4> QED
        BY <4>1
    <3>2. codes[j] \in S /\ all[j + 1] = codes[j]
      BY <1>0 DEF Shifted
    <3> QED
      BY <1>0, <3>1, <3>2
  <2> QED
    BY <2>1, <2>2
<1>2. PICK t \in Seq(S) : t = all /\ Len(t) = n + 1
  <2>1. [k \in 1..(n + 1) |-> all[k]] \in Seq(S) /\ Len([k \in 1..(n + 1) |-> all[k]]) = n + 1
    BY ONLY n \in Nat, <1>1
  <2> QED
    BY <1>0, <2>1 DEF IsTable
<1>3. Len(t) = Len(codes) + 1 /\ t[1] = c /\ \A k \in 1..Len(codes) : t[k + 1] = codes[k]
  BY <1>0, <1>2 DEF Shifted
<1>4. t = Prepend(c, codes)
  BY <1>3, PrependedBy
<1> QED
  BY <1>2, <1>4

(* A longer list is encoded as its first value and the others after it.    *)
LEMMA ListCons ==
    ASSUME NEW S, NEW T, NEW v \in T, NEW s \in Seq(T), NEW code, code[v] \in Seq(S),
           ListCode(code, s) \in Seq(Seq(S))
    PROVE  /\ Prepend(v, s) \in Seq(T)
           /\ ListCode(code, Prepend(v, s)) \in Seq(Seq(S))
           /\ FlattenSeq(ListCode(code, Prepend(v, s))) = code[v] \o FlattenSeq(ListCode(code, s))
<1>1. PICK t \in Seq(T) : /\ t = Prepend(v, s) /\ Len(t) = Len(s) + 1 /\ t[1] = v
                          /\ \A k \in 1..Len(s) : t[k + 1] = s[k]
  BY Prepended
<1>2. PICK n \in Nat : n = Len(s) /\ Len(t) = n + 1
  BY <1>1
<1>3. PICK codes \in Seq(Seq(S)) : codes = ListCode(code, s)
  OBVIOUS
<1>4. codes = [k \in 1..n |-> code[s[k]]]
  BY <1>2, <1>3 DEF ListCode
<1>5. Len(codes) = n /\ \A k \in 1..n : codes[k] = code[s[k]]
  BY <1>4
<1>6. PICK all : all = [k \in 1..(n + 1) |-> code[t[k]]]
  OBVIOUS
<1>7. IsTable(all, n + 1) /\ \A k \in 1..(n + 1) : all[k] = code[t[k]]
  BY <1>6 DEF IsTable
<1>8. all[1] = code[v] /\ \A k \in 1..n : all[k + 1] = codes[k]
  <2>1. 1 \in 1..(n + 1) /\ \A k \in 1..n : k + 1 \in 1..(n + 1)
    OBVIOUS
  <2>2. t[1] = v /\ \A k \in 1..n : t[k + 1] = s[k]
    BY <1>1, <1>2
  <2>3. all[1] = code[t[1]]
    BY <1>7, <2>1
  <2>4. \A k \in 1..n : all[k + 1] = code[t[k + 1]]
    BY <1>7, <2>1
  <2> QED
    BY <1>5, <2>2, <2>3, <2>4
<1>9. all \in Seq(Seq(S)) /\ all = Prepend(code[v], codes)
  <2>1. PICK c, C : c = code[v] /\ C = Seq(S)
    OBVIOUS
  <2>2. c \in C /\ codes \in Seq(C)
    BY <2>1
  <2>3. Len(codes) = n /\ all[1] = c
    BY <1>5, <1>8, <2>1
  <2>4. all \in Seq(C) /\ all = Prepend(c, codes)
    <3>1. IsTable(all, Len(codes) + 1) /\ Shifted(all, c, codes)
      BY <1>5, <1>7, <1>8, <2>3 DEF Shifted
    <3> QED
      BY <2>2, <2>3, <3>1, PrependedCodes
  <2> QED
    BY <2>1, <2>4
<1>10. FlattenSeq(all) = code[v] \o FlattenSeq(codes)
  BY <1>9, FlattenPrepended
<1>11. ListCode(code, t) = all
  BY <1>2, <1>6 DEF ListCode
<1> QED
  BY <1>1, <1>3, <1>9, <1>10, <1>11

(* A longer dictionary is encoded as its first item and the others after   *)
(* it.                                                                     *)
LEMMA ItemsCons ==
    ASSUME NEW S, NEW T, NEW item \in T, NEW s \in Seq(T), NEW code,
           EncodeItem(code, item) \in Seq(S),
           ItemsCode(code, s) \in Seq(Seq(S))
    PROVE  /\ Prepend(item, s) \in Seq(T)
           /\ ItemsCode(code, Prepend(item, s)) \in Seq(Seq(S))
           /\ FlattenSeq(ItemsCode(code, Prepend(item, s))) =
                 EncodeItem(code, item) \o FlattenSeq(ItemsCode(code, s))
<1>1. PICK t \in Seq(T) : /\ t = Prepend(item, s) /\ Len(t) = Len(s) + 1 /\ t[1] = item
                          /\ \A k \in 1..Len(s) : t[k + 1] = s[k]
  <2>1. /\ Prepend(item, s) \in Seq(T) /\ Len(Prepend(item, s)) = Len(s) + 1
        /\ Prepend(item, s)[1] = item
        /\ \A k \in 1..Len(s) : Prepend(item, s)[k + 1] = s[k]
    BY ONLY item \in T, s \in Seq(T), Prepended
  <2> QED
    BY ONLY <2>1
<1>2. PICK n \in Nat : n = Len(s) /\ Len(t) = n + 1
  BY <1>1
<1>3. PICK codes \in Seq(Seq(S)) : codes = ItemsCode(code, s)
  OBVIOUS
<1>4. codes = [k \in 1..n |-> EncodeItem(code, s[k])]
  BY <1>2, <1>3 DEF ItemsCode
<1>5. Len(codes) = n /\ \A k \in 1..n : codes[k] = EncodeItem(code, s[k])
  BY <1>4
<1>6. PICK all : all = [k \in 1..(n + 1) |-> EncodeItem(code, t[k])]
  OBVIOUS
<1>7. IsTable(all, n + 1) /\ \A k \in 1..(n + 1) : all[k] = EncodeItem(code, t[k])
  BY <1>6 DEF IsTable
<1>8. all[1] = EncodeItem(code, item) /\ \A k \in 1..n : all[k + 1] = codes[k]
  <2>1. 1 \in 1..(n + 1) /\ \A k \in 1..n : k + 1 \in 1..(n + 1)
    OBVIOUS
  <2>2. t[1] = item /\ \A k \in 1..n : t[k + 1] = s[k]
    BY <1>1, <1>2
  <2>3. all[1] = EncodeItem(code, t[1])
    BY <1>7, <2>1
  <2>4. \A k \in 1..n : all[k + 1] = EncodeItem(code, t[k + 1])
    BY <1>7, <2>1
  <2> QED
    BY <1>5, <2>2, <2>3, <2>4
<1>9. all \in Seq(Seq(S)) /\ all = Prepend(EncodeItem(code, item), codes)
  <2>1. PICK c, C : c = EncodeItem(code, item) /\ C = Seq(S)
    OBVIOUS
  <2>2. c \in C /\ codes \in Seq(C)
    BY <2>1
  <2>3. Len(codes) = n /\ all[1] = c
    BY <1>5, <1>8, <2>1
  <2>4. all \in Seq(C) /\ all = Prepend(c, codes)
    <3>1. IsTable(all, Len(codes) + 1) /\ Shifted(all, c, codes)
      BY <1>5, <1>7, <1>8, <2>3 DEF Shifted
    <3> QED
      BY <2>2, <2>3, <3>1, PrependedCodes
  <2> QED
    BY <2>1, <2>4
<1>10. FlattenSeq(all) = EncodeItem(code, item) \o FlattenSeq(codes)
  BY <1>9, FlattenPrepended
<1>11. ItemsCode(code, t) = all
  BY <1>2, <1>6 DEF ItemsCode
<1> QED
  BY <1>1, <1>3, <1>9, <1>10, <1>11

(* A sorted listing with an earlier key in front is sorted.                *)
LEMMA KeyedCons ==
    ASSUME NEW T, NEW item \in ItemsOf(T), NEW s \in Seq(ItemsOf(T)), Keyed(s),
           Precedes(item.key, s)
    PROVE  Keyed(Prepend(item, s))
<1>0. item.key \in Texts
  BY DEF ItemsOf
<1>1. PICK t \in Seq(ItemsOf(T)) : /\ t = Prepend(item, s) /\ Len(t) = Len(s) + 1 /\ t[1] = item
                                   /\ \A k \in 1..Len(s) : t[k + 1] = s[k]
  BY Prepended
<1>2. PICK n \in Nat : n = Len(s)
  OBVIOUS
<1>3. /\ \A k \in 1..n : s[k].key \in Texts
      /\ \A j, k \in 1..n : j < k => KeyLess(s[j].key, s[k].key)
  BY <1>2 DEF Keyed, Sorted
<1>4. Len(t) = n + 1 /\ DOMAIN t = 1..(n + 1) /\ \A k \in 1..(n + 1) : t[k].key \in Texts
  <2>1. Len(t) = n + 1 /\ DOMAIN t = 1..(n + 1)
    BY <1>1, <1>2
  <2>2. \A k \in 1..(n + 1) : t[k] \in ItemsOf(T)
    BY <2>1
  <2>3. \A x \in ItemsOf(T) : x.key \in Texts
    BY DEF ItemsOf
  <2> QED
    BY <2>1, <2>2, <2>3
<1>5. ASSUME NEW k \in 1..n
      PROVE  KeyLess(item.key, s[k].key)
  <2>1. s # <<>> /\ 1 \in 1..n
    BY <1>2, EmptySeq
  <2>2. KeyLess(item.key, s[1].key)
    BY <2>1 DEF Precedes
  <2>3. CASE k = 1
    BY <2>2, <2>3
  <2>4. CASE k # 1
    <3>1. KeyLess(s[1].key, s[k].key)
      BY <1>3, <2>1, <2>4
    <3> QED
      BY <1>0, <1>3, <2>1, <2>2, <3>1, KeyLessTransitive
  <2> QED
    BY <2>3, <2>4
<1>6. ASSUME NEW j \in 1..(n + 1), NEW k \in 1..(n + 1), j < k
      PROVE  KeyLess(t[j].key, t[k].key)
  <2>1. PICK b \in 1..n : k = b + 1
    <3>1. k - 1 \in 1..n /\ k = (k - 1) + 1
      BY <1>6
    <3> QED
      BY <3>1
  <2>2. t[k] = s[b]
    BY <1>1, <1>2, <2>1
  <2>3. CASE j = 1
    BY <1>1, <1>5, <2>2, <2>3
  <2>4. CASE j # 1
    <3>1. PICK a \in 1..n : j = a + 1
      <4>1. j - 1 \in 1..n /\ j = (j - 1) + 1
        BY <2>4
      <4> QED
        BY <4>1
    <3>2. t[j] = s[a] /\ a < b
      BY <1>1, <1>2, <1>6, <2>1, <3>1
    <3> QED
      BY <1>3, <2>2, <3>2
  <2> QED
    BY <2>3, <2>4
<1>7. Sorted(t)
  BY <1>4, <1>6 DEF Sorted
<1>8. Keyed(t)
  BY <1>4, <1>7 DEF Keyed
<1> QED
  BY <1>1, <1>8

(* The markers are no blanks, plus signs or underscores.                   *)
LEMMA MarkersArePlain == {"i", "l", "d", "e", ":", "-"} \subseteq Plain
BY SymbolsDiffer DEF Plain

(* Two slices that touch make one.                                         *)
LEMMA ConcatSlices ==
    ASSUME NEW S, NEW data \in Seq(S), NEW i \in 1..Len(data), NEW j \in (i + 1)..Len(data),
           NEW b \in j..Len(data)
    PROVE  /\ SubSeq(data, i, j - 1) \o SubSeq(data, j, b) = SubSeq(data, i, b)
           /\ SubSeq(data, i, j - 1) \in Seq(S) /\ SubSeq(data, j, b) \in Seq(S)
<1>0. Len(data) \in Nat
  OBVIOUS
<1>1. PICK c \in Nat : c = j - 1 /\ c + 1 = j
  <2>1. j - 1 \in Nat /\ (j - 1) + 1 = j
    BY <1>0
  <2> QED
    BY <2>1
<1>2. i \in Nat /\ b \in Nat /\ 1 <= i /\ i <= c + 1 /\ c <= b /\ b <= Len(data) /\ c <= Len(data)
      /\ j \in Nat /\ 1 <= j /\ j <= b + 1
  BY <1>0, <1>1
<1>3. SubSeq(data, i, c) \o SubSeq(data, c + 1, b) = SubSeq(data, i, b)
  BY <1>1, <1>2, SlicesJoin
<1>4. SubSeq(data, i, c) \in Seq(S) /\ SubSeq(data, j, b) \in Seq(S)
  BY <1>1, <1>2, SubSeqFacts
<1> QED
  BY <1>1, <1>3, <1>4

(* An integer is the encoding of itself, by the checks of _parse_integer.  *)
LEMMA IntegerIsRead ==
    ASSUME NEW data \in Seq(Plain), NEW depth \in Nat, NEW d \in 1..depth,
           NEW i \in 1..Len(data), data[i] = "i", NEW x \in ParseInteger(data, i)
    PROVE  ReadsValue(data, depth, d, i, x)
<1>1. PICK n \in Int :
         /\ x.value = [int |-> n] /\ x.next - 1 \in i..Len(data)
         /\ <<"i">> \o Signed(n) \o <<"e">> = SubSeq(data, i, x.next - 1)
  BY IntegerInverts
<1>2. [int |-> n] \in Values(depth)[d]
  BY ValuesSteps, ValuesWithFacts
<1>3. Codes(depth)[d][[int |-> n]] = EncodeWith(Codes(depth)[d - 1], [int |-> n])
  BY <1>2, CodesSteps
<1>4. EncodeWith(Codes(depth)[d - 1], [int |-> n]) = <<"i">> \o Signed(n) \o <<"e">>
  BY EncodeWithFacts
<1> QED
  BY <1>1, <1>2, <1>3, <1>4, Zenon DEF ReadsValue

(* So are bytes, by the checks of _parse_bytes.                            *)
LEMMA BytesAreRead ==
    ASSUME NEW data \in Seq(Plain), NEW depth \in Nat, NEW d \in 1..depth,
           NEW i \in 1..Len(data), data[i] \in Ten, NEW x \in ParseBytes(data, i)
    PROVE  ReadsValue(data, depth, d, i, x)
<1>1. PICK s \in Texts :
         /\ x.value = [bytes |-> s] /\ x.next - 1 \in i..Len(data)
         /\ EncodeBytes(s) = SubSeq(data, i, x.next - 1)
  BY BytesInvert
<1>2. [bytes |-> s] \in Values(depth)[d]
  BY ValuesSteps, ValuesWithFacts
<1>3. Codes(depth)[d][[bytes |-> s]] = EncodeWith(Codes(depth)[d - 1], [bytes |-> s])
  BY <1>2, CodesSteps
<1>4. EncodeWith(Codes(depth)[d - 1], [bytes |-> s]) = EncodeBytes(s)
  BY EncodeWithFacts
<1> QED
  BY <1>1, <1>2, <1>3, <1>4, Zenon DEF ReadsValue

(* Three texts of plain symbols one after the other.                       *)
LEMMA PlainConcat ==
    ASSUME NEW a \in Seq(Plain), NEW b \in Seq(Plain), NEW c \in Seq(Plain)
    PROVE  (a \o b) \o c = a \o (b \o c)
<1>1. PICK S : S = Plain
  OBVIOUS
<1>2. a \in Seq(S) /\ b \in Seq(S) /\ c \in Seq(S)
  BY <1>1
<1> QED
  BY ONLY <1>2, ConcatAssociates

(* A group's first mark, its inside and its end mark are a slice of the    *)
(* text.                                                                   *)
LEMMA ClosedSlice ==
    ASSUME NEW data \in Seq(Plain), NEW i \in 1..Len(data), NEW next \in (i + 2)..(Len(data) + 1),
           NEW inner \in Seq(Plain), inner \o <<"e">> = SubSeq(data, i + 1, next - 1)
    PROVE  <<data[i]>> \o inner \o <<"e">> = SubSeq(data, i, next - 1)
<1>1. PICK b \in i..Len(data) : b = next - 1
  <2>1. next - 1 \in i..Len(data)
    OBVIOUS
  <2> QED
    BY <2>1
<1>2. <<data[i]>> \o SubSeq(data, i + 1, b) = SubSeq(data, i, b) /\ <<data[i]>> \in Seq(Plain)
  BY SliceFromFirst
<1>3. PICK one \in Seq(Plain), end \in Seq(Plain) : one = <<data[i]>> /\ end = <<"e">>
  <2>1. <<"e">> \in Seq(Plain)
    BY MarkersArePlain
  <2> QED
    BY <1>2, <2>1
<1>4. (one \o inner) \o end = one \o (inner \o end)
  BY PlainConcat
<1> QED
  BY <1>1, <1>2, <1>3, <1>4

(* A list is, when what is after its marker is.                            *)
LEMMA ListIsRead ==
    ASSUME NEW data \in Seq(Plain), NEW depth \in Nat, NEW d \in 1..depth,
           NEW i \in 1..Len(data), data[i] = "l", NEW rest,
           ReadsList(data, depth, d - 1, i + 1, rest), rest.next \in (i + 2)..(Len(data) + 1)
    PROVE  ReadsValue(data, depth, d, i, Parsed([list |-> rest.value], rest.next))
<1>1. PICK s \in Seq(Values(depth)[d - 1]) : s = rest.value
  BY DEF ReadsList
<1>2. PICK code : code = Codes(depth)[d - 1]
  OBVIOUS
<1>3. /\ ListCode(code, s) \in Seq(Seq(Plain))
      /\ FlattenSeq(ListCode(code, s)) \o <<"e">> = SubSeq(data, i + 1, rest.next - 1)
  BY <1>1, <1>2 DEF ReadsList
<1>4. PICK inner \in Seq(Plain) : inner = FlattenSeq(ListCode(code, s))
  BY <1>3, FlattenFacts
<1>5. <<"l">> \o inner \o <<"e">> = SubSeq(data, i, rest.next - 1)
  <2>1. PICK next \in (i + 2)..(Len(data) + 1) : next = rest.next
    OBVIOUS
  <2>2. inner \o <<"e">> = SubSeq(data, i + 1, next - 1)
    BY <1>3, <1>4, <2>1
  <2>3. <<data[i]>> \o inner \o <<"e">> = SubSeq(data, i, next - 1)
    BY <2>2, ClosedSlice
  <2> QED
    BY <2>1, <2>3
<1>6. [list |-> s] \in Values(depth)[d]
  <2>1. PICK inside : inside = Values(depth)[d - 1]
    OBVIOUS
  <2>2. Values(depth)[d] = ValuesWith(inside)
    BY <2>1, ValuesSteps
  <2>3. s \in Seq(inside)
    BY <2>1
  <2> QED
    BY <2>2, <2>3, ValuesWithFacts
<1>7. Codes(depth)[d][[list |-> s]] = EncodeWith(code, [list |-> s])
  BY <1>2, <1>6, CodesSteps
<1>8. EncodeWith(code, [list |-> s]) = <<"l">> \o inner \o <<"e">>
  BY <1>4, EncodeWithFacts, Zenon DEF ListCode
<1>9. PICK x : x = Parsed([list |-> rest.value], rest.next)
  OBVIOUS
<1>10. x.value = [list |-> s] /\ x.next = rest.next
  BY <1>1, <1>9, ParsedFacts
<1>11. ReadsValue(data, depth, d, i, x)
  BY <1>5, <1>6, <1>7, <1>8, <1>10 DEF ReadsValue
<1> QED
  BY <1>9, <1>11

(* And a dictionary, when what is after its marker is.                     *)
LEMMA DictionaryIsRead ==
    ASSUME NEW data \in Seq(Plain), NEW depth \in Nat, NEW d \in 1..depth,
           NEW i \in 1..Len(data), data[i] = "d", NEW rest,
           ReadsItems(data, depth, d - 1, i + 1, rest), rest.next \in (i + 2)..(Len(data) + 1)
    PROVE  ReadsValue(data, depth, d, i, Parsed([dict |-> Range(rest.value)], rest.next))
<1>1. PICK s \in Seq(ItemsOf(Values(depth)[d - 1])) : s = rest.value
  BY DEF ReadsItems
<1>2. PICK code : code = Codes(depth)[d - 1]
  OBVIOUS
<1>3. /\ ItemsCode(code, s) \in Seq(Seq(Plain)) /\ Keyed(s)
      /\ FlattenSeq(ItemsCode(code, s)) \o <<"e">> = SubSeq(data, i + 1, rest.next - 1)
  BY <1>1, <1>2 DEF ReadsItems
<1>4. PICK inner \in Seq(Plain) : inner = FlattenSeq(ItemsCode(code, s))
  BY <1>3, FlattenFacts
<1>5. <<"d">> \o inner \o <<"e">> = SubSeq(data, i, rest.next - 1)
  <2>1. PICK next \in (i + 2)..(Len(data) + 1) : next = rest.next
    OBVIOUS
  <2>2. inner \o <<"e">> = SubSeq(data, i + 1, next - 1)
    BY <1>3, <1>4, <2>1
  <2>3. <<data[i]>> \o inner \o <<"e">> = SubSeq(data, i, next - 1)
    BY <2>2, ClosedSlice
  <2> QED
    BY <2>1, <2>3
<1>6. PICK items \in SUBSET ItemsOf(Values(depth)[d - 1]) : items = Range(s) /\ SortedItems(items) = s
  <2>1. Range(s) \subseteq ItemsOf(Values(depth)[d - 1])
    BY DEF Range
  <2>2. SortedItems(Range(s)) = s
    BY <1>3, SortedItemsOfSorted
  <2> QED
    BY <2>1, <2>2
<1>7. [dict |-> items] \in Values(depth)[d]
  <2>1. PICK inside : inside = Values(depth)[d - 1]
    OBVIOUS
  <2>2. Values(depth)[d] = ValuesWith(inside)
    BY <2>1, ValuesSteps
  <2>3. items \in SUBSET [key : Texts, value : inside]
    BY <2>1 DEF ItemsOf
  <2> QED
    BY <2>2, <2>3, ValuesWithFacts
<1>8. Codes(depth)[d][[dict |-> items]] = EncodeWith(code, [dict |-> items])
  BY <1>2, <1>7, CodesSteps
<1>9. EncodeWith(code, [dict |-> items]) = <<"d">> \o inner \o <<"e">>
  BY <1>4, <1>6, EncodeWithFacts, Zenon DEF ItemsCode
<1>10. PICK x : x = Parsed([dict |-> Range(rest.value)], rest.next)
  OBVIOUS
<1>11. x.value = [dict |-> items] /\ x.next = rest.next
  BY <1>1, <1>6, <1>10, ParsedFacts
<1>12. ReadsValue(data, depth, d, i, x)
  BY <1>5, <1>7, <1>8, <1>9, <1>11 DEF ReadsValue
<1> QED
  BY <1>10, <1>12

(* The end of a list or a dictionary.                                      *)
LEMMA EndIsRead ==
    ASSUME NEW data \in Seq(Plain), NEW depth, NEW d, NEW i \in 1..Len(data), data[i] = "e"
    PROVE  /\ ReadsList(data, depth, d, i, Parsed(<<>>, i + 1))
           /\ ReadsItems(data, depth, d, i, Parsed(<<>>, i + 1))
<1>1. PICK x : x = Parsed(<<>>, i + 1) /\ x.value = <<>> /\ x.next = i + 1
  BY ParsedFacts
<1>2. x.next - 1 = i
  BY <1>1
<1>3. SubSeq(data, i, i) = <<"e">>
  BY SliceOfOne
<1>4. PICK values, code : values = Values(depth)[d] /\ code = Codes(depth)[d]
  OBVIOUS
<1>5. ListCode(code, <<>>) = <<>> /\ ItemsCode(code, <<>>) = <<>>
  BY DEF ListCode, ItemsCode
<1>6. PICK end \in Seq(Plain) : end = <<"e">>
  <2>1. <<"e">> \in Seq(Plain)
    BY MarkersArePlain
  <2> QED
    BY <2>1
<1>7. FlattenSeq(<<>>) \o end = end
  <2>1. FlattenSeq(<<>>) = <<>>
    BY DEF FlattenSeq
  <2>2. <<>> \o end = end
    BY ConcatEmpty
  <2> QED
    BY <2>1, <2>2
<1>8. <<>> \in Seq(values) /\ <<>> \in Seq(ItemsOf(values)) /\ <<>> \in Seq(Seq(Plain))
  OBVIOUS
<1>9. Keyed(<<>>)
  BY DEF Keyed, Sorted
<1>10. ReadsList(data, depth, d, i, x)
  BY <1>1, <1>2, <1>3, <1>4, <1>5, <1>6, <1>7, <1>8 DEF ReadsList
<1>11. ReadsItems(data, depth, d, i, x)
  BY <1>1, <1>2, <1>3, <1>4, <1>5, <1>6, <1>7, <1>8, <1>9 DEF ReadsItems
<1> QED
  BY <1>1, <1>10, <1>11

(* What is read at i is its own encoding, when that holds further on.      *)
LEMMA ValuesAreRead ==
    ASSUME NEW data \in Seq(Plain), NEW depth \in Nat, NEW d \in 1..depth,
           NEW i \in 1..Len(data), NEW g, Advances(data, g, i + 1),
           \A y \in g[i + 1]["list"] : ReadsList(data, depth, d - 1, i + 1, y),
           \A y \in g[i + 1]["dict"] : ReadsItems(data, depth, d - 1, i + 1, y),
           NEW x \in ParseValue(data, g, i)
    PROVE  ReadsValue(data, depth, d, i, x)
<1>0. Len(data) \in Nat /\ ~(i > Len(data)) /\ i + 1 \in (i + 1)..(Len(data) + 1)
  OBVIOUS
<1>1. CASE data[i] = "i"
  <2>1. x \in ParseInteger(data, i)
    BY <1>0, <1>1, ParseValueAt
  <2> QED
    BY <1>1, <2>1, IntegerIsRead
<1>2. CASE data[i] = "l"
  <2>1. PICK rest \in g[i + 1]["list"] : x = Parsed([list |-> rest.value], rest.next)
    BY <1>0, <1>2, ParseValueAt
  <2>2. rest.next \in (i + 2)..(Len(data) + 1)
    <3>1. rest.next \in (i + 1 + 1)..(Len(data) + 1)
      BY <1>0, <2>1 DEF Advances, Parts
    <3>2. i + 1 + 1 = i + 2
      OBVIOUS
    <3> QED
      BY <3>1, <3>2
  <2>3. ReadsList(data, depth, d - 1, i + 1, rest)
    BY <2>1
  <2> QED
    BY <1>2, <2>1, <2>2, <2>3, ListIsRead
<1>3. CASE data[i] = "d"
  <2>1. PICK rest \in g[i + 1]["dict"] : x = Parsed([dict |-> Range(rest.value)], rest.next)
    BY <1>0, <1>3, ParseValueAt
  <2>2. rest.next \in (i + 2)..(Len(data) + 1)
    <3>1. rest.next \in (i + 1 + 1)..(Len(data) + 1)
      BY <1>0, <2>1 DEF Advances, Parts
    <3>2. i + 1 + 1 = i + 2
      OBVIOUS
    <3> QED
      BY <3>1, <3>2
  <2>3. ReadsItems(data, depth, d - 1, i + 1, rest)
    BY <2>1
  <2> QED
    BY <1>3, <2>1, <2>2, <2>3, DictionaryIsRead
<1>4. CASE data[i] \in Ten
  <2>1. x \in ParseBytes(data, i)
    BY <1>0, <1>4, ParseValueAt
  <2> QED
    BY <1>4, <2>1, BytesAreRead
<1>5. CASE data[i] \notin {"i", "l", "d"} \cup Ten
  <2>1. ParseValue(data, g, i) = {}
    BY <1>0, <1>5, ParseValueAt
  <2> QED
    BY <2>1
<1> QED
  BY <1>1, <1>2, <1>3, <1>4, <1>5

(* The same for what is left of a list.                                    *)
LEMMA ListsAreRead ==
    ASSUME NEW data \in Seq(Plain), NEW depth, NEW d,
           NEW i \in 1..Len(data), NEW g, Advances(data, g, i + 1),
           \A y \in ParseValue(data, g, i) : ReadsValue(data, depth, d, i, y),
           \A j \in (i + 1)..(Len(data) + 1) : \A y \in g[j]["list"] : ReadsList(data, depth, d, j, y),
           NEW x \in ParseList(data, g, i)
    PROVE  ReadsList(data, depth, d, i, x)
<1>0. Len(data) \in Nat /\ ~(i > Len(data))
  OBVIOUS
<1>1. CASE data[i] = "e"
  <2>1. x = Parsed(<<>>, i + 1)
    BY <1>0, <1>1, ListParsed
  <2> QED
    BY <1>1, <2>1, EndIsRead
<1>2. CASE data[i] # "e"
  <2>1. PICK item \in ParseValue(data, g, i) : \E rest \in g[item.next]["list"] :
           x = Parsed(<<item.value>> \o rest.value, rest.next)
    BY <1>0, <1>2, ListParsed
  <2>2. PICK rest \in g[item.next]["list"] : x = Parsed(<<item.value>> \o rest.value, rest.next)
    BY <2>1
  <2>3. PICK j \in (i + 1)..(Len(data) + 1) : j = item.next
    <3>1. i \in 1..(Len(data) + 1)
      BY <1>0
    <3>2. item.next \in (i + 1)..(Len(data) + 1)
      BY <3>1, ValuesAdvance
    <3> QED
      BY <3>2
  <2>4. PICK next \in (j + 1)..(Len(data) + 1) : next = rest.next
    <3>1. rest.next \in (j + 1)..(Len(data) + 1)
      BY <2>2, <2>3 DEF Advances, Parts
    <3> QED
      BY <3>1
  <2>5. j \in (i + 1)..Len(data)
    BY <1>0, <2>4
  <2>6. PICK b \in j..Len(data) : b = next - 1
    <3>1. next - 1 \in j..Len(data)
      BY <1>0, <2>4
    <3> QED
      BY <3>1
  <2>7. PICK values, code : values = Values(depth)[d] /\ code = Codes(depth)[d]
    OBVIOUS
  <2>8. PICK v \in values : v = item.value /\ code[v] = SubSeq(data, i, j - 1)
    BY <2>3, <2>7 DEF ReadsValue
  <2>9. ReadsList(data, depth, d, j, rest)
    BY <2>2, <2>3
  <2>10. PICK s \in Seq(values) :
            /\ s = rest.value /\ ListCode(code, s) \in Seq(Seq(Plain))
            /\ FlattenSeq(ListCode(code, s)) \o <<"e">> = SubSeq(data, j, b)
    BY <2>4, <2>6, <2>7, <2>9 DEF ReadsList
  <2>11. /\ SubSeq(data, i, j - 1) \o SubSeq(data, j, b) = SubSeq(data, i, b)
         /\ SubSeq(data, i, j - 1) \in Seq(Plain) /\ SubSeq(data, j, b) \in Seq(Plain)
    BY <2>5, <2>6, ConcatSlices
  <2>12. PICK c \in Seq(Plain) : c = code[v]
    BY <2>8, <2>11
  <2>13. PICK all \in Seq(values) :
            /\ all = Prepend(v, s) /\ ListCode(code, all) \in Seq(Seq(Plain))
            /\ FlattenSeq(ListCode(code, all)) = c \o FlattenSeq(ListCode(code, s))
    <3>1. code[v] \in Seq(Plain)
      BY <2>12
    <3>2. /\ Prepend(v, s) \in Seq(values)
          /\ ListCode(code, Prepend(v, s)) \in Seq(Seq(Plain))
          /\ FlattenSeq(ListCode(code, Prepend(v, s))) = code[v] \o FlattenSeq(ListCode(code, s))
      <4>1. ListCode(code, s) \in Seq(Seq(Plain))
        BY <2>10
      <4> QED
        BY ONLY v \in values, s \in Seq(values), <3>1, <4>1, ListCons
    <3>3. PICK all \in Seq(values) : all = Prepend(v, s)
      BY <3>2
    <3> QED
      BY <2>12, <3>2, <3>3
  <2>14. PICK inner \in Seq(Plain) : inner = FlattenSeq(ListCode(code, s))
    BY <2>10, FlattenFacts
  <2>15. PICK end \in Seq(Plain) : end = <<"e">>
    <3>1. <<"e">> \in Seq(Plain)
      BY MarkersArePlain
    <3> QED
      BY <3>1
  <2>16. (c \o inner) \o end = c \o (inner \o end)
    BY PlainConcat
  <2>17. FlattenSeq(ListCode(code, all)) \o <<"e">> = SubSeq(data, i, b)
    BY <2>8, <2>10, <2>11, <2>12, <2>13, <2>14, <2>15, <2>16
  <2>18. x = Parsed(all, next)
    BY <2>2, <2>4, <2>8, <2>10, <2>13 DEF Prepend
  <2>19. x.value = all /\ x.next - 1 = b
    BY <2>6, <2>18, ParsedFacts
  <2> QED
    BY <2>7, <2>13, <2>17, <2>19 DEF ReadsList
<1> QED
  BY <1>1, <1>2

(* The same for what is left of a dictionary.                              *)
LEMMA DictionariesAreRead ==
    ASSUME NEW data \in Seq(Plain), NEW depth, NEW d,
           NEW i \in 1..Len(data), NEW g, Advances(data, g, i + 1),
           \A j \in (i + 1)..(Len(data) + 1) : \A y \in g[j]["value"] : ReadsValue(data, depth, d, j, y),
           \A j \in (i + 1)..(Len(data) + 1) : \A y \in g[j]["dict"] : ReadsItems(data, depth, d, j, y),
           NEW x \in ParseDictionary(data, g, i)
    PROVE  ReadsItems(data, depth, d, i, x)
<1>0. Len(data) \in Nat /\ ~(i > Len(data))
  OBVIOUS
<1>1. CASE data[i] = "e"
  <2>1. x = Parsed(<<>>, i + 1)
    BY <1>0, <1>1, DictionaryParsed
  <2> QED
    BY <1>1, <2>1, EndIsRead
<1>2. CASE data[i] # "e"
  <2>1. PICK key \in ParseValue(data, g, i) :
           /\ "bytes" \in DOMAIN key.value
           /\ \E item \in g[key.next]["value"] : \E rest \in g[item.next]["dict"] :
                 /\ Precedes(key.value.bytes, rest.value)
                 /\ x = Parsed(<<[key |-> key.value.bytes, value |-> item.value]>>
                                  \o rest.value, rest.next)
    <3>1. StartsWithItem(data, g, i, x)
      BY <1>0, <1>2, DictionaryParsed
    <3> QED
      BY <3>1, Zenon DEF StartsWithItem
  <2>2. PICK name \in Texts : /\ key.value.bytes = name /\ key.next - 1 \in i..Len(data)
                              /\ EncodeBytes(name) = SubSeq(data, i, key.next - 1)
    <3>1. data[i] \in Ten /\ key \in ParseBytes(data, i)
      BY <1>0, <2>1, BytesBegin
    <3>2. PICK name \in Texts : /\ key.value = [bytes |-> name] /\ key.next - 1 \in i..Len(data)
                                /\ EncodeBytes(name) = SubSeq(data, i, key.next - 1)
      BY <3>1, BytesInvert
    <3> QED
      BY <3>2
  <2>3. PICK item \in g[key.next]["value"] : \E rest \in g[item.next]["dict"] :
           /\ Precedes(name, rest.value)
           /\ x = Parsed(<<[key |-> name, value |-> item.value]>> \o rest.value, rest.next)
    BY <2>1, <2>2
  <2>4. PICK rest \in g[item.next]["dict"] :
           /\ Precedes(name, rest.value)
           /\ x = Parsed(<<[key |-> name, value |-> item.value]>> \o rest.value, rest.next)
    BY <2>3
  <2>5. PICK k \in (i + 1)..(Len(data) + 1) : k = key.next
    <3>1. i \in 1..(Len(data) + 1)
      BY <1>0
    <3>2. key.next \in (i + 1)..(Len(data) + 1)
      BY <3>1, ValuesAdvance
    <3> QED
      BY <3>2
  <2>6. PICK j \in (k + 1)..(Len(data) + 1) : j = item.next
    <3>1. item.next \in (k + 1)..(Len(data) + 1)
      BY <2>3, <2>5 DEF Advances, Parts
    <3> QED
      BY <3>1
  <2>7. PICK next \in (j + 1)..(Len(data) + 1) : next = rest.next
    <3>1. j \in (i + 1)..(Len(data) + 1)
      BY <1>0, <2>6
    <3>2. rest.next \in (j + 1)..(Len(data) + 1)
      BY <2>4, <2>6, <3>1 DEF Advances, Parts
    <3> QED
      BY <3>2
  <2>8. k \in (i + 1)..Len(data) /\ j \in (k + 1)..Len(data) /\ j \in (i + 1)..Len(data)
        /\ j - 1 \in k..Len(data) /\ j \in (i + 1)..(Len(data) + 1)
    BY <1>0, <2>5, <2>6, <2>7
  <2>9. PICK b \in j..Len(data) : b = next - 1
    <3>1. next - 1 \in j..Len(data)
      BY <1>0, <2>7
    <3> QED
      BY <3>1
  <2>10. PICK values, code : values = Values(depth)[d] /\ code = Codes(depth)[d]
    OBVIOUS
  <2>11. PICK v \in values : v = item.value /\ code[v] = SubSeq(data, k, j - 1)
    <3>1. ReadsValue(data, depth, d, k, item)
      BY <2>3, <2>5
    <3> QED
      BY <2>6, <2>10, <3>1 DEF ReadsValue
  <2>12. ReadsItems(data, depth, d, j, rest)
    BY <2>4, <2>6, <2>8
  <2>13. PICK s \in Seq(ItemsOf(values)) :
            /\ s = rest.value /\ Keyed(s) /\ ItemsCode(code, s) \in Seq(Seq(Plain))
            /\ FlattenSeq(ItemsCode(code, s)) \o <<"e">> = SubSeq(data, j, b)
    BY <2>7, <2>9, <2>10, <2>12 DEF ReadsItems
  <2>14. PICK entry \in ItemsOf(values) :
            entry = [key |-> name, value |-> v] /\ entry.key = name /\ entry.value = v
    <3>1. [key |-> name, value |-> v] \in ItemsOf(values)
      BY DEF ItemsOf
    <3>2. [key |-> name, value |-> v].key = name /\ [key |-> name, value |-> v].value = v
      OBVIOUS
    <3> QED
      BY <3>1, <3>2
  <2>15. PICK c \in Seq(Plain) : c = EncodeItem(code, entry) /\ c = SubSeq(data, i, j - 1)
    <3>1. SubSeq(data, i, k - 1) \o SubSeq(data, k, j - 1) = SubSeq(data, i, j - 1)
      BY <2>8, ConcatSlices
    <3>2. SubSeq(data, i, j - 1) \in Seq(Plain)
      BY <2>8, <2>9, ConcatSlices
    <3>3. EncodeItem(code, entry) = EncodeBytes(name) \o code[v]
      BY <2>14 DEF EncodeItem
    <3>4. EncodeItem(code, entry) = SubSeq(data, i, j - 1)
      BY <2>2, <2>5, <2>11, <3>1, <3>3
    <3> QED
      BY <3>2, <3>4
  <2>16. /\ SubSeq(data, i, j - 1) \o SubSeq(data, j, b) = SubSeq(data, i, b)
    BY <2>8, <2>9, ConcatSlices
  <2>17. PICK all \in Seq(ItemsOf(values)) :
            /\ all = Prepend(entry, s) /\ ItemsCode(code, all) \in Seq(Seq(Plain))
            /\ FlattenSeq(ItemsCode(code, all)) = c \o FlattenSeq(ItemsCode(code, s))
    <3>1. EncodeItem(code, entry) \in Seq(Plain)
      BY <2>15
    <3>2. /\ Prepend(entry, s) \in Seq(ItemsOf(values))
          /\ ItemsCode(code, Prepend(entry, s)) \in Seq(Seq(Plain))
          /\ FlattenSeq(ItemsCode(code, Prepend(entry, s))) = EncodeItem(code, entry) \o FlattenSeq(ItemsCode(code, s))
      <4>1. ItemsCode(code, s) \in Seq(Seq(Plain)) /\ s \in Seq(ItemsOf(values)) /\ entry \in ItemsOf(values)
        BY <2>13
      <4> QED
        BY ONLY <3>1, <4>1, ItemsCons
    <3>3. PICK all \in Seq(ItemsOf(values)) : all = Prepend(entry, s)
      BY <3>2
    <3> QED
      BY <2>15, <3>2, <3>3
  <2>18. Keyed(all)
    <3>1. Precedes(entry.key, s)
      BY <2>4, <2>13, <2>14
    <3> QED
      BY <2>13, <2>17, <3>1, KeyedCons
  <2>19. PICK inner \in Seq(Plain) : inner = FlattenSeq(ItemsCode(code, s))
    BY <2>13, FlattenFacts
  <2>20. PICK end \in Seq(Plain) : end = <<"e">>
    <3>1. <<"e">> \in Seq(Plain)
      BY MarkersArePlain
    <3> QED
      BY <3>1
  <2>21. (c \o inner) \o end = c \o (inner \o end)
    BY PlainConcat
  <2>22. FlattenSeq(ItemsCode(code, all)) \o <<"e">> = SubSeq(data, i, b)
    BY <2>13, <2>15, <2>16, <2>17, <2>19, <2>20, <2>21
  <2>23. x = Parsed(all, next)
    BY <2>4, <2>7, <2>11, <2>13, <2>14, <2>17 DEF Prepend
  <2>24. x.value = all /\ x.next - 1 = b
    BY <2>9, <2>23, ParsedFacts
  <2> QED
    BY <2>10, <2>17, <2>18, <2>22, <2>24 DEF ReadsItems
<1> QED
  BY <1>1, <1>2

(* All that the parser may read at position i is its own encoding.         *)
AllRead(data, g, depth, d, i) ==
    /\ \A x \in g[i]["value"] : ReadsValue(data, depth, d, i, x)
    /\ \A x \in g[i]["list"] : ReadsList(data, depth, d, i, x)
    /\ \A x \in g[i]["dict"] : ReadsItems(data, depth, d, i, x)

(* By the number of symbols that are left: what is read of them is nested  *)
(* no deeper than that.                                                    *)
LEMMA TextIsRead ==
    ASSUME NEW data \in Seq(Plain)
    PROVE  \A x \in Parser(data)[1]["value"] : ReadsValue(data, Len(data), Len(data), 1, x)
<1>0. PICK len \in Nat : len = Len(data)
  OBVIOUS
<1>1. PICK g : g = Parser(data)
  OBVIOUS
<1>2. /\ Advances(data, g, 1)
      /\ \A i \in 1..(len + 1) :
            /\ g[i]["value"] = ParseValue(data, g, i)
            /\ g[i]["list"] = ParseList(data, g, i)
            /\ g[i]["dict"] = ParseDictionary(data, g, i)
  BY <1>0, <1>1, ParserFacts
<1> DEFINE T == {k \in 0..len : \A i \in 1..(len + 1) : \A d \in 0..len :
                    (len + 1 - i <= k /\ len + 1 - i <= d) => AllRead(data, g, len, d, i)}
<1>3. \A d : AllRead(data, g, len, d, len + 1)
  <2>1. len + 1 > Len(data) /\ len + 1 \in 1..(len + 1)
    BY <1>0
  <2>2. /\ g[len + 1]["value"] = {} /\ g[len + 1]["list"] = {} /\ g[len + 1]["dict"] = {}
    BY <1>2, <2>1, ParseValueAt, ListParsed, DictionaryParsed
  <2> QED
    BY <2>2 DEF AllRead
<1>4. 0 \in T
  <2>1. \A i \in 1..(len + 1) : len + 1 - i <= 0 => i = len + 1
    OBVIOUS
  <2>2. 0 \in 0..len
    OBVIOUS
  <2> QED
    BY <1>3, <2>1, <2>2
<1>5. ASSUME NEW k \in 1..len, k - 1 \in T
      PROVE  k \in T
  <2>1. \A i \in 1..(len + 1) : \A d \in 0..len :
           (len + 1 - i <= k - 1 /\ len + 1 - i <= d) => AllRead(data, g, len, d, i)
    BY <1>5
  <2>2. ASSUME NEW i \in 1..(len + 1), NEW d \in 0..len, len + 1 - i <= k, len + 1 - i <= d
        PROVE  AllRead(data, g, len, d, i)
    <3>1. CASE len + 1 - i <= k - 1
      BY <2>1, <2>2, <3>1
    <3>2. CASE len + 1 - i > k - 1
      <4>1. i \in 1..Len(data) /\ i + 1 \in 1..(len + 1) /\ d \in 1..len /\ d - 1 \in 0..len
            /\ len + 1 - i = k /\ len + 1 - (i + 1) = k - 1
        BY <1>0, <2>2, <3>2
      <4>2. AllRead(data, g, len, d - 1, i + 1)
        <5>1. len + 1 - (i + 1) <= k - 1 /\ len + 1 - (i + 1) <= d - 1
          BY <2>2, <4>1
        <5> QED
          BY <2>1, <4>1, <5>1
      <4>3. \A j \in (i + 1)..(len + 1) : AllRead(data, g, len, d, j)
        <5> TAKE j \in (i + 1)..(len + 1)
        <5>1. len + 1 - j <= k - 1 /\ len + 1 - j <= d /\ j \in 1..(len + 1)
          BY <2>2, <4>1
        <5> QED
          BY <2>1, <5>1
      <4>4. Advances(data, g, i + 1)
        <5>1. (i + 1)..(Len(data) + 1) \subseteq 1..(Len(data) + 1)
          OBVIOUS
        <5> QED
          BY <1>2, <5>1 DEF Advances
      <4>5. \A x \in ParseValue(data, g, i) : ReadsValue(data, len, d, i, x)
        <5>1. /\ \A y \in g[i + 1]["list"] : ReadsList(data, len, d - 1, i + 1, y)
              /\ \A y \in g[i + 1]["dict"] : ReadsItems(data, len, d - 1, i + 1, y)
          BY <4>2 DEF AllRead
        <5> QED
          BY <4>1, <4>4, <5>1, ValuesAreRead
      <4>6. \A x \in ParseList(data, g, i) : ReadsList(data, len, d, i, x)
        <5>1. \A j \in (i + 1)..(Len(data) + 1) : \A y \in g[j]["list"] : ReadsList(data, len, d, j, y)
          BY <1>0, <4>3 DEF AllRead
        <5> QED
          BY <4>1, <4>4, <4>5, <5>1, ListsAreRead
      <4>7. \A x \in ParseDictionary(data, g, i) : ReadsItems(data, len, d, i, x)
        <5>1. \A j \in (i + 1)..(Len(data) + 1) : \A y \in g[j]["value"] : ReadsValue(data, len, d, j, y)
          BY <1>0, <4>3 DEF AllRead
        <5>2. \A j \in (i + 1)..(Len(data) + 1) : \A y \in g[j]["dict"] : ReadsItems(data, len, d, j, y)
          BY <1>0, <4>3 DEF AllRead
        <5> QED
          BY <4>1, <4>4, <5>1, <5>2, DictionariesAreRead
      <4> QED
        BY <1>2, <4>5, <4>6, <4>7 DEF AllRead
    <3> QED
      BY <3>1, <3>2
  <2> QED
    BY <2>2
<1> HIDE DEF T
<1>6. 0..len \subseteq T
  BY <1>4, <1>5, Induction
<1>7. len \in T /\ 1 \in 1..(len + 1) /\ len \in 0..len /\ len + 1 - 1 <= len
  BY <1>6
<1>8. AllRead(data, g, len, len, 1)
  BY <1>7 DEF T
<1> QED
  BY <1>0, <1>1, <1>8 DEF AllRead

(* The decoder takes nothing but what the encoder writes.                  *)
THEOREM DecodedIsCanonical ==
    ASSUME NEW data \in Seq(Plain), NEW v \in Decode(data)
    PROVE  Encode(Len(data), v) = data
<1>0. PICK len \in Nat : len = Len(data)
  OBVIOUS
<1>1. PICK p \in Parser(data)[1]["value"] : p.next = len + 1 /\ v = p.value
  BY <1>0 DEF Decode
<1>2. Codes(len)[len][v] = SubSeq(data, 1, len)
  <2>1. ReadsValue(data, len, len, 1, p)
    BY <1>0, TextIsRead
  <2>2. p.next - 1 = len
    BY <1>1
  <2> QED
    BY <1>1, <2>1, <2>2 DEF ReadsValue
<1>3. len # 0
  <2> SUFFICES ASSUME len = 0
               PROVE  FALSE
    OBVIOUS
  <2>1. 1 > Len(data) /\ 1 \in 1..(Len(data) + 1)
    BY <1>0
  <2>2. p \in ParseValue(data, Parser(data), 1)
    BY <2>1, ParserFacts
  <2> QED
    BY <2>1, <2>2, ParseValueAt
<1>4. SubSeq(data, 1, len) = data
  BY <1>0, <1>3, WholeSlice
<1> QED
  BY <1>0, <1>2, <1>4 DEF Encode

-----------------------------------------------------------------------------
(* What the encoder writes, the parser reads, wherever in a text it is.    *)
At(data, i, c) ==
    /\ i + Len(c) <= Len(data) + 1
    /\ \A k \in 1..Len(c) : data[i + k - 1] = c[k]

(* Where c stands in a text, the parser reads v and nothing else.          *)
IsReadAs(c, v) ==
    \A data \in Texts : \A i \in 1..(Len(data) + 1) :
        At(data, i, c) => Parser(data)[i]["value"] = {Parsed(v, i + Len(c))}

(* Where two texts stand one after the other, each of them stands.         *)
LEMMA AtSplits ==
    ASSUME NEW S, NEW a \in Seq(S), NEW b \in Seq(S), NEW data, NEW i \in Nat, At(data, i, a \o b)
    PROVE  /\ Len(a \o b) = Len(a) + Len(b)
           /\ Len(data) \in Nat => At(data, i, a)
           /\ At(data, i + Len(a), b)
<1>1. /\ Len(a \o b) = Len(a) + Len(b) /\ Len(a) \in Nat /\ Len(b) \in Nat
      /\ \A k \in 1..Len(a) : (a \o b)[k] = a[k]
      /\ \A k \in 1..Len(b) : (a \o b)[Len(a) + k] = b[k]
  BY ConcatFacts
<1>2. PICK m \in Nat, n \in Nat : m = Len(a) /\ n = Len(b)
  BY <1>1
<1>3. i + (m + n) <= Len(data) + 1 /\ \A k \in 1..(m + n) : data[i + k - 1] = (a \o b)[k]
  BY <1>1, <1>2 DEF At
<1>4. ASSUME NEW k \in 1..m
      PROVE  data[i + k - 1] = a[k]
  <2>1. k \in 1..(m + n)
    BY <1>2
  <2>2. data[i + k - 1] = (a \o b)[k]
    BY <1>3, <2>1
  <2>3. k \in 1..Len(a)
    BY <1>2
  <2> QED
    BY <1>1, <2>2, <2>3
<1>5. ASSUME NEW k \in 1..n
      PROVE  data[(i + m) + k - 1] = b[k]
  <2>1. m + k \in 1..(m + n) /\ i + (m + k) - 1 = (i + m) + k - 1
    OBVIOUS
  <2>2. data[i + (m + k) - 1] = (a \o b)[m + k]
    BY <1>3, <2>1
  <2> QED
    BY <1>1, <1>2, <2>1, <2>2
<1>6. (i + m) + n = i + (m + n) /\ (Len(data) \in Nat => i + m <= Len(data) + 1)
  BY <1>3
<1> QED
  BY <1>1, <1>2, <1>3, <1>4, <1>5, <1>6 DEF At

(* A text that stands at a place is the slice there.                       *)
LEMMA AtSlice ==
    ASSUME NEW S, NEW data \in Seq(S), NEW i \in 1..(Len(data) + 1), NEW c \in Seq(S), At(data, i, c)
    PROVE  SubSeq(data, i, i + Len(c) - 1) = c
<1>1. PICK n \in Nat, j \in Nat : n = Len(c) /\ j = i + Len(c) - 1 /\ j - i + 1 = n
  <2>1. Len(c) \in Nat /\ i + Len(c) - 1 \in Nat /\ (i + Len(c) - 1) - i + 1 = Len(c)
    OBVIOUS
  <2> QED
    BY <2>1
<1>2. i \in Nat /\ 1 <= i /\ i <= j + 1 /\ j <= Len(data) /\ Len(data) \in Nat
  BY <1>1 DEF At
<1>3. /\ SubSeq(data, i, j) \in Seq(S) /\ Len(SubSeq(data, i, j)) = j - i + 1
      /\ \A k \in 1..(j - i + 1) : SubSeq(data, i, j)[k] = data[i + k - 1]
  BY ONLY data \in Seq(S), j \in Nat, <1>2, SubSeqFacts
<1>4. PICK s \in Seq(S) : s = SubSeq(data, i, j)
  BY <1>3
<1>5. Len(s) = n /\ \A k \in 1..n : s[k] = c[k]
  BY <1>1, <1>3, <1>4 DEF At
<1>6. s = c
  BY <1>1, <1>5
<1> QED
  BY <1>1, <1>4, <1>6

(* Digits and marks are texts.                                             *)
LEMMA SymbolTexts ==
    /\ Ten \subseteq Range(Symbols)
    /\ \A c \in Ten \cup {"i", "l", "d", "e", ":", "-"} : <<c>> \in Texts
    /\ \A s \in Seq(Ten) : s \in Texts
<1>1. Ten \cup {"i", "l", "d", "e", ":", "-"} \subseteq Range(Symbols)
  BY SymbolsDiffer DEF Ten
<1> QED
  BY <1>1 DEF Texts

(* A natural number between its markers.                                   *)
IntText(n) == <<"i">> \o Decimal(n) \o <<"e">>

(* A natural number is read as itself.                                     *)
LEMMA IntegerReadsBack ==
    ASSUME NEW n \in Nat
    PROVE  IntText(n) \in Texts /\ IsReadAs(IntText(n), [int |-> n])
<1>1. PICK one \in Texts, num \in Texts, end \in Texts :
         one = <<"i">> /\ num = Decimal(n) /\ end = <<"e">>
  BY SymbolTexts, DecimalFacts DEF IsNumeral
<1>2. num \in Seq(Ten) /\ num # <<>> /\ ~LeadingZero(num) /\ Len(num) \in Nat \ {0}
  BY <1>1, DecimalFacts DEF IsNumeral
<1>3. one \o num \in Texts /\ (one \o num) \o end \in Texts
  BY <1>1, ConcatFacts DEF Texts
<1>4. Len(one) = 1 /\ one[1] = "i" /\ Len(end) = 1 /\ end[1] = "e"
  BY <1>1
<1> SUFFICES ASSUME NEW data \in Texts, NEW i \in 1..(Len(data) + 1), At(data, i, (one \o num) \o end)
             PROVE  Parser(data)[i]["value"] = {Parsed([int |-> n], i + Len((one \o num) \o end))}
  BY <1>1, <1>3 DEF IntText, IsReadAs
<1>5. PICK S : S = Range(Symbols)
  OBVIOUS
<1>6. data \in Seq(S) /\ one \in Seq(S) /\ num \in Seq(S) /\ end \in Seq(S) /\ one \o num \in Seq(S)
  BY <1>1, <1>3, <1>5 DEF Texts
<1>7. Len(data) \in Nat /\ i \in Nat
  BY <1>6
<1>8. /\ At(data, i, one \o num) /\ At(data, i + Len(one \o num), end)
      /\ Len((one \o num) \o end) = Len(one \o num) + Len(end)
  BY <1>6, <1>7, AtSplits
<1>9. /\ At(data, i, one) /\ At(data, i + Len(one), num)
      /\ Len(one \o num) = Len(one) + Len(num)
  BY <1>6, <1>7, <1>8, AtSplits
<1>10. PICK stop \in (i + 2)..Len(data) : stop = i + 1 + Len(num)
  <2>1. i + 1 + Len(num) \in (i + 2)..Len(data)
    BY <1>2, <1>4, <1>7, <1>8, <1>9 DEF At
  <2> QED
    BY <2>1
<1>11. data[i] = "i" /\ data[stop] = "e"
  <2>1. 1 \in 1..1 /\ i + 1 - 1 = i
    BY <1>7
  <2>2. data[i + 1 - 1] = one[1]
    BY <1>4, <1>9, <2>1 DEF At
  <2>3. i + Len(one \o num) + 1 - 1 = stop
    BY <1>2, <1>4, <1>7, <1>9, <1>10
  <2>4. data[i + Len(one \o num) + 1 - 1] = end[1]
    BY <1>4, <1>8, <2>1 DEF At
  <2> QED
    BY <1>4, <2>1, <2>2, <2>3, <2>4
<1>12. SubSeq(data, i + 1, stop - 1) = num
  <2>1. i + 1 \in 1..(Len(data) + 1) /\ i + 1 + Len(num) - 1 = stop - 1 /\ At(data, i + 1, num)
    BY <1>2, <1>4, <1>7, <1>9, <1>10
  <2> QED
    BY <1>6, <2>1, AtSlice
<1>13. Find(data, "e", i + 1) = {stop}
  <2>1. ASSUME NEW j \in (i + 1)..(stop - 1)
        PROVE  data[j] # "e"
    <3>1. PICK k \in 1..Len(num) : j = i + 1 + k - 1
      <4>1. j - i \in 1..Len(num) /\ j = i + 1 + (j - i) - 1
        BY <1>2, <1>7, <1>10
      <4> QED
        BY <4>1
    <3>2. data[i + 1 + k - 1] = num[k]
      BY <1>4, <1>9 DEF At
    <3>3. num[k] \in Ten
      BY <1>2
    <3> QED
      BY <3>1, <3>2, <3>3 DEF Ten
  <2>2. i + 1 \in Nat /\ stop \in (i + 1)..Len(data)
    BY <1>7
  <2> QED
    BY <1>6, <1>11, <2>1, <2>2, FindsFirst
<1>14. ~IsPrefix(<<"-", "0">>, num)
  <2> SUFFICES ASSUME IsPrefix(<<"-", "0">>, num)
               PROVE  FALSE
    OBVIOUS
  <2>1. PICK m : m = <<"-", "0">> /\ Len(m) = 2 /\ m[1] = "-" /\ SubSeq(m, 1, 2) = m
    <3>1. Len(<<"-", "0">>) = 2 /\ SubSeq(<<"-", "0">>, 1, 2) = <<"-", "0">>
      BY ONLY SliceOfPair
    <3> QED
      BY <3>1
  <2>2. Len(num) >= 2 /\ m = SubSeq(num, 1, 2)
    BY <2>1 DEF IsPrefix
  <2>3. SubSeq(num, 1, 2) = <<num[1], num[2]>>
    <3>1. num \in Seq(Ten) /\ Len(num) >= 2
      BY <1>2, <2>2
    <3> QED
      BY ONLY <3>1, SliceOfTwo
  <2>4. num[1] = "-"
    BY <2>1, <2>2, <2>3
  <2>5. num[1] \in Ten
    BY <1>2
  <2> QED
    BY <2>4, <2>5 DEF Ten
<1>15. ParseInteger(data, i) = {Parsed([int |-> n], stop + 1)}
  <2>1. PyInt(num) = {n}
    BY <1>1, IntOfDecimal
  <2>2. ParseInteger(data, i) =
           LET raw == SubSeq(data, i + 1, stop - 1) IN
           IF LeadingZero(raw) \/ IsPrefix(<<"-", "0">>, raw)
           THEN {}
           ELSE {Parsed([int |-> k], stop + 1) : k \in PyInt(raw)}
    <3> DEFINE Ends(upto) == LET raw == SubSeq(data, i + 1, upto - 1) IN
                            IF LeadingZero(raw) \/ IsPrefix(<<"-", "0">>, raw)
                            THEN {}
                            ELSE {Parsed([int |-> k], upto + 1) : k \in PyInt(raw)}
    <3>1. ParseInteger(data, i) = UNION {Ends(upto) : upto \in {stop}}
      BY <1>13 DEF ParseInteger
    <3> HIDE DEF Ends
    <3>2. ParseInteger(data, i) = Ends(stop)
      BY <3>1
    <3> QED
      BY <3>2 DEF Ends
  <2>3. ParseInteger(data, i) =
           IF LeadingZero(num) \/ IsPrefix(<<"-", "0">>, num)
           THEN {}
           ELSE {Parsed([int |-> k], stop + 1) : k \in PyInt(num)}
    BY <1>12, <2>2, Zenon
  <2>4. ParseInteger(data, i) = {Parsed([int |-> k], stop + 1) : k \in PyInt(num)}
    BY <1>2, <1>14, <2>3, Zenon
  <2> QED
    BY <2>1, <2>4
<1>16. Parser(data)[i]["value"] = ParseInteger(data, i)
  <2>1. Parser(data)[i]["value"] = ParseValue(data, Parser(data), i)
    BY <1>6, ParserFacts
  <2>2. ~(i > Len(data))
    BY <1>7, <1>10
  <2> QED
    BY <1>11, <2>1, <2>2, ParseValueAt
<1>17. i + Len((one \o num) \o end) = stop + 1
  BY <1>2, <1>4, <1>7, <1>8, <1>9, <1>10
<1> QED
  BY <1>15, <1>16, <1>17

(* Where a text stands, its first symbol stands.                           *)
LEMMA AtFirst ==
    ASSUME NEW data, NEW i \in Nat, NEW c, Len(c) \in Nat \ {0}, At(data, i, c)
    PROVE  data[i] = c[1] /\ (Len(data) \in Nat => i <= Len(data))
<1>1. 1 \in 1..Len(c) /\ i + 1 - 1 = i
  OBVIOUS
<1>2. data[i + 1 - 1] = c[1]
  BY <1>1 DEF At
<1> QED
  BY <1>1, <1>2 DEF At

(* So are bytes.                                                           *)
LEMMA BytesReadBack ==
    ASSUME NEW s \in Texts
    PROVE  EncodeBytes(s) \in Texts /\ IsReadAs(EncodeBytes(s), [bytes |-> s])
<1>0. PICK n \in Nat : n = Len(s)
  BY DEF Texts
<1>1. PICK colon \in Texts, num \in Texts : colon = <<":">> /\ num = Decimal(n)
  BY SymbolTexts, DecimalFacts DEF IsNumeral
<1>2. num \in Seq(Ten) /\ num # <<>> /\ ~LeadingZero(num) /\ Len(num) \in Nat \ {0}
  BY <1>1, DecimalFacts DEF IsNumeral
<1>3. num \o colon \in Texts /\ (num \o colon) \o s \in Texts
  BY <1>1, ConcatFacts DEF Texts
<1>4. Len(colon) = 1 /\ colon[1] = ":"
  BY <1>1
<1>5. EncodeBytes(s) = (num \o colon) \o s
  BY <1>0, <1>1 DEF EncodeBytes
<1> SUFFICES ASSUME NEW data \in Texts, NEW i \in 1..(Len(data) + 1), At(data, i, (num \o colon) \o s)
             PROVE  Parser(data)[i]["value"] = {Parsed([bytes |-> s], i + Len((num \o colon) \o s))}
  BY <1>3, <1>5 DEF IsReadAs
<1>6. PICK S : S = Range(Symbols)
  OBVIOUS
<1>7. data \in Seq(S) /\ num \in Seq(S) /\ colon \in Seq(S) /\ s \in Seq(S) /\ num \o colon \in Seq(S)
  BY <1>1, <1>3, <1>6 DEF Texts
<1>8. Len(data) \in Nat /\ i \in Nat
  BY <1>7
<1>9. /\ At(data, i, num \o colon) /\ At(data, i + Len(num \o colon), s)
      /\ Len((num \o colon) \o s) = Len(num \o colon) + Len(s)
  BY <1>7, <1>8, AtSplits
<1>10. /\ At(data, i, num) /\ At(data, i + Len(num), colon)
      /\ Len(num \o colon) = Len(num) + Len(colon)
  BY <1>7, <1>8, <1>9, AtSplits
<1>11. PICK stop \in (i + 1)..Len(data) : stop = i + Len(num)
  <2>1. i + Len(num) \in (i + 1)..Len(data)
    BY <1>2, <1>4, <1>8, <1>9, <1>10 DEF At
  <2> QED
    BY <2>1
<1>12. data[i] \in Ten /\ data[stop] = ":" /\ ~(i > Len(data))
  <2>1. data[i] = num[1] /\ i <= Len(data) /\ num[1] \in Ten
    BY <1>2, <1>8, <1>10, AtFirst
  <2>2. data[stop] = ":"
    <3>1. stop \in Nat /\ Len(colon) \in Nat \ {0} /\ At(data, stop, colon)
      BY <1>4, <1>8, <1>10, <1>11
    <3> QED
      BY <1>4, <3>1, AtFirst
  <2> QED
    BY <1>8, <2>1, <2>2
<1>13. SubSeq(data, i, stop - 1) = num
  <2>1. SubSeq(data, i, i + Len(num) - 1) = num
    BY <1>7, <1>10, AtSlice
  <2> QED
    BY <1>11, <2>1
<1>14. Find(data, ":", i) = {stop}
  <2>1. ASSUME NEW j \in i..(stop - 1)
        PROVE  data[j] # ":"
    <3>1. PICK k \in 1..Len(num) : j = i + k - 1
      <4>1. j - i + 1 \in 1..Len(num) /\ j = i + (j - i + 1) - 1
        BY <1>2, <1>8, <1>11
      <4> QED
        BY <4>1
    <3>2. data[i + k - 1] = num[k]
      BY <1>10 DEF At
    <3>3. num[k] \in Ten
      BY <1>2
    <3> QED
      BY <3>1, <3>2, <3>3 DEF Ten
  <2>2. i \in Nat /\ stop \in i..Len(data)
    BY <1>8
  <2> QED
    BY <1>7, <1>12, <2>1, <2>2, FindsFirst
<1>15. SubSeq(data, stop + 1, stop + n) = s /\ stop + n <= Len(data)
  <2>1. stop + 1 \in 1..(Len(data) + 1) /\ At(data, stop + 1, s) /\ stop + 1 + Len(s) - 1 = stop + n
    BY <1>0, <1>2, <1>4, <1>8, <1>9, <1>10, <1>11
  <2>2. SubSeq(data, stop + 1, stop + 1 + Len(s) - 1) = s
    BY <1>7, <2>1, AtSlice
  <2>3. stop + n <= Len(data)
    BY <1>0, <1>8, <2>1 DEF At
  <2> QED
    BY <2>1, <2>2, <2>3
<1>16. ParseBytes(data, i) = {Parsed([bytes |-> s], stop + n + 1)}
  <2>1. PyInt(num) = {n}
    BY <1>1, IntOfDecimal
  <2>2. ParseBytes(data, i) =
           LET raw == SubSeq(data, i, stop - 1) IN
           IF LeadingZero(raw)
           THEN {}
           ELSE {Parsed([bytes |-> SubSeq(data, stop + 1, stop + k)], stop + k + 1)
                   : k \in {m \in PyInt(raw) : stop + m <= Len(data)}}
    <3> DEFINE Ends(end) == LET raw == SubSeq(data, i, end - 1) IN
                            IF LeadingZero(raw)
                            THEN {}
                            ELSE {Parsed([bytes |-> SubSeq(data, end + 1, end + k)], end + k + 1)
                                    : k \in {m \in PyInt(raw) : end + m <= Len(data)}}
    <3>1. ParseBytes(data, i) = UNION {Ends(end) : end \in {stop}}
      BY <1>14 DEF ParseBytes
    <3> HIDE DEF Ends
    <3>2. ParseBytes(data, i) = Ends(stop)
      BY <3>1
    <3> QED
      BY <3>2 DEF Ends
  <2>3. ParseBytes(data, i) =
           IF LeadingZero(num)
           THEN {}
           ELSE {Parsed([bytes |-> SubSeq(data, stop + 1, stop + k)], stop + k + 1)
                   : k \in {m \in PyInt(num) : stop + m <= Len(data)}}
    BY <1>13, <2>2, Zenon
  <2>4. {m \in PyInt(num) : stop + m <= Len(data)} = {n}
    BY <1>15, <2>1
  <2>5. ParseBytes(data, i) =
           {Parsed([bytes |-> SubSeq(data, stop + 1, stop + k)], stop + k + 1) : k \in {n}}
    BY <1>2, <2>3, <2>4, Zenon
  <2>6. ParseBytes(data, i) = {Parsed([bytes |-> SubSeq(data, stop + 1, stop + n)], stop + n + 1)}
    BY <2>5
  <2> QED
    BY <1>15, <2>6
<1>17. Parser(data)[i]["value"] = ParseBytes(data, i)
  <2>1. Parser(data)[i]["value"] = ParseValue(data, Parser(data), i)
    BY <1>7, ParserFacts
  <2> QED
    BY <1>12, <2>1, ParseValueAt
<1>18. i + Len((num \o colon) \o s) = stop + n + 1
  BY <1>0, <1>2, <1>4, <1>8, <1>9, <1>10, <1>11
<1> QED
  BY <1>16, <1>17, <1>18

-----------------------------------------------------------------------------
(* The loops of _parse_list and _parse_dictionary read all of the items.   *)
ReadsRest(c, s) ==
    \A data \in Texts : \A i \in 1..(Len(data) + 1) :
        At(data, i, c) => Parser(data)[i]["list"] = {Parsed(s, i + Len(c))}

(* The same for the loop of _parse_dictionary.                             *)
ReadsRestOfItems(c, s) ==
    \A data \in Texts : \A i \in 1..(Len(data) + 1) :
        At(data, i, c) => Parser(data)[i]["dict"] = {Parsed(s, i + Len(c))}

(* Where the end mark stands, the empty rest of a group is read.           *)
LEMMA EndReadsBack ==
    ReadsRest(<<"e">>, <<>>) /\ ReadsRestOfItems(<<"e">>, <<>>)
<1>0. PICK end \in Texts : end = <<"e">>
  <2>1. <<"e">> \in Texts
    BY SymbolTexts
  <2> QED
    BY <2>1
<1>1. end = <<"e">> /\ Len(end) = 1 /\ end[1] = "e"
  BY <1>0
<1>2. ASSUME NEW data \in Texts, NEW i \in 1..(Len(data) + 1), At(data, i, end)
      PROVE  /\ Parser(data)[i]["list"] = {Parsed(<<>>, i + 1)}
             /\ Parser(data)[i]["dict"] = {Parsed(<<>>, i + 1)}
  <2>1. Len(data) \in Nat /\ i \in Nat
    BY DEF Texts
  <2>2. data[i] = "e" /\ ~(i > Len(data))
    BY <1>1, <1>2, <2>1, AtFirst
  <2>3. /\ Parser(data)[i]["list"] = ParseList(data, Parser(data), i)
        /\ Parser(data)[i]["dict"] = ParseDictionary(data, Parser(data), i)
    BY ParserFacts DEF Texts
  <2> QED
    BY <2>2, <2>3, ListParsed, DictionaryParsed
<1> QED
  BY <1>1, <1>2 DEF ReadsRest, ReadsRestOfItems

(* One more value in front of a list.                                      *)
LEMMA ListGrows ==
    ASSUME NEW c \in Texts, NEW v, IsReadAs(c, v), NEW t \in Texts, NEW s, ReadsRest(t, s)
    PROVE  c \o t \in Texts /\ ReadsRest(c \o t, Prepend(v, s))
<1>1. PICK S : S = Range(Symbols)
  OBVIOUS
<1>2. c \in Seq(S) /\ t \in Seq(S) /\ c \o t \in Seq(S)
  BY <1>1, ConcatFacts DEF Texts
<1> SUFFICES ASSUME NEW data \in Texts, NEW i \in 1..(Len(data) + 1), At(data, i, c \o t)
             PROVE  Parser(data)[i]["list"] = {Parsed(Prepend(v, s), i + Len(c \o t))}
  BY <1>1, <1>2 DEF ReadsRest, Texts
<1>3. data \in Seq(S) /\ Len(data) \in Nat /\ i \in Nat
  BY <1>1 DEF Texts
<1>4. /\ Len(c \o t) = Len(c) + Len(t) /\ At(data, i, c) /\ At(data, i + Len(c), t)
  BY <1>2, <1>3, AtSplits
<1>5. PICK j \in 1..(Len(data) + 1) : j = i + Len(c)
  <2>1. i + Len(c) \in 1..(Len(data) + 1)
    BY <1>2, <1>3, <1>4 DEF At
  <2> QED
    BY <2>1
<1>6. Parser(data)[i]["value"] = {Parsed(v, j)}
  BY <1>4, <1>5 DEF IsReadAs
<1>7. PICK next : next = j + Len(t) /\ next = i + Len(c \o t)
  BY <1>2, <1>3, <1>4, <1>5
<1>8. Parser(data)[j]["list"] = {Parsed(s, next)}
  BY <1>4, <1>5, <1>7 DEF ReadsRest
<1>9. PICK g : g = Parser(data)
  OBVIOUS
<1>10. /\ g[i]["value"] = ParseValue(data, g, i) /\ g[i]["list"] = ParseList(data, g, i)
  BY <1>3, <1>9, ParserFacts
<1>11. ParseValue(data, g, i) = {Parsed(v, j)} /\ g[j]["list"] = {Parsed(s, next)}
  BY <1>6, <1>8, <1>9, <1>10
<1>12. ~(i > Len(data)) /\ data[i] # "e"
  <2>1. ParseValue(data, g, i) # {}
    BY <1>11
  <2>2. "e" \notin {"i", "l", "d"} \cup Ten
    BY DEF Ten
  <2> QED
    BY <2>1, <2>2, ParseValueAt
<1>13. \A x : x \in ParseList(data, g, i) <=>
                \E item \in {Parsed(v, j)} : \E rest \in g[item.next]["list"] :
                   x = Parsed(<<item.value>> \o rest.value, rest.next)
  <2>1. data[i] # "e" => \A x :
           x \in ParseList(data, g, i) <=>
              \E item \in ParseValue(data, g, i) : \E rest \in g[item.next]["list"] :
                 x = Parsed(<<item.value>> \o rest.value, rest.next)
    BY <1>12, ListParsed
  <2> QED
    BY <1>11, <1>12, <2>1, Zenon
<1>14. \A x : x \in ParseList(data, g, i) <=> x = Parsed(Prepend(v, s), next)
  <2>1. PICK a, b : a = Parsed(v, j) /\ b = Parsed(s, next)
    OBVIOUS
  <2>2. a.value = v /\ a.next = j /\ b.value = s /\ b.next = next
    BY <2>1, ParsedFacts
  <2>3. \A x : x \in ParseList(data, g, i) <=>
                  \E rest \in g[j]["list"] : x = Parsed(<<v>> \o rest.value, rest.next)
    BY <1>13, <2>1, <2>2
  <2>4. \A x : x \in ParseList(data, g, i) <=> x = Parsed(<<v>> \o s, next)
    BY <1>11, <2>1, <2>2, <2>3
  <2> QED
    BY <2>4 DEF Prepend
<1>15. ParseList(data, g, i) = {Parsed(Prepend(v, s), next)}
  BY <1>14
<1> QED
  BY <1>7, <1>9, <1>10, <1>15

(* One more item in front of a dictionary, whose key comes before the      *)
(* others.                                                                 *)
LEMMA ItemsGrow ==
    ASSUME NEW key \in Texts, NEW c \in Texts, NEW v, IsReadAs(c, v), NEW t \in Texts, NEW s,
           ReadsRestOfItems(t, s), Precedes(key, s)
    PROVE  /\ (EncodeBytes(key) \o c) \o t \in Texts
           /\ ReadsRestOfItems((EncodeBytes(key) \o c) \o t, Prepend([key |-> key, value |-> v], s))
<1>0. PICK b \in Texts : b = EncodeBytes(key) /\ IsReadAs(b, [bytes |-> key])
  BY BytesReadBack
<1>1. PICK S : S = Range(Symbols)
  OBVIOUS
<1>2. b \in Seq(S) /\ c \in Seq(S) /\ t \in Seq(S) /\ b \o c \in Seq(S) /\ (b \o c) \o t \in Seq(S)
  BY <1>1, ConcatFacts DEF Texts
<1>3. PICK all \in Texts : all = (b \o c) \o t
  BY <1>1, <1>2 DEF Texts
<1> SUFFICES ASSUME NEW data \in Texts, NEW i \in 1..(Len(data) + 1), At(data, i, (b \o c) \o t)
             PROVE  Parser(data)[i]["dict"] =
                       {Parsed(Prepend([key |-> key, value |-> v], s), i + Len((b \o c) \o t))}
  BY <1>0, <1>3 DEF ReadsRestOfItems
<1>4. data \in Seq(S) /\ Len(data) \in Nat /\ i \in Nat
  BY <1>1 DEF Texts
<1>5. /\ Len((b \o c) \o t) = Len(b \o c) + Len(t)
      /\ At(data, i, b \o c) /\ At(data, i + Len(b \o c), t)
  BY <1>2, <1>4, AtSplits
<1>6. /\ Len(b \o c) = Len(b) + Len(c) /\ At(data, i, b) /\ At(data, i + Len(b), c)
  BY <1>2, <1>4, <1>5, AtSplits
<1>7. PICK j \in 1..(Len(data) + 1), k \in 1..(Len(data) + 1) :
         j = i + Len(b) /\ k = j + Len(c) /\ k = i + Len(b \o c)
  <2>1. i + Len(b) \in 1..(Len(data) + 1) /\ (i + Len(b)) + Len(c) \in 1..(Len(data) + 1)
        /\ (i + Len(b)) + Len(c) = i + Len(b \o c)
    BY <1>2, <1>4, <1>5, <1>6 DEF At
  <2> QED
    BY <2>1
<1>8. PICK next : next = k + Len(t) /\ next = i + Len((b \o c) \o t)
  BY <1>2, <1>4, <1>5, <1>6, <1>7
<1>9. PICK g : g = Parser(data)
  OBVIOUS
<1>10. /\ g[i]["value"] = ParseValue(data, g, i) /\ g[i]["dict"] = ParseDictionary(data, g, i)
  BY <1>4, <1>9, ParserFacts
<1>11. /\ ParseValue(data, g, i) = {Parsed([bytes |-> key], j)}
       /\ g[j]["value"] = {Parsed(v, k)}
       /\ g[k]["dict"] = {Parsed(s, next)}
  <2>1. g[i]["value"] = {Parsed([bytes |-> key], j)}
    BY <1>0, <1>6, <1>7, <1>9 DEF IsReadAs
  <2>2. g[j]["value"] = {Parsed(v, k)}
    BY <1>6, <1>7, <1>9 DEF IsReadAs
  <2>3. g[k]["dict"] = {Parsed(s, next)}
    BY <1>5, <1>7, <1>8, <1>9 DEF ReadsRestOfItems
  <2> QED
    BY <1>10, <2>1, <2>2, <2>3
<1>12. ~(i > Len(data)) /\ data[i] # "e"
  <2>1. ParseValue(data, g, i) # {}
    BY <1>11
  <2>2. "e" \notin {"i", "l", "d"} \cup Ten
    BY DEF Ten
  <2> QED
    BY <2>1, <2>2, ParseValueAt
<1>13. \A x : x \in ParseDictionary(data, g, i) <=> StartsWithItem(data, g, i, x)
  BY <1>12, DictionaryParsed
<1>14. \A x : StartsWithItem(data, g, i, x) <=> x = Parsed(Prepend([key |-> key, value |-> v], s), next)
  <2>1. PICK p, q, r : p = Parsed([bytes |-> key], j) /\ q = Parsed(v, k) /\ r = Parsed(s, next)
    OBVIOUS
  <2>2. /\ p.value = [bytes |-> key] /\ p.next = j /\ q.value = v /\ q.next = k
        /\ r.value = s /\ r.next = next
    BY <2>1, ParsedFacts
  <2>3. "bytes" \in DOMAIN p.value /\ p.value.bytes = key
    BY <2>2
  <2>4. \A x : StartsWithItem(data, g, i, x) <=>
           \E rest \in g[k]["dict"] :
              /\ Precedes(key, rest.value)
              /\ x = Parsed(<<[key |-> key, value |-> v]>> \o rest.value, rest.next)
    <3> TAKE x
    <3>1. StartsWithItem(data, g, i, x) <=>
             \E u \in {p} :
                 /\ "bytes" \in DOMAIN u.value
                 /\ \E item \in g[u.next]["value"] : \E rest \in g[item.next]["dict"] :
                       /\ Precedes(u.value.bytes, rest.value)
                       /\ x = Parsed(<<[key |-> u.value.bytes, value |-> item.value]>>
                                        \o rest.value, rest.next)
      BY <1>11, <2>1, Zenon DEF StartsWithItem
    <3>2. StartsWithItem(data, g, i, x) <=>
             \E item \in {q} : \E rest \in g[item.next]["dict"] :
                       /\ Precedes(key, rest.value)
                       /\ x = Parsed(<<[key |-> key, value |-> item.value]>>
                                        \o rest.value, rest.next)
      BY <1>11, <2>1, <2>2, <2>3, <3>1
    <3> QED
      BY <2>2, <3>2
  <2>5. \A x : StartsWithItem(data, g, i, x) <=>
           x = Parsed(<<[key |-> key, value |-> v]>> \o s, next)
    BY <1>11, <2>1, <2>2, <2>4
  <2> QED
    BY <2>5 DEF Prepend
<1>15. ParseDictionary(data, g, i) = {Parsed(Prepend([key |-> key, value |-> v], s), next)}
  BY <1>13, <1>14
<1> QED
  BY <1>0, <1>3, <1>8, <1>9, <1>10, <1>15

(* A list or a dictionary is read as such when its inside is.              *)
LEMMA GroupReadsBack ==
    ASSUME NEW t \in Texts, NEW s
    PROVE  /\ <<"l">> \o t \in Texts /\ <<"d">> \o t \in Texts
           /\ ReadsRest(t, s) => IsReadAs(<<"l">> \o t, [list |-> s])
           /\ ReadsRestOfItems(t, s) => IsReadAs(<<"d">> \o t, [dict |-> Range(s)])
<1>1. PICK S : S = Range(Symbols)
  OBVIOUS
<1>2. PICK one \in Texts, two \in Texts : one = <<"l">> /\ two = <<"d">>
  <2>1. <<"l">> \in Texts /\ <<"d">> \in Texts
    BY SymbolTexts
  <2> QED
    BY <2>1
<1>3. one \in Seq(S) /\ two \in Seq(S) /\ t \in Seq(S) /\ one \o t \in Seq(S) /\ two \o t \in Seq(S)
  BY <1>1, ConcatFacts DEF Texts
<1>4. Len(one) = 1 /\ one[1] = "l" /\ Len(two) = 1 /\ two[1] = "d"
  BY <1>2
<1>5. ASSUME NEW data \in Texts, NEW i \in 1..(Len(data) + 1), NEW c \in {one, two}, At(data, i, c \o t)
      PROVE  /\ ~(i > Len(data)) /\ data[i] = c[1] /\ i + 1 \in 1..(Len(data) + 1)
             /\ At(data, i + 1, t) /\ i + Len(c \o t) = (i + 1) + Len(t)
  <2>1. data \in Seq(S) /\ Len(data) \in Nat /\ i \in Nat /\ c \in Seq(S) /\ Len(c) = 1
    BY <1>1, <1>3, <1>4 DEF Texts
  <2>2. /\ Len(c \o t) = Len(c) + Len(t) /\ At(data, i, c) /\ At(data, i + Len(c), t)
    BY <1>3, <1>5, <2>1, AtSplits
  <2>3. data[i] = c[1] /\ i <= Len(data)
    BY <2>1, <2>2, AtFirst
  <2> QED
    BY <1>3, <2>1, <2>2, <2>3
<1>6. ASSUME ReadsRest(t, s), NEW data \in Texts, NEW i \in 1..(Len(data) + 1), At(data, i, one \o t)
      PROVE  Parser(data)[i]["value"] = {Parsed([list |-> s], i + Len(one \o t))}
  <2>1. /\ ~(i > Len(data)) /\ data[i] = "l" /\ i + 1 \in 1..(Len(data) + 1)
        /\ At(data, i + 1, t) /\ i + Len(one \o t) = (i + 1) + Len(t)
    BY <1>4, <1>5, <1>6
  <2>2. PICK r : r = Parsed(s, (i + 1) + Len(t))
    OBVIOUS
  <2>3. Parser(data)[i + 1]["list"] = {r}
    BY <1>6, <2>1, <2>2 DEF ReadsRest
  <2>4. Parser(data)[i]["value"] = ParseValue(data, Parser(data), i)
    BY ParserFacts DEF Texts
  <2>5. ParseValue(data, Parser(data), i) =
           {Parsed([list |-> rest.value], rest.next) : rest \in {r}}
    BY <2>1, <2>3, ParseValueAt
  <2>6. r.value = s /\ r.next = (i + 1) + Len(t)
    BY <2>2, ParsedFacts
  <2> QED
    BY <2>1, <2>4, <2>5, <2>6
<1>7. ASSUME ReadsRestOfItems(t, s), NEW data \in Texts, NEW i \in 1..(Len(data) + 1), At(data, i, two \o t)
      PROVE  Parser(data)[i]["value"] = {Parsed([dict |-> Range(s)], i + Len(two \o t))}
  <2>1. /\ ~(i > Len(data)) /\ data[i] = "d" /\ i + 1 \in 1..(Len(data) + 1)
        /\ At(data, i + 1, t) /\ i + Len(two \o t) = (i + 1) + Len(t)
    BY <1>4, <1>5, <1>7
  <2>2. PICK r : r = Parsed(s, (i + 1) + Len(t))
    OBVIOUS
  <2>3. Parser(data)[i + 1]["dict"] = {r}
    BY <1>7, <2>1, <2>2 DEF ReadsRestOfItems
  <2>4. Parser(data)[i]["value"] = ParseValue(data, Parser(data), i)
    BY ParserFacts DEF Texts
  <2>5. ParseValue(data, Parser(data), i) =
           {Parsed([dict |-> Range(rest.value)], rest.next) : rest \in {r}}
    BY <2>1, <2>3, ParseValueAt
  <2>6. r.value = s /\ r.next = (i + 1) + Len(t)
    BY <2>2, ParsedFacts
  <2> QED
    BY <2>1, <2>4, <2>5, <2>6
<1>8. one \o t \in Texts /\ two \o t \in Texts
  BY <1>1, <1>3 DEF Texts
<1>9. ReadsRest(t, s) => IsReadAs(one \o t, [list |-> s])
  BY <1>6 DEF IsReadAs
<1>10. ReadsRestOfItems(t, s) => IsReadAs(two \o t, [dict |-> Range(s)])
  BY <1>7 DEF IsReadAs
<1> QED
  BY <1>2, <1>8, <1>9, <1>10

-----------------------------------------------------------------------------
(* The text of a value is read back as that value.                         *)
RoundTrips(depth, d, v) ==
    /\ v \in Values(depth)[d] /\ Codes(depth)[d][v] \in Texts
    /\ IsReadAs(Codes(depth)[d][v], v)

(* The encoding of a list after its marker.                                *)
ListText(depth, d, s) == FlattenSeq(ListCode(Codes(depth)[d], s)) \o <<"e">>

(* The encoding of a dictionary after its marker.                          *)
ItemsText(depth, d, s) == FlattenSeq(ItemsCode(Codes(depth)[d], s)) \o <<"e">>

(* The values of s, up to the end of a list, are read back.                *)
ListRoundTrips(depth, d, s) ==
    /\ s \in Seq(Values(depth)[d]) /\ ListCode(Codes(depth)[d], s) \in Seq(Texts)
    /\ ListText(depth, d, s) \in Texts /\ ReadsRest(ListText(depth, d, s), s)

(* The items of s, up to the end of a dictionary, are sorted and read      *)
(* back.                                                                   *)
ItemsRoundTrip(depth, d, s) ==
    /\ s \in Seq(ItemsOf(Values(depth)[d])) /\ Keyed(s)
    /\ ItemsCode(Codes(depth)[d], s) \in Seq(Texts)
    /\ ItemsText(depth, d, s) \in Texts /\ ReadsRestOfItems(ItemsText(depth, d, s), s)

(* The values of depth d and their encodings, from those one level down.   *)
DepthFacts(depth, d, inner, code) ==
    /\ Values(depth)[d] = ValuesWith(inner)
    /\ \A v \in Values(depth)[d] : Codes(depth)[d][v] = EncodeWith(code, v)
    /\ d > 0 => inner = Values(depth)[d - 1] /\ code = Codes(depth)[d - 1]

(* The values of a depth and their codes, by those one level less deep.    *)
LEMMA ValueAtDepth ==
    ASSUME NEW depth \in Nat, NEW d \in 0..depth
    PROVE  \E inner, code : DepthFacts(depth, d, inner, code)
<1>1. CASE d = 0
  <2>1. DepthFacts(depth, d, {}, <<>>)
    <3>1. Values(depth)[d] = ValuesWith({})
      BY <1>1, ValuesSteps
    <3>2. \A v \in Values(depth)[d] : Codes(depth)[d][v] = EncodeWith(<<>>, v)
      BY <1>1, CodesSteps
    <3> QED
      BY <1>1, <3>1, <3>2 DEF DepthFacts
  <2> QED
    BY <2>1
<1>2. CASE d # 0
  <2>1. d \in 1..depth
    BY <1>2
  <2>2. DepthFacts(depth, d, Values(depth)[d - 1], Codes(depth)[d - 1])
    BY <2>1, ValuesSteps, CodesSteps DEF DepthFacts
  <2> QED
    BY <2>2
<1> QED
  BY <1>1, <1>2

(* Numbers and byte strings are values of every depth, and have the same   *)
(* code there.                                                             *)
LEMMA LeafTexts ==
    ASSUME NEW depth \in Nat, NEW d \in 0..depth
    PROVE  /\ \A n \in Nat : /\ [int |-> n] \in Values(depth)[d]
                             /\ Codes(depth)[d][[int |-> n]] = IntText(n)
           /\ \A s \in Texts : /\ [bytes |-> s] \in Values(depth)[d]
                               /\ Codes(depth)[d][[bytes |-> s]] = EncodeBytes(s)
<1>0. PICK inner, code : DepthFacts(depth, d, inner, code)
  BY ValueAtDepth
<1>1. /\ Values(depth)[d] = ValuesWith(inner)
      /\ \A v \in Values(depth)[d] : Codes(depth)[d][v] = EncodeWith(code, v)
  BY <1>0 DEF DepthFacts
<1>2. ASSUME NEW n \in Nat
      PROVE  /\ [int |-> n] \in Values(depth)[d]
             /\ Codes(depth)[d][[int |-> n]] = IntText(n)
  <2>1. PICK v : v = [int |-> n]
    OBVIOUS
  <2>2. v \in Values(depth)[d]
    <3>1. n \in Int
      OBVIOUS
    <3>2. [int |-> n] \in ValuesWith(inner)
      BY <3>1, ValuesWithFacts
    <3> QED
      BY <1>1, <2>1, <3>2
  <2>3. Codes(depth)[d][v] = IntText(n)
    <3>1. EncodeWith(code, v) = <<"i">> \o Signed(n) \o <<"e">>
      BY <2>1, EncodeWithFacts
    <3>2. Signed(n) = Decimal(n)
      BY DEF Signed
    <3> QED
      BY <1>1, <2>2, <3>1, <3>2 DEF IntText
  <2> QED
    BY <2>1, <2>2, <2>3
<1>3. ASSUME NEW s \in Texts
      PROVE  /\ [bytes |-> s] \in Values(depth)[d]
             /\ Codes(depth)[d][[bytes |-> s]] = EncodeBytes(s)
  <2>1. PICK v : v = [bytes |-> s]
    OBVIOUS
  <2>2. v \in Values(depth)[d]
    BY <1>1, <2>1, ValuesWithFacts
  <2>3. Codes(depth)[d][v] = EncodeBytes(s)
    BY <1>1, <2>1, <2>2, EncodeWithFacts
  <2> QED
    BY <2>1, <2>2, <2>3
<1> QED
  BY <1>2, <1>3

(* Numbers and bytes are read back at any depth.                           *)
LEMMA LeavesRoundTrip ==
    ASSUME NEW depth \in Nat, NEW d \in 0..depth
    PROVE  /\ \A n \in Nat : RoundTrips(depth, d, [int |-> n])
           /\ \A s \in Texts : RoundTrips(depth, d, [bytes |-> s])
BY LeafTexts, IntegerReadsBack, BytesReadBack DEF RoundTrips

(* Two texts one after the other are a text.                               *)
LEMMA TextJoins ==
    ASSUME NEW a \in Texts, NEW b \in Texts
    PROVE  a \o b \in Texts
<1>1. PICK S : S = Range(Symbols)
  OBVIOUS
<1> QED
  BY <1>1, ConcatFacts DEF Texts

(* Three texts one after the other, in either grouping.                    *)
LEMMA TextConcat ==
    ASSUME NEW a \in Texts, NEW b \in Texts, NEW c \in Texts
    PROVE  (a \o b) \o c = a \o (b \o c)
<1>1. PICK S : S = Range(Symbols)
  OBVIOUS
<1>2. a \in Seq(S) /\ b \in Seq(S) /\ c \in Seq(S)
  BY <1>1 DEF Texts
<1> QED
  BY ONLY <1>2, ConcatAssociates

(* An empty list and an empty dictionary are read back.                    *)
LEMMA EmptyRoundTrips ==
    ASSUME NEW depth, NEW d
    PROVE  /\ ListRoundTrips(depth, d, <<>>) /\ ItemsRoundTrip(depth, d, <<>>)
           /\ ItemsText(depth, d, <<>>) = <<"e">>
<1>1. PICK end \in Texts, none \in Texts : end = <<"e">> /\ none = <<>>
  <2>1. <<"e">> \in Texts /\ <<>> \in Texts
    BY SymbolTexts DEF Texts
  <2> QED
    BY <2>1
<1>2. \A code : ListCode(code, <<>>) = <<>> /\ ItemsCode(code, <<>>) = <<>>
  <2> TAKE code
  <2>1. Len(<<>>) = 0
    OBVIOUS
  <2>2. ListCode(code, <<>>) = [k \in 1..0 |-> code[<<>>[k]]]
    BY <2>1 DEF ListCode
  <2>3. ItemsCode(code, <<>>) = [k \in 1..0 |-> EncodeItem(code, <<>>[k])]
    BY <2>1 DEF ItemsCode
  <2> HIDE DEF ListCode, ItemsCode
  <2>4. [k \in 1..0 |-> code[<<>>[k]]] = <<>> /\ [k \in 1..0 |-> EncodeItem(code, <<>>[k])] = <<>>
    OBVIOUS
  <2> QED
    BY <2>2, <2>3, <2>4
<1>3. FlattenSeq(<<>>) \o <<"e">> = end
  <2>1. FlattenSeq(<<>>) = none
    BY <1>1, FlattenOne DEF Texts
  <2>2. none \o end = end
    BY <1>1, ConcatEmpty DEF Texts
  <2> QED
    BY <1>1, <2>1, <2>2
<1>4. ListText(depth, d, <<>>) = end /\ ItemsText(depth, d, <<>>) = end
  BY <1>2, <1>3 DEF ListText, ItemsText
<1>5. Keyed(<<>>)
  BY DEF Keyed, Sorted
<1>6. \A T : <<>> \in Seq(T)
  OBVIOUS
<1> QED
  BY <1>1, <1>2, <1>4, <1>5, <1>6, EndReadsBack DEF ListRoundTrips, ItemsRoundTrip

(* A list with one value more is read back if the value and the shorter    *)
(* list are.                                                               *)
LEMMA LongerListRoundTrips ==
    ASSUME NEW depth, NEW d, NEW v, RoundTrips(depth, d, v), NEW s, ListRoundTrips(depth, d, s)
    PROVE  ListRoundTrips(depth, d, Prepend(v, s))
<1>1. PICK code, values : code = Codes(depth)[d] /\ values = Values(depth)[d]
  OBVIOUS
<1>2. v \in values /\ s \in Seq(values)
  BY <1>1 DEF RoundTrips, ListRoundTrips
<1>3. PICK S : S = Range(Symbols)
  OBVIOUS
<1>4. PICK c \in Texts : c = code[v] /\ IsReadAs(c, v)
  BY <1>1 DEF RoundTrips
<1>5. ListCode(code, s) \in Seq(Seq(S)) /\ code[v] \in Seq(S)
  BY <1>1, <1>3, <1>4 DEF ListRoundTrips, Texts
<1>6. /\ Prepend(v, s) \in Seq(values)
      /\ ListCode(code, Prepend(v, s)) \in Seq(Seq(S))
      /\ FlattenSeq(ListCode(code, Prepend(v, s))) = code[v] \o FlattenSeq(ListCode(code, s))
  BY ONLY <1>2, <1>5, ListCons
<1>7. PICK inner \in Texts : inner = FlattenSeq(ListCode(code, s))
  BY <1>3, <1>5, FlattenFacts DEF Texts
<1>8. PICK end \in Texts : end = <<"e">>
  BY SymbolTexts
<1>9. PICK t \in Texts : t = inner \o end /\ ReadsRest(t, s)
  BY <1>1, <1>7, <1>8 DEF ListRoundTrips, ListText
<1>10. ListText(depth, d, Prepend(v, s)) = c \o t
  <2>1. (c \o inner) \o end = c \o (inner \o end)
    BY TextConcat
  <2>2. ListText(depth, d, Prepend(v, s)) = FlattenSeq(ListCode(code, Prepend(v, s))) \o end
    BY <1>1, <1>8 DEF ListText
  <2>3. FlattenSeq(ListCode(code, Prepend(v, s))) = c \o inner
    BY <1>4, <1>6, <1>7
  <2> QED
    BY <1>9, <2>1, <2>2, <2>3
<1>11. c \o t \in Texts /\ ReadsRest(c \o t, Prepend(v, s))
  BY <1>4, <1>9, ListGrows
<1>12. ListCode(Codes(depth)[d], Prepend(v, s)) \in Seq(Texts)
  BY <1>1, <1>3, <1>6 DEF Texts
<1> QED
  BY <1>1, <1>6, <1>10, <1>11, <1>12 DEF ListRoundTrips

(* The encoding of the longer dictionary is the new item's and the old     *)
(* one's.                                                                  *)
TextGrows(depth, d, key, v, s, longer) ==
    ItemsText(depth, d, longer) = (EncodeBytes(key) \o Codes(depth)[d][v]) \o ItemsText(depth, d, s)

(* One more item, with an earlier key than the others.                     *)
LEMMA MoreItems ==
    ASSUME NEW depth, NEW d, NEW key \in Texts, NEW v, RoundTrips(depth, d, v),
           NEW s, ItemsRoundTrip(depth, d, s), Precedes(key, s)
    PROVE  /\ ItemsRoundTrip(depth, d, Prepend([key |-> key, value |-> v], s))
           /\ TextGrows(depth, d, key, v, s, Prepend([key |-> key, value |-> v], s))
<1>1. PICK code, values : code = Codes(depth)[d] /\ values = Values(depth)[d]
  OBVIOUS
<1>2. v \in values /\ s \in Seq(ItemsOf(values)) /\ Keyed(s)
  BY <1>1 DEF RoundTrips, ItemsRoundTrip
<1>3. PICK S : S = Range(Symbols)
  OBVIOUS
<1>4. PICK item \in ItemsOf(values) :
         item = [key |-> key, value |-> v] /\ item.key = key /\ item.value = v
  <2>1. [key |-> key, value |-> v] \in ItemsOf(values)
    BY <1>2 DEF ItemsOf
  <2> QED
    BY <2>1
<1>5. PICK c \in Texts, b \in Texts : c = code[v] /\ IsReadAs(c, v) /\ b = EncodeBytes(key)
  BY <1>1, BytesReadBack DEF RoundTrips
<1>6. b \o c = EncodeItem(code, item)
  BY <1>4, <1>5 DEF EncodeItem
<1>7. ItemsCode(code, s) \in Seq(Seq(S)) /\ EncodeItem(code, item) \in Seq(S)
  <2>1. EncodeItem(code, item) \in Texts
    BY <1>6, TextJoins
  <2>2. ItemsCode(code, s) \in Seq(Texts)
    BY <1>1 DEF ItemsRoundTrip
  <2> QED
    BY <1>3, <2>1, <2>2 DEF Texts
<1>8. PICK T : T = ItemsOf(values)
  OBVIOUS
<1>9. item \in T /\ s \in Seq(T)
  BY <1>2, <1>8
<1>10. /\ Prepend(item, s) \in Seq(T)
       /\ ItemsCode(code, Prepend(item, s)) \in Seq(Seq(S))
       /\ FlattenSeq(ItemsCode(code, Prepend(item, s))) =
             EncodeItem(code, item) \o FlattenSeq(ItemsCode(code, s))
  BY ONLY <1>7, <1>9, ItemsCons
<1>11. PICK inner \in Texts : inner = FlattenSeq(ItemsCode(code, s))
  BY <1>3, <1>7, FlattenFacts DEF Texts
<1>12. PICK end \in Texts : end = <<"e">>
  BY SymbolTexts
<1>13. PICK t \in Texts : t = inner \o end /\ ReadsRestOfItems(t, s)
  BY <1>1, <1>11, <1>12 DEF ItemsRoundTrip, ItemsText
<1>14. ItemsText(depth, d, Prepend(item, s)) = (b \o c) \o t
  <2>1. b \o c \in Texts
    BY TextJoins
  <2>2. ((b \o c) \o inner) \o end = (b \o c) \o (inner \o end)
    BY <2>1, TextConcat
  <2>3. ItemsText(depth, d, Prepend(item, s)) = FlattenSeq(ItemsCode(code, Prepend(item, s))) \o end
    BY <1>1, <1>12 DEF ItemsText
  <2>4. FlattenSeq(ItemsCode(code, Prepend(item, s))) = (b \o c) \o inner
    BY <1>6, <1>10, <1>11
  <2> QED
    BY <1>13, <2>2, <2>3, <2>4
<1>15. (b \o c) \o t \in Texts /\ ReadsRestOfItems((b \o c) \o t, Prepend(item, s))
  BY <1>4, <1>5, <1>13, ItemsGrow
<1>16. ItemsCode(Codes(depth)[d], Prepend(item, s)) \in Seq(Texts)
  BY <1>1, <1>3, <1>10 DEF Texts
<1>17. Keyed(Prepend(item, s))
  BY <1>2, <1>4, KeyedCons
<1>18. t = ItemsText(depth, d, s)
  BY <1>1, <1>11, <1>12, <1>13 DEF ItemsText
<1>19. ItemsRoundTrip(depth, d, Prepend(item, s))
  BY <1>1, <1>8, <1>10, <1>14, <1>15, <1>16, <1>17 DEF ItemsRoundTrip
<1>20. TextGrows(depth, d, key, v, s, Prepend(item, s))
  BY <1>1, <1>5, <1>14, <1>18 DEF TextGrows
<1> QED
  BY <1>4, <1>19, <1>20

(* Lists and dictionaries are read back, one level up from what is inside. *)
LEMMA Groups ==
    ASSUME NEW depth \in Nat, NEW d \in 1..depth, NEW s
    PROVE  /\ ListRoundTrips(depth, d - 1, s) => RoundTrips(depth, d, [list |-> s])
           /\ ItemsRoundTrip(depth, d - 1, s) =>
                 /\ RoundTrips(depth, d, [dict |-> Range(s)])
                 /\ Codes(depth)[d][[dict |-> Range(s)]] = <<"d">> \o ItemsText(depth, d - 1, s)
<1>0. PICK inner, code : DepthFacts(depth, d, inner, code)
  BY ValueAtDepth
<1>1. /\ Values(depth)[d] = ValuesWith(inner)
      /\ \A v \in Values(depth)[d] : Codes(depth)[d][v] = EncodeWith(code, v)
      /\ inner = Values(depth)[d - 1] /\ code = Codes(depth)[d - 1]
  BY <1>0 DEF DepthFacts
<1>2. PICK end \in Texts, one \in Texts, two \in Texts : end = <<"e">> /\ one = <<"l">> /\ two = <<"d">>
  BY SymbolTexts
<1>3. PICK S : S = Range(Symbols)
  OBVIOUS
<1>4. ASSUME ListRoundTrips(depth, d - 1, s)
      PROVE  RoundTrips(depth, d, [list |-> s])
  <2>1. PICK v : v = [list |-> s]
    OBVIOUS
  <2>2. v \in Values(depth)[d]
    BY <1>1, <1>4, <2>1, ValuesWithFacts DEF ListRoundTrips
  <2>3. PICK t \in Texts : t = FlattenSeq(ListCode(code, s)) \o end /\ ReadsRest(t, s)
    BY <1>1, <1>2, <1>4 DEF ListRoundTrips, ListText
  <2>4. PICK body \in Texts : body = FlattenSeq(ListCode(code, s))
    <3>1. ListCode(code, s) \in Seq(Seq(S))
      BY <1>1, <1>3, <1>4 DEF ListRoundTrips, Texts
    <3> QED
      BY <1>3, <3>1, FlattenFacts DEF Texts
  <2>5. Codes(depth)[d][v] = (one \o body) \o end
    <3>1. EncodeWith(code, v) =
             <<"l">> \o FlattenSeq([i \in 1..Len(s) |-> code[s[i]]]) \o <<"e">>
      BY <2>1, EncodeWithFacts
    <3>2. EncodeWith(code, v) = (one \o FlattenSeq(ListCode(code, s))) \o end
      BY <1>2, <3>1 DEF ListCode
    <3> QED
      BY <1>1, <2>2, <2>4, <3>2
  <2>6. (one \o body) \o end = one \o t
    <3>1. (one \o body) \o end = one \o (body \o end)
      BY TextConcat
    <3> QED
      BY <2>3, <2>4, <3>1
  <2>7. one \o t \in Texts /\ IsReadAs(one \o t, [list |-> s])
    BY <1>2, <2>3, GroupReadsBack
  <2> QED
    BY <2>1, <2>2, <2>5, <2>6, <2>7 DEF RoundTrips
<1>5. ASSUME ItemsRoundTrip(depth, d - 1, s)
      PROVE  /\ RoundTrips(depth, d, [dict |-> Range(s)])
             /\ Codes(depth)[d][[dict |-> Range(s)]] = <<"d">> \o ItemsText(depth, d - 1, s)
  <2>0. PICK items : items = Range(s)
    OBVIOUS
  <2>1. PICK v : v = [dict |-> items]
    OBVIOUS
  <2>2. v \in Values(depth)[d]
    <3>1. items \in SUBSET [key : Texts, value : inner]
      <4>1. PICK T : T = [key : Texts, value : inner]
        OBVIOUS
      <4>2. s \in Seq(T)
        BY <1>1, <1>5, <4>1 DEF ItemsRoundTrip, ItemsOf
      <4>3. items \subseteq T
        BY <2>0, <4>2 DEF Range
      <4> QED
        BY <4>1, <4>3
    <3> QED
      BY <1>1, <2>1, <3>1, ValuesWithFacts
  <2>3. PICK t \in Texts : t = FlattenSeq(ItemsCode(code, s)) \o end /\ ReadsRestOfItems(t, s)
    BY <1>1, <1>2, <1>5 DEF ItemsRoundTrip, ItemsText
  <2>4. PICK body \in Texts : body = FlattenSeq(ItemsCode(code, s))
    <3>1. ItemsCode(code, s) \in Seq(Seq(S))
      BY <1>1, <1>3, <1>5 DEF ItemsRoundTrip, Texts
    <3> QED
      BY <1>3, <3>1, FlattenFacts DEF Texts
  <2>5. SortedItems(items) = s
    <3>1. PICK T : s \in Seq(T) /\ Keyed(s)
      BY <1>5 DEF ItemsRoundTrip
    <3> QED
      BY <2>0, <3>1, SortedItemsOfSorted
  <2>6. Codes(depth)[d][v] = (two \o body) \o end
    <3>1. EncodeWith(code, v) =
             <<"d">> \o FlattenSeq([i \in 1..Len(SortedItems(items)) |->
                                       EncodeItem(code, SortedItems(items)[i])]) \o <<"e">>
      BY <2>1, EncodeWithFacts
    <3>2. EncodeWith(code, v) = (two \o FlattenSeq(ItemsCode(code, s))) \o end
      BY <1>2, <2>5, <3>1 DEF ItemsCode
    <3> QED
      BY <1>1, <2>2, <2>4, <3>2
  <2>7. (two \o body) \o end = two \o t
    <3>1. (two \o body) \o end = two \o (body \o end)
      BY TextConcat
    <3> QED
      BY <2>3, <2>4, <3>1
  <2>8. two \o t \in Texts /\ IsReadAs(two \o t, [dict |-> items])
    BY <1>2, <2>0, <2>3, GroupReadsBack
  <2>9. t = ItemsText(depth, d - 1, s)
    BY <1>1, <1>2, <2>3 DEF ItemsText
  <2>10. RoundTrips(depth, d, v)
    BY <2>0, <2>1, <2>2, <2>6, <2>7, <2>8 DEF RoundTrips
  <2> QED
    BY <1>2, <2>0, <2>1, <2>6, <2>7, <2>9, <2>10
<1> QED
  BY <1>4, <1>5

(* So is a dictionary with one item more, when its key precedes the        *)
(* others.                                                                 *)
LEMMA MoreItemsRoundTrip ==
    ASSUME NEW depth, NEW d, NEW key \in Texts, NEW v, RoundTrips(depth, d, v),
           NEW s, ItemsRoundTrip(depth, d, s), Precedes(key, s)
    PROVE  ItemsRoundTrip(depth, d, Prepend([key |-> key, value |-> v], s))
BY MoreItems

(* Its text is that of the key, that of the value, and the rest.           *)
LEMMA MoreItemsText ==
    ASSUME NEW depth, NEW d, NEW key \in Texts, NEW v, RoundTrips(depth, d, v),
           NEW s, ItemsRoundTrip(depth, d, s), Precedes(key, s)
    PROVE  TextGrows(depth, d, key, v, s, Prepend([key |-> key, value |-> v], s))
BY MoreItems

(* With its marks the group is a value that is read back.                  *)
LEMMA GroupRoundTrips ==
    ASSUME NEW depth \in Nat, NEW d \in 1..depth, NEW s
    PROVE  /\ ListRoundTrips(depth, d - 1, s) => RoundTrips(depth, d, [list |-> s])
           /\ ItemsRoundTrip(depth, d - 1, s) => RoundTrips(depth, d, [dict |-> Range(s)])
BY Groups

(* The text of a dictionary: its mark and the text of its items.           *)
LEMMA GroupText ==
    ASSUME NEW depth \in Nat, NEW d \in 1..depth, NEW s, ItemsRoundTrip(depth, d - 1, s)
    PROVE  Codes(depth)[d][[dict |-> Range(s)]] = <<"d">> \o ItemsText(depth, d - 1, s)
BY Groups

(* A list of values that are read back is read back.                       *)
LEMMA ListsRoundTrip ==
    ASSUME NEW depth, NEW d, NEW T, \A v \in T : RoundTrips(depth, d, v), NEW s \in Seq(T)
    PROVE  ListRoundTrips(depth, d, s)
<1> DEFINE Lengths0 == {n \in 0..Len(s) : \A t \in Seq(T) : Len(t) = n => ListRoundTrips(depth, d, t)}
<1>1. Len(s) \in Nat
  OBVIOUS
<1>2. 0 \in Lengths0
  <2>1. \A t \in Seq(T) : Len(t) = 0 => t = <<>>
    BY EmptySeq
  <2> QED
    BY <1>1, <2>1, EmptyRoundTrips
<1>3. ASSUME NEW n \in 1..Len(s), n - 1 \in Lengths0
      PROVE  n \in Lengths0
  <2> SUFFICES ASSUME NEW t \in Seq(T), Len(t) = n
               PROVE  ListRoundTrips(depth, d, t)
    BY <1>1
  <2>1. t # <<>> /\ 1 \in 1..Len(t)
    BY <1>1
  <2>2. PICK rest \in Seq(T) : rest = Tail(t) /\ Len(rest) = n - 1 /\ t = <<Head(t)>> \o rest
    BY <2>1, TailFacts
  <2>3. t = Prepend(t[1], rest) /\ t[1] \in T
    BY <2>1, <2>2, TailFacts DEF Prepend
  <2>4. ListRoundTrips(depth, d, rest)
    BY <1>3, <2>2
  <2> QED
    BY <2>3, <2>4, LongerListRoundTrips
<1>4. 0..Len(s) \subseteq Lengths0
  <2> HIDE DEF Lengths0
  <2> QED
    BY <1>1, <1>2, <1>3, Induction
<1>5. Len(s) \in Lengths0
  BY <1>1, <1>4
<1> QED
  BY <1>5

(* The elements of a sequence with one more before it.                     *)
LEMMA RangeOfPrepended ==
    ASSUME NEW T, NEW v \in T, NEW s \in Seq(T)
    PROVE  Range(Prepend(v, s)) = {v} \cup Range(s)
<1>1. PICK t \in Seq(T) : /\ t = Prepend(v, s) /\ Len(t) = Len(s) + 1 /\ t[1] = v
                          /\ \A k \in 1..Len(s) : t[k + 1] = s[k]
  BY Prepended
<1>2. PICK n \in Nat : n = Len(s)
  OBVIOUS
<1>3. DOMAIN t = 1..(n + 1) /\ DOMAIN s = 1..n
  BY <1>1, <1>2
<1>4. ASSUME NEW x \in Range(t)
      PROVE  x \in {v} \cup Range(s)
  <2>1. PICK k \in 1..(n + 1) : x = t[k]
    BY <1>3 DEF Range
  <2>2. CASE k = 1
    BY <1>1, <2>1, <2>2
  <2>3. CASE k # 1
    <3>1. PICK j \in 1..n : k = j + 1
      <4>1. k - 1 \in 1..n /\ k = (k - 1) + 1
        BY <2>3
      <4> QED
        BY <4>1
    <3> QED
      BY <1>1, <1>2, <1>3, <2>1, <3>1 DEF Range
  <2> QED
    BY <2>2, <2>3
<1>5. ASSUME NEW x \in {v} \cup Range(s)
      PROVE  x \in Range(t)
  <2>1. CASE x = v
    <3>1. 1 \in 1..(n + 1)
      OBVIOUS
    <3> QED
      BY <1>1, <1>3, <2>1, <3>1 DEF Range
  <2>2. CASE x \in Range(s)
    <3>1. PICK k \in 1..n : x = s[k]
      BY <1>3, <2>2 DEF Range
    <3>2. k + 1 \in 1..(n + 1) /\ x = t[k + 1]
      BY <1>1, <1>2, <3>1
    <3> QED
      BY <1>3, <3>2 DEF Range
  <2> QED
    BY <2>1, <2>2
<1> QED
  BY <1>1, <1>4, <1>5

(* Names of one symbol are in the order of the symbols.                    *)
LEMMA NamesDiffer ==
    ASSUME NEW a, NEW b, Rank(a) < Rank(b)
    PROVE  KeyLess(<<a>>, <<b>>)
<1>1. 0 \in 0..Len(<<a>>) /\ 0 < Len(<<b>>) /\ <<a>>[0 + 1] = a /\ <<b>>[0 + 1] = b
  OBVIOUS
<1>2. \A j \in 1..0 : <<a>>[j] = <<b>>[j]
  OBVIOUS
<1> QED
  BY <1>1, <1>2 DEF KeyLess

(* Another item in front, with a name of one symbol that comes first.      *)
LEMMA NamedItemRoundTrips ==
    ASSUME NEW depth, NEW d, NEW name \in Range(Symbols), NEW v, RoundTrips(depth, d, v),
           NEW s, ItemsRoundTrip(depth, d, s), Precedes(<<name>>, s)
    PROVE  /\ ItemsRoundTrip(depth, d, Prepend(Item(name, v), s))
           /\ Range(Prepend(Item(name, v), s)) = {Item(name, v)} \cup Range(s)
           /\ \A other : Rank(other) < Rank(name) => Precedes(<<other>>, Prepend(Item(name, v), s))
<1>1. <<name>> \in Texts
  BY DEF Texts
<1>2. PICK item : item = Item(name, v) /\ item = [key |-> <<name>>, value |-> v]
  BY DEF Item
<1>3. ItemsRoundTrip(depth, d, Prepend(item, s))
  BY <1>1, <1>2, MoreItemsRoundTrip
<1>4. PICK T : T = ItemsOf(Values(depth)[d])
  OBVIOUS
<1>5. item \in T /\ s \in Seq(T)
  BY <1>1, <1>2, <1>4 DEF RoundTrips, ItemsRoundTrip, ItemsOf
<1>6. Range(Prepend(item, s)) = {item} \cup Range(s)
  BY <1>5, RangeOfPrepended
<1>7. PICK t \in Seq(T) : t = Prepend(item, s) /\ t[1] = item
  BY <1>5, Prepended
<1>8. \A other : Rank(other) < Rank(name) => Precedes(<<other>>, t)
  <2>1. t[1].key = <<name>>
    BY <1>2, <1>7
  <2> QED
    BY <2>1, NamesDiffer DEF Precedes
<1> QED
  BY <1>2, <1>3, <1>6, <1>7, <1>8

(* The text of an item whose key is one name.                              *)
LEMMA NamedItemText ==
    ASSUME NEW depth, NEW d, NEW name \in Range(Symbols), NEW v, RoundTrips(depth, d, v),
           NEW s, ItemsRoundTrip(depth, d, s), Precedes(<<name>>, s)
    PROVE  TextGrows(depth, d, <<name>>, v, s, Prepend(Item(name, v), s))
<1>1. <<name>> \in Texts
  BY DEF Texts
<1>2. PICK item : item = Item(name, v) /\ item = [key |-> <<name>>, value |-> v]
  BY DEF Item
<1>3. TextGrows(depth, d, <<name>>, v, s, Prepend(item, s))
  BY <1>1, <1>2, MoreItemsText
<1> QED
  BY <1>2, <1>3

(* The entry of a peer is read back.                                       *)
LEMMA PeersRoundTrip ==
    ASSUME NEW peer, peer.peer_id \in Texts, peer.ip \in Texts, peer.port \in Nat
    PROVE  RoundTrips(Nesting, 1, PeerEntry(peer))
<1> USE DEF Nesting
<1>0. 3 \in Nat /\ 0 \in 0..3 /\ 1 \in 1..3 /\ 1 - 1 = 0
  OBVIOUS
<1>1. PICK id, ip, port : id = SomeBytes(peer.peer_id) /\ ip = SomeBytes(peer.ip) /\ port = AnInt(peer.port)
  OBVIOUS
<1>2. RoundTrips(3, 0, id) /\ RoundTrips(3, 0, ip) /\ RoundTrips(3, 0, port)
  BY <1>0, <1>1, LeavesRoundTrip DEF SomeBytes, AnInt
<1>3. {"ip", "peer_id", "port"} \subseteq Range(Symbols)
  BY ResponsesAreLegal
<1>4. ItemsRoundTrip(3, 0, <<>>) /\ Precedes(<<"port">>, <<>>)
  BY EmptyRoundTrips DEF Precedes
<1>5. PICK s : /\ ItemsRoundTrip(3, 0, s) /\ Range(s) = {Item("port", port)} \cup Range(<<>>)
               /\ Precedes(<<"peer_id">>, s)
  <2>1. Rank("peer_id") < Rank("port")
    BY ResponsesAreLegal
  <2>2. /\ ItemsRoundTrip(3, 0, Prepend(Item("port", port), <<>>))
        /\ Range(Prepend(Item("port", port), <<>>)) = {Item("port", port)} \cup Range(<<>>)
        /\ \A other : Rank(other) < Rank("port") => Precedes(<<other>>, Prepend(Item("port", port), <<>>))
    BY <1>2, <1>3, <1>4, NamedItemRoundTrips
  <2> QED
    BY <2>1, <2>2
<1>6. PICK t : /\ ItemsRoundTrip(3, 0, t) /\ Range(t) = {Item("peer_id", id)} \cup Range(s)
               /\ Precedes(<<"ip">>, t)
  <2>1. Rank("ip") < Rank("peer_id")
    BY ResponsesAreLegal
  <2>2. /\ ItemsRoundTrip(3, 0, Prepend(Item("peer_id", id), s))
        /\ Range(Prepend(Item("peer_id", id), s)) = {Item("peer_id", id)} \cup Range(s)
        /\ \A other : Rank(other) < Rank("peer_id") => Precedes(<<other>>, Prepend(Item("peer_id", id), s))
    BY <1>2, <1>3, <1>5, NamedItemRoundTrips
  <2> QED
    BY <2>1, <2>2
<1>7. PICK u : /\ ItemsRoundTrip(3, 0, u) /\ Range(u) = {Item("ip", ip)} \cup Range(t)
  BY <1>2, <1>3, <1>6, NamedItemRoundTrips
<1>8. Range(<<>>) = {}
  BY DEF Range
<1>9. Range(u) = {Item("peer_id", id), Item("ip", ip), Item("port", port)}
  BY <1>5, <1>6, <1>7, <1>8
<1>10. PeerEntry(peer) = [dict |-> Range(u)]
  BY <1>1, <1>9 DEF PeerEntry
<1> QED
  BY <1>0, <1>7, <1>10, GroupRoundTrips

(* The peers that a reply may name.                                        *)
PeerSet == [peer_id : Identifiers, ip : {s \in Texts : "xff" \notin Range(s)}, port : 1..MaxPort]

(* The types of a response's fields.                                       *)
LEMMA ResponseFacts ==
    ASSUME NEW r \in Responses
    PROVE  /\ r.interval \in Nat \ {0} /\ r.complete \in Nat /\ r.incomplete \in Nat
           /\ r.peers \in Seq(PeerSet)
           /\ \A i \in 1..Len(r.peers) :
                 /\ r.peers[i] \in PeerSet
                 /\ r.peers[i].peer_id \in Texts /\ r.peers[i].ip \in Texts /\ r.peers[i].port \in Nat
<1>1. /\ r.interval \in Nat \ {0} /\ r.complete \in Nat /\ r.incomplete \in Nat
      /\ r.peers \in Seq(PeerSet)
  BY Zenon DEF Responses, PeerSet
<1>2. \A p \in PeerSet : p.peer_id \in Texts /\ p.ip \in Texts /\ p.port \in Nat
  BY WireSizes DEF PeerSet, Identifiers
<1>3. \A i \in 1..Len(r.peers) : r.peers[i] \in PeerSet
  BY <1>1
<1> QED
  BY <1>1, <1>2, <1>3

(* The encoding of a dictionary whose first item is "complete", n.         *)
BeginsWithComplete(data, n) ==
    \E t \in Texts : data = <<"d">> \o ((EncodeBytes(<<"complete">>) \o IntText(n)) \o t)

(* A response is read back, and its first key is "complete".               *)
LEMMA PayloadRoundTrips ==
    ASSUME NEW r \in Responses
    PROVE  /\ RoundTrips(Nesting, Nesting, Payload(r))
           /\ BeginsWithComplete(Encode(Nesting, Payload(r)), r.complete)
<1>0. 3 \in Nat /\ 2 \in 0..3 /\ 2 \in 1..3 /\ 3 \in 1..3 /\ 2 - 1 = 1 /\ 3 - 1 = 2 /\ Nesting = 3
  BY DEF Nesting
<1>1. PICK interval, complete, incomplete, entries :
         /\ interval = AnInt(r.interval) /\ complete = AnInt(r.complete) /\ incomplete = AnInt(r.incomplete)
         /\ entries = [i \in 1..Len(r.peers) |-> PeerEntry(r.peers[i])]
  OBVIOUS
<1>2. RoundTrips(3, 2, interval) /\ RoundTrips(3, 2, complete) /\ RoundTrips(3, 2, incomplete)
  <2>1. r.interval \in Nat /\ r.complete \in Nat /\ r.incomplete \in Nat
    BY ResponseFacts
  <2> QED
    BY <1>0, <1>1, <2>1, LeavesRoundTrip DEF AnInt
<1>3. PICK peers : peers = [list |-> entries] /\ RoundTrips(3, 2, peers)
  <2>1. PICK T : T = {v \in Range(entries) : RoundTrips(3, 1, v)}
    OBVIOUS
  <2>2. PICK n \in Nat : n = Len(r.peers)
    BY ResponseFacts
  <2>3. \A i \in 1..n : PeerEntry(r.peers[i]) \in T
    <3> TAKE i \in 1..n
    <3>1. RoundTrips(3, 1, PeerEntry(r.peers[i]))
      BY <1>0, <2>2, ResponseFacts, PeersRoundTrip
    <3>2. PeerEntry(r.peers[i]) \in Range(entries)
      BY <1>1, <2>2 DEF Range
    <3> QED
      BY <2>1, <3>1, <3>2
  <2>4. entries \in Seq(T)
    BY <1>1, <2>2, <2>3
  <2>5. ListRoundTrips(3, 1, entries)
    BY <2>1, <2>4, ListsRoundTrip
  <2> QED
    BY <1>0, <2>5, GroupRoundTrips
<1>4. {"complete", "incomplete", "interval", "peers"} \subseteq Range(Symbols)
  BY ResponsesAreLegal
<1>5. ItemsRoundTrip(3, 2, <<>>) /\ Precedes(<<"peers">>, <<>>)
  BY EmptyRoundTrips DEF Precedes
<1>6. PICK s : /\ ItemsRoundTrip(3, 2, s) /\ Range(s) = {Item("peers", peers)} \cup Range(<<>>)
               /\ Precedes(<<"interval">>, s)
  <2>1. Rank("interval") < Rank("peers")
    BY ResponsesAreLegal
  <2>2. /\ ItemsRoundTrip(3, 2, Prepend(Item("peers", peers), <<>>))
        /\ Range(Prepend(Item("peers", peers), <<>>)) = {Item("peers", peers)} \cup Range(<<>>)
        /\ \A other : Rank(other) < Rank("peers") => Precedes(<<other>>, Prepend(Item("peers", peers), <<>>))
    BY <1>3, <1>4, <1>5, NamedItemRoundTrips
  <2> QED
    BY <2>1, <2>2
<1>7. PICK t : /\ ItemsRoundTrip(3, 2, t) /\ Range(t) = {Item("interval", interval)} \cup Range(s)
               /\ Precedes(<<"incomplete">>, t)
  <2>1. Rank("incomplete") < Rank("interval")
    BY ResponsesAreLegal
  <2>2. /\ ItemsRoundTrip(3, 2, Prepend(Item("interval", interval), s))
        /\ Range(Prepend(Item("interval", interval), s)) = {Item("interval", interval)} \cup Range(s)
        /\ \A other : Rank(other) < Rank("interval") => Precedes(<<other>>, Prepend(Item("interval", interval), s))
    BY <1>2, <1>4, <1>6, NamedItemRoundTrips
  <2> QED
    BY <2>1, <2>2
<1>8. PICK u : /\ ItemsRoundTrip(3, 2, u) /\ Range(u) = {Item("incomplete", incomplete)} \cup Range(t)
               /\ Precedes(<<"complete">>, u)
  <2>1. Rank("complete") < Rank("incomplete")
    BY ResponsesAreLegal
  <2>2. /\ ItemsRoundTrip(3, 2, Prepend(Item("incomplete", incomplete), t))
        /\ Range(Prepend(Item("incomplete", incomplete), t)) = {Item("incomplete", incomplete)} \cup Range(t)
        /\ \A other : Rank(other) < Rank("incomplete") => Precedes(<<other>>, Prepend(Item("incomplete", incomplete), t))
    BY <1>2, <1>4, <1>7, NamedItemRoundTrips
  <2> QED
    BY <2>1, <2>2
<1>9. PICK w : /\ ItemsRoundTrip(3, 2, w) /\ Range(w) = {Item("complete", complete)} \cup Range(u)
               /\ TextGrows(3, 2, <<"complete">>, complete, u, w)
  <2>1. /\ ItemsRoundTrip(3, 2, Prepend(Item("complete", complete), u))
        /\ Range(Prepend(Item("complete", complete), u)) = {Item("complete", complete)} \cup Range(u)
    BY <1>2, <1>4, <1>8, NamedItemRoundTrips
  <2>2. TextGrows(3, 2, <<"complete">>, complete, u, Prepend(Item("complete", complete), u))
    BY <1>2, <1>4, <1>8, NamedItemText
  <2> QED
    BY <2>1, <2>2
<1>10. Range(<<>>) = {}
  BY DEF Range
<1>11. Range(w) = {Item("interval", interval), Item("complete", complete),
                   Item("incomplete", incomplete), Item("peers", peers)}
  BY <1>6, <1>7, <1>8, <1>9, <1>10
<1>12. Payload(r) = [dict |-> Range(w)]
  BY <1>1, <1>3, <1>11 DEF Payload
<1>13. RoundTrips(3, 3, Payload(r))
  BY <1>0, <1>9, <1>12, GroupRoundTrips
<1>14. Codes(3)[3][Payload(r)] = <<"d">> \o ItemsText(3, 2, w)
  BY <1>0, <1>9, <1>12, GroupText
<1>15. BeginsWithComplete(Encode(3, Payload(r)), r.complete)
  <2>1. Codes(3)[2][complete] = IntText(r.complete)
    <3>1. r.complete \in Nat
      BY ResponseFacts
    <3> QED
      BY <1>0, <1>1, <3>1, LeafTexts DEF AnInt
  <2>2. PICK t0 \in Texts : t0 = ItemsText(3, 2, u)
    BY <1>8 DEF ItemsRoundTrip
  <2>3. ItemsText(3, 2, w) = (EncodeBytes(<<"complete">>) \o IntText(r.complete)) \o t0
    BY <1>9, <2>1, <2>2 DEF TextGrows
  <2> QED
    BY <1>14, <2>3 DEF Encode, BeginsWithComplete
<1> QED
  BY <1>0, <1>13, <1>15

(* A failure is read back, and has no item but its reason.                 *)
LEMMA FailureRoundTrips ==
    ASSUME NEW reason \in Texts
    PROVE  /\ RoundTrips(Nesting, Nesting, FailurePayload(reason))
           /\ Encode(Nesting, FailurePayload(reason)) =
                 <<"d">> \o ((EncodeBytes(<<"failure_reason">>) \o EncodeBytes(reason)) \o <<"e">>)
<1>0. 3 \in Nat /\ 2 \in 0..3 /\ 3 \in 1..3 /\ 3 - 1 = 2 /\ Nesting = 3
  BY DEF Nesting
<1>1. PICK bytes : bytes = SomeBytes(reason) /\ RoundTrips(3, 2, bytes)
  BY <1>0, LeavesRoundTrip DEF SomeBytes
<1>2. "failure_reason" \in Range(Symbols)
  BY ResponsesAreLegal
<1>3. ItemsRoundTrip(3, 2, <<>>) /\ Precedes(<<"failure_reason">>, <<>>)
  BY EmptyRoundTrips DEF Precedes
<1>4. PICK s : /\ ItemsRoundTrip(3, 2, s)
               /\ Range(s) = {Item("failure_reason", bytes)} \cup Range(<<>>)
               /\ TextGrows(3, 2, <<"failure_reason">>, bytes, <<>>, s)
  <2>1. /\ ItemsRoundTrip(3, 2, Prepend(Item("failure_reason", bytes), <<>>))
        /\ Range(Prepend(Item("failure_reason", bytes), <<>>)) =
              {Item("failure_reason", bytes)} \cup Range(<<>>)
        /\ \A other : Rank(other) < Rank("failure_reason") =>
              Precedes(<<other>>, Prepend(Item("failure_reason", bytes), <<>>))
    BY <1>1, <1>2, <1>3, NamedItemRoundTrips
  <2>2. TextGrows(3, 2, <<"failure_reason">>, bytes, <<>>, Prepend(Item("failure_reason", bytes), <<>>))
    BY <1>1, <1>2, <1>3, NamedItemText
  <2> QED
    BY <2>1, <2>2
<1>5. Range(<<>>) = {}
  BY DEF Range
<1>6. FailurePayload(reason) = [dict |-> Range(s)]
  BY <1>1, <1>4, <1>5 DEF FailurePayload
<1>7. RoundTrips(3, 3, FailurePayload(reason))
  BY <1>0, <1>4, <1>6, GroupRoundTrips
<1>8. Codes(3)[3][FailurePayload(reason)] = <<"d">> \o ItemsText(3, 2, s)
  BY <1>0, <1>4, <1>6, GroupText
<1>9. Codes(3)[2][bytes] = EncodeBytes(reason)
  BY <1>0, <1>1, LeafTexts DEF SomeBytes
<1>10. ItemsText(3, 2, <<>>) = <<"e">>
  BY EmptyRoundTrips
<1>11. ItemsText(3, 2, s) =
          (EncodeBytes(<<"failure_reason">>) \o EncodeBytes(reason)) \o <<"e">>
  BY <1>4, <1>9, <1>10 DEF TextGrows
<1> QED
  BY <1>0, <1>7, <1>8, <1>11 DEF Encode

(* What the encoder writes, the decoder returns.                           *)
LEMMA DecodesBack ==
    ASSUME NEW depth, NEW v, RoundTrips(depth, depth, v)
    PROVE  Encode(depth, v) \in Texts /\ Decode(Encode(depth, v)) = {v}
<1>1. PICK c \in Texts : c = Encode(depth, v) /\ IsReadAs(c, v)
  BY DEF RoundTrips, Encode
<1>2. Len(c) \in Nat /\ 1 \in 1..(Len(c) + 1) /\ 1 + Len(c) = Len(c) + 1
  BY DEF Texts
<1>3. At(c, 1, c)
  BY <1>2 DEF At
<1>4. PICK p : p = Parsed(v, Len(c) + 1) /\ p.value = v /\ p.next = Len(c) + 1
  BY ParsedFacts
<1>5. Parser(c)[1]["value"] = {p}
  BY <1>1, <1>2, <1>3, <1>4 DEF IsReadAs
<1>6. Decode(c) = {v}
  BY <1>4, <1>5 DEF Decode
<1> QED
  BY <1>1, <1>6

-----------------------------------------------------------------------------
(* What the client makes of a payload.                                     *)
LEMMA GetOfItem ==
    ASSUME NEW d, NEW name, NEW v, Item(name, v) \in d,
           \A x \in d : x.key = <<name>> => x = Item(name, v)
    PROVE  Has(d, name) /\ Get(d, name) = v
<1>1. PICK item : item = Item(name, v) /\ item.key = <<name>> /\ item.value = v
  BY DEF Item
<1>2. item \in d /\ \A x \in d : x.key = <<name>> => x = item
  BY <1>1
<1>3. (CHOOSE x \in d : x.key = <<name>>) = item
  BY <1>1, <1>2
<1> QED
  BY <1>1, <1>2, <1>3 DEF Has, Get

(* The client finds in a payload the values the server put there.          *)
LEMMA PayloadRead ==
    ASSUME NEW r \in Responses
    PROVE  LET d == Payload(r).dict IN
           /\ ~Has(d, "failure_reason")
           /\ Has(d, "interval") /\ Get(d, "interval") = AnInt(r.interval)
           /\ Has(d, "complete") /\ Get(d, "complete") = AnInt(r.complete)
           /\ Has(d, "incomplete") /\ Get(d, "incomplete") = AnInt(r.incomplete)
           /\ Has(d, "peers")
           /\ Get(d, "peers") = [list |-> [i \in 1..Len(r.peers) |-> PeerEntry(r.peers[i])]]
<1>1. PICK a, b, c, p : /\ a = AnInt(r.interval) /\ b = AnInt(r.complete) /\ c = AnInt(r.incomplete)
                        /\ p = [list |-> [i \in 1..Len(r.peers) |-> PeerEntry(r.peers[i])]]
  OBVIOUS
<1>2. PICK d : d = {Item("interval", a), Item("complete", b), Item("incomplete", c), Item("peers", p)}
  OBVIOUS
<1>3. Payload(r).dict = d
  BY <1>1, <1>2 DEF Payload
<1>4. \A name, v : Item(name, v).key = <<name>>
  BY DEF Item
<1>5. \A m, n : <<m>> = <<n>> => m = n
  OBVIOUS
<1>6. ~Has(d, "failure_reason")
  BY <1>2, <1>4, <1>5 DEF Has
<1>7. Has(d, "interval") /\ Get(d, "interval") = a
  BY <1>2, <1>4, <1>5, GetOfItem
<1>8. Has(d, "complete") /\ Get(d, "complete") = b
  BY <1>2, <1>4, <1>5, GetOfItem
<1>9. Has(d, "incomplete") /\ Get(d, "incomplete") = c
  BY <1>2, <1>4, <1>5, GetOfItem
<1>10. Has(d, "peers") /\ Get(d, "peers") = p
  BY <1>2, <1>4, <1>5, GetOfItem
<1> QED
  BY <1>1, <1>3, <1>6, <1>7, <1>8, <1>9, <1>10

(* It takes the entry of a peer for that peer.                             *)
LEMMA EntryRead ==
    ASSUME NEW peer \in PeerSet
    PROVE  IsPeerEntry(PeerEntry(peer)) /\ PeerOf(PeerEntry(peer)) = peer
<1>1. PICK a, b, c : a = SomeBytes(peer.peer_id) /\ b = SomeBytes(peer.ip) /\ c = AnInt(peer.port)
  OBVIOUS
<1>2. PICK d : d = {Item("peer_id", a), Item("ip", b), Item("port", c)}
  OBVIOUS
<1>0. PICK v : v = PeerEntry(peer)
  OBVIOUS
<1>3. v = PeerEntry(peer) /\ v.dict = d /\ "dict" \in DOMAIN v
  BY <1>0, <1>1, <1>2 DEF PeerEntry
<1>4. \A name, w : Item(name, w).key = <<name>>
  BY DEF Item
<1>5. \A m, n : <<m>> = <<n>> => m = n
  OBVIOUS
<1>6. Has(d, "peer_id") /\ Get(d, "peer_id") = a
  BY <1>2, <1>4, <1>5, GetOfItem
<1>7. Has(d, "ip") /\ Get(d, "ip") = b
  BY <1>2, <1>4, <1>5, GetOfItem
<1>8. Has(d, "port") /\ Get(d, "port") = c
  BY <1>2, <1>4, <1>5, GetOfItem
<1>9. /\ "bytes" \in DOMAIN a /\ a.bytes = peer.peer_id
      /\ "bytes" \in DOMAIN b /\ b.bytes = peer.ip
      /\ "int" \in DOMAIN c /\ c.int = peer.port
  BY <1>1 DEF SomeBytes, AnInt
<1>10. /\ Len(peer.peer_id) = IdLength /\ "xff" \notin Range(peer.ip) /\ peer.port \in 1..MaxPort
  BY DEF PeerSet, Identifiers
<1>11. IsPeerEntry(v)
  <2>1. HasText(d, "ip")
    BY <1>7, <1>9, <1>10 DEF HasText
  <2>2. HasInt(d, "port", 1) /\ Get(d, "port").int <= MaxPort
    BY <1>8, <1>9, <1>10, WireSizes DEF HasInt
  <2> QED
    BY <1>3, <1>6, <1>9, <1>10, <2>1, <2>2 DEF IsPeerEntry
<1>12. PeerOf(v) = [peer_id |-> peer.peer_id, ip |-> peer.ip, port |-> peer.port]
  BY <1>3, <1>6, <1>7, <1>8, <1>9 DEF PeerOf
<1>13. peer = [peer_id |-> peer.peer_id, ip |-> peer.ip, port |-> peer.port]
  BY DEF PeerSet
<1> QED
  BY <1>3, <1>11, <1>12, <1>13

(* It takes a response for that response, and no failure.                  *)
LEMMA ResponseInterpreted ==
    ASSUME NEW r \in Responses
    PROVE  Interpret(Payload(r).dict) = {[response |-> r]}
<1>1. PICK d : d = Payload(r).dict
  OBVIOUS
<1>2. PICK n \in Nat : n = Len(r.peers)
  BY ResponseFacts
<1>3. PICK entries : entries = [i \in 1..n |-> PeerEntry(r.peers[i])]
  OBVIOUS
<1>4. /\ ~Has(d, "failure_reason")
      /\ Has(d, "interval") /\ Get(d, "interval") = AnInt(r.interval)
      /\ Has(d, "complete") /\ Get(d, "complete") = AnInt(r.complete)
      /\ Has(d, "incomplete") /\ Get(d, "incomplete") = AnInt(r.incomplete)
      /\ Has(d, "peers") /\ Get(d, "peers") = [list |-> entries]
  BY <1>1, <1>2, <1>3, PayloadRead
<1>5. \A k : "int" \in DOMAIN AnInt(k) /\ AnInt(k).int = k
  BY DEF AnInt
<1>6. \A s : "list" \in DOMAIN [list |-> s] /\ [list |-> s].list = s
  OBVIOUS
<1>7. r.interval \in Nat \ {0} /\ r.complete \in Nat /\ r.incomplete \in Nat
  BY ResponseFacts
<1>8. Len(entries) = n /\ \A i \in 1..n : entries[i] = PeerEntry(r.peers[i])
  BY <1>3
<1>9. \A i \in 1..n : IsPeerEntry(entries[i]) /\ PeerOf(entries[i]) = r.peers[i]
  BY <1>2, <1>8, ResponseFacts, EntryRead
<1>10. IsResponse(d)
  <2>1. HasInt(d, "interval", 1) /\ HasInt(d, "complete", 0) /\ HasInt(d, "incomplete", 0)
    BY <1>4, <1>5, <1>7 DEF HasInt
  <2>2. "list" \in DOMAIN Get(d, "peers") /\ Get(d, "peers").list = entries
    BY <1>4, <1>6
  <2> QED
    BY <1>4, <1>8, <1>9, <2>1, <2>2 DEF IsResponse
<1>11. [i \in 1..Len(entries) |-> PeerOf(entries[i])] = r.peers
  <2>1. r.peers = [i \in 1..n |-> r.peers[i]]
    BY <1>2, ResponseFacts
  <2>2. [i \in 1..n |-> PeerOf(entries[i])] = [i \in 1..n |-> r.peers[i]]
    BY <1>9
  <2> QED
    BY <1>8, <2>1, <2>2
<1>12. ResponseOf(d) = [interval |-> r.interval, complete |-> r.complete,
                        incomplete |-> r.incomplete, peers |-> r.peers]
  <2>1. Get(d, "peers").list = entries
    BY <1>4, <1>6
  <2>2. /\ Get(d, "interval").int = r.interval /\ Get(d, "complete").int = r.complete
        /\ Get(d, "incomplete").int = r.incomplete
    BY <1>4, <1>5
  <2> QED
    BY <1>11, <2>1, <2>2 DEF ResponseOf
<1>13. r = [interval |-> r.interval, complete |-> r.complete,
            incomplete |-> r.incomplete, peers |-> r.peers]
  BY DEF Responses
<1> QED
  BY <1>1, <1>4, <1>10, <1>12, <1>13 DEF Interpret

(* It takes a failure for that failure.                                    *)
LEMMA FailureInterpreted ==
    ASSUME NEW reason, "xff" \notin Range(reason)
    PROVE  Interpret(FailurePayload(reason).dict) = {[failure |-> reason]}
<1>0. PICK b : b = SomeBytes(reason)
  OBVIOUS
<1>1. b = SomeBytes(reason) /\ "bytes" \in DOMAIN b /\ b.bytes = reason
  BY <1>0 DEF SomeBytes
<1>2. PICK d : d = {Item("failure_reason", b)}
  OBVIOUS
<1>3. FailurePayload(reason).dict = d
  BY <1>1, <1>2 DEF FailurePayload
<1>4. Has(d, "failure_reason") /\ Get(d, "failure_reason") = b
  BY <1>2, GetOfItem
<1>5. Cardinality(d) = 1
  BY <1>2, FS_Singleton
<1>6. HasText(d, "failure_reason")
  BY <1>1, <1>4 DEF HasText
<1> QED
  BY <1>1, <1>3, <1>4, <1>5, <1>6 DEF Interpret

(* So what arrives undamaged is read as what was sent.                     *)
LEMMA RepliesAreRead ==
    /\ \A r \in SentResponses :
          /\ Encode(Nesting, Payload(r)) \in Texts
          /\ ParseReply(Encode(Nesting, Payload(r))) = {[response |-> r]}
    /\ Encode(Nesting, FailurePayload(<<"reason">>)) \in Texts
    /\ ParseReply(Encode(Nesting, FailurePayload(<<"reason">>))) = {[failure |-> <<"reason">>]}
<1>1. ASSUME NEW v, RoundTrips(Nesting, Nesting, v), "dict" \in DOMAIN v, NEW meaning,
             Interpret(v.dict) = {meaning}
      PROVE  /\ Encode(Nesting, v) \in Texts /\ ParseReply(Encode(Nesting, v)) = {meaning}
  <2>1. PICK c \in Texts : c = Encode(Nesting, v) /\ Decode(c) = {v}
    BY <1>1, DecodesBack
  <2>2. {w \in Decode(c) : "dict" \in DOMAIN w} = {v}
    BY <1>1, <2>1
  <2>3. ParseReply(c) = UNION {Interpret(u.dict) : u \in {v}}
    BY <2>2 DEF ParseReply
  <2>4. ParseReply(c) = {meaning}
    BY <1>1, <2>3
  <2> QED
    BY <2>1, <2>4
<1>2. ASSUME NEW r \in SentResponses
      PROVE  /\ Encode(Nesting, Payload(r)) \in Texts
             /\ ParseReply(Encode(Nesting, Payload(r))) = {[response |-> r]}
  <2>1. r \in Responses
    BY ResponsesAreLegal
  <2>2. "dict" \in DOMAIN Payload(r)
    BY DEF Payload
  <2> QED
    BY <1>1, <2>1, <2>2, PayloadRoundTrips, ResponseInterpreted
<1>3. /\ Encode(Nesting, FailurePayload(<<"reason">>)) \in Texts
      /\ ParseReply(Encode(Nesting, FailurePayload(<<"reason">>))) = {[failure |-> <<"reason">>]}
  <2>1. PICK reason \in Texts : reason = <<"reason">> /\ "xff" \notin Range(reason)
    <3>1. <<"reason">> \in Texts
      BY ResponsesAreLegal DEF Texts
    <3>2. "xff" \notin Range(<<"reason">>)
      BY DEF Range
    <3> QED
      BY <3>1, <3>2
  <2>2. "dict" \in DOMAIN FailurePayload(reason)
    BY DEF FailurePayload
  <2> QED
    BY <1>1, <2>1, <2>2, FailureRoundTrips, FailureInterpreted
<1> QED
  BY <1>2, <1>3

-----------------------------------------------------------------------------
(* A reply on its way is a text of symbols, whatever its damage, and as    *)
(* long as it has none it reads as what was sent.                          *)
ReplyIsText == "request" \notin DOMAIN sent => text \in Texts

(* The first half of ReplyArrives, with the bounds of edits it needs.      *)
UndamagedArrives ==
    edits \in Nat /\ ("request" \notin DOMAIN sent /\ edits = 0 => ParseReply(text) = {sent})

(* Both hold of what is sent,                                              *)
LEMMA RepliesInit ==
    WireInit => ReplyIsText /\ UndamagedArrives
<1> SUFFICES ASSUME WireInit
             PROVE  ReplyIsText /\ UndamagedArrives
  OBVIOUS
<1>0. 0 \in Nat
  OBVIOUS
<1>1. ASSUME NEW r \in SentRequests, Send([request |-> r], Query(r))
      PROVE  ReplyIsText /\ UndamagedArrives
  <2>1. "request" \in DOMAIN sent /\ edits = 0
    BY <1>1 DEF Send
  <2> QED
    BY <1>0, <2>1 DEF ReplyIsText, UndamagedArrives
<1>2. ASSUME NEW r \in SentResponses, Send([response |-> r], Encode(Nesting, Payload(r)))
      PROVE  ReplyIsText /\ UndamagedArrives
  <2>1. sent = [response |-> r] /\ text = Encode(Nesting, Payload(r)) /\ edits = 0
    BY <1>2 DEF Send
  <2>2. text \in Texts /\ ParseReply(text) = {sent}
    BY <2>1, RepliesAreRead
  <2> QED
    BY <1>0, <2>1, <2>2 DEF ReplyIsText, UndamagedArrives
<1>3. ASSUME Send([failure |-> <<"reason">>], Encode(Nesting, FailurePayload(<<"reason">>)))
      PROVE  ReplyIsText /\ UndamagedArrives
  <2>1. /\ sent = [failure |-> <<"reason">>] /\ edits = 0
        /\ text = Encode(Nesting, FailurePayload(<<"reason">>))
    BY <1>3 DEF Send
  <2>2. text \in Texts /\ ParseReply(text) = {sent}
    BY <2>1, RepliesAreRead
  <2> QED
    BY <1>0, <2>1, <2>2 DEF ReplyIsText, UndamagedArrives
<1> QED
  BY <1>1, <1>2, <1>3 DEF WireInit

(* and damage keeps them.                                                  *)
LEMMA RepliesNext ==
    ReplyIsText /\ UndamagedArrives /\ [WireNext]_wireVars => ReplyIsText' /\ UndamagedArrives'
<1> SUFFICES ASSUME ReplyIsText, UndamagedArrives, [WireNext]_wireVars
             PROVE  ReplyIsText' /\ UndamagedArrives'
  OBVIOUS
<1>1. CASE Damage
  <2>1. PICK S : S = Range(Symbols)
    OBVIOUS
  <2>2. text \in Seq(S) /\ "request" \notin DOMAIN sent /\ Alphabet \subseteq S
    BY <1>1, <2>1, DamageIsOfSymbols DEF Damage, ReplyIsText, Texts
  <2>3. \/ \E k \in DOMAIN text, c \in Alphabet : text' = [text EXCEPT ![k] = c]
        \/ \E k \in 1..(Len(text) + 1), c \in Alphabet : text' = InsertAt(text, k, c)
        \/ \E k \in DOMAIN text : text' = RemoveAt(text, k)
    BY <1>1 DEF Damage
  <2>4. text' \in Seq(S)
    <3>1. CASE \E k \in DOMAIN text, c \in Alphabet : text' = [text EXCEPT ![k] = c]
      <4>1. PICK k \in DOMAIN text, c \in S : text' = [text EXCEPT ![k] = c]
        BY <2>2, <3>1
      <4> QED
        BY <2>2, <4>1, DamagedTexts
    <3>2. CASE \E k \in 1..(Len(text) + 1), c \in Alphabet : text' = InsertAt(text, k, c)
      <4>1. PICK k \in 1..(Len(text) + 1), c \in S : text' = InsertAt(text, k, c)
        BY <2>2, <3>2
      <4> QED
        BY <2>2, <4>1, DamagedTexts
    <3>3. CASE \E k \in DOMAIN text : text' = RemoveAt(text, k)
      BY <2>2, <3>3, ShortenedTexts
    <3> QED
      BY <2>3, <3>1, <3>2, <3>3
  <2>5. edits' = edits + 1 /\ edits' \in Nat /\ edits' # 0
    BY <1>1 DEF Damage, UndamagedArrives
  <2> QED
    BY <2>1, <2>4, <2>5 DEF ReplyIsText, UndamagedArrives, Texts
<1>2. CASE UNCHANGED wireVars
  <2>1. sent' = sent /\ text' = text /\ edits' = edits
    BY <1>2 DEF wireVars
  <2> QED
    BY <2>1 DEF ReplyIsText, UndamagedArrives
<1> QED
  BY <1>1, <1>2 DEF WireNext

(* A text without blanks, plus signs and underscores is one of plain       *)
(* symbols.                                                                *)
LEMMA PlainText ==
    ASSUME NEW s \in Texts, Range(s) \cap {"space", "+", "_"} = {}
    PROVE  s \in Seq(Plain)
<1>1. PICK S, P : S = Range(Symbols) /\ P = Plain
  OBVIOUS
<1>2. s \in Seq(S)
  BY <1>1 DEF Texts
<1>3. ASSUME NEW k \in 1..Len(s)
      PROVE  s[k] \in P
  <2>1. s[k] \in S /\ s[k] \in Range(s)
    BY <1>2, ElementOf
  <2> QED
    BY <1>1, <2>1 DEF Plain
<1>4. s \in Seq(P)
  BY <1>2, <1>3, InSubset
<1> QED
  BY <1>1, <1>4

(* Whatever has happened to a reply, the decoder of common/bencode.py      *)
(* takes it only if it is the text that the encoder writes for the value   *)
(* returned, numbers with blanks, plus signs or underscores apart.         *)
THEOREM DamagedRepliesAreCanonical == WireSpec => []DecoderIsCanonical
<1>1. WireInit => ReplyIsText /\ UndamagedArrives
  BY RepliesInit
<1>2. ReplyIsText /\ UndamagedArrives /\ [WireNext]_wireVars => ReplyIsText' /\ UndamagedArrives'
  BY RepliesNext
<1>3. ReplyIsText => DecoderIsCanonical
  <2> SUFFICES ASSUME ReplyIsText, "request" \notin DOMAIN sent, NEW v \in Decode(text),
                      Range(text) \cap {"space", "+", "_"} = {}
               PROVE  Encode(Len(text), v) = text
    BY DEF DecoderIsCanonical
  <2>1. text \in Texts
    BY DEF ReplyIsText
  <2>2. text \in Seq(Plain)
    BY <2>1, PlainText
  <2> QED
    BY <2>2, DecodedIsCanonical
<1> QED
  BY <1>1, <1>2, <1>3, PTL DEF WireSpec

-----------------------------------------------------------------------------
(* A response that one symbol of damage has changed is not read as a       *)
(* failure, nor a failure as a response.                                   *)
NumberSymbols == Ten \cup {"_", "space", "+", "-"}

(* int() takes nothing but these symbols.                                  *)
LEMMA NumbersAreOf ==
    ASSUME NEW S, NEW s \in Seq(S), NEW n \in PyInt(s), NEW k \in 1..Len(s)
    PROVE  s[k] \in NumberSymbols
<1>1. PICK t \in Seq(S) : t = Strip(s)
  BY StripFacts
<1>2. \A q \in Seq(Spread) : \A j \in 1..Len(q) : q[j] \in NumberSymbols
  <2>1. Spread \subseteq NumberSymbols
    BY DEF Spread, NumberSymbols
  <2> QED
    BY <2>1
<1>3. ASSUME NEW j \in 1..Len(t)
      PROVE  t[j] \in NumberSymbols
  <2>1. \/ Head(t) \in {"+", "-"} /\ Tail(t) \in Seq(Spread)
        \/ t \in Seq(Spread)
    BY <1>1, IntReads
  <2>2. CASE t \in Seq(Spread)
    BY <1>2, <2>2
  <2>3. CASE Head(t) \in {"+", "-"} /\ Tail(t) \in Seq(Spread)
    <3>1. t # <<>> /\ Len(t) \in Nat
      BY <1>1
    <3>2. /\ Len(Tail(t)) = Len(t) - 1 /\ Head(t) = t[1]
          /\ \A m \in 1..(Len(t) - 1) : Tail(t)[m] = t[m + 1]
      BY <3>1, TailFacts
    <3>3. CASE j = 1
      BY <2>3, <3>2, <3>3 DEF NumberSymbols
    <3>4. CASE j # 1
      <4>1. PICK m \in 1..(Len(t) - 1) : j = m + 1
        <5>1. j - 1 \in 1..(Len(t) - 1) /\ j = (j - 1) + 1
          BY <3>1, <3>4
        <5> QED
          BY <5>1
      <4>2. PICK q \in Seq(Spread) : q = Tail(t)
        BY <2>3
      <4>3. q[m] \in NumberSymbols
        BY <1>2, <3>2, <4>2
      <4> QED
        BY <3>2, <4>1, <4>2, <4>3
    <3> QED
      BY <3>3, <3>4
  <2> QED
    BY <2>1, <2>2, <2>3
<1>4. CASE s[k] = "space"
  BY <1>4 DEF NumberSymbols
<1>5. CASE s[k] # "space"
  <2>1. PICK j \in 1..Len(t) : t[j] = s[k]
    BY <1>1, <1>5, StripFacts
  <2> QED
    BY <1>3, <2>1
<1> QED
  BY <1>4, <1>5

(* The items that a dictionary is read from.                               *)
AreItems(data, i, x) ==
    /\ x.value \in Seq(Range(x.value))
    /\ i + 2 * Len(x.value) + 1 <= x.next

(* An item takes at least two symbols, and the end one more.               *)
LEMMA ItemsAreListed ==
    ASSUME NEW S, NEW data \in Seq(S), NEW i \in 1..(Len(data) + 1)
    PROVE  \A x \in Parser(data)[i]["dict"] : AreItems(data, i, x)
<1>0. PICK len \in Nat : len = Len(data)
  OBVIOUS
<1>1. PICK g : g = Parser(data)
  OBVIOUS
<1>2. /\ Advances(data, g, 1)
      /\ \A j \in 1..(len + 1) :
            /\ g[j]["value"] = ParseValue(data, g, j)
            /\ g[j]["dict"] = ParseDictionary(data, g, j)
  BY <1>0, <1>1, ParserFacts
<1> DEFINE T == {k \in 0..len : \A j \in 1..(len + 1) :
                    len + 1 - j <= k => \A x \in g[j]["dict"] : AreItems(data, j, x)}
<1>3. 0 \in T
  <2>1. len + 1 > Len(data) /\ len + 1 \in 1..(len + 1)
    BY <1>0
  <2>2. g[len + 1]["dict"] = {}
    BY <1>2, <2>1, DictionaryParsed
  <2>3. \A j \in 1..(len + 1) : len + 1 - j <= 0 => j = len + 1
    OBVIOUS
  <2> QED
    BY <2>2, <2>3
<1>4. ASSUME NEW k \in 1..len, k - 1 \in T
      PROVE  k \in T
  <2>1. \A j \in 1..(len + 1) : len + 1 - j <= k - 1 => \A x \in g[j]["dict"] : AreItems(data, j, x)
    BY <1>4
  <2>2. ASSUME NEW j \in 1..(len + 1), len + 1 - j <= k, NEW x \in g[j]["dict"]
        PROVE  AreItems(data, j, x)
    <3>1. x \in ParseDictionary(data, g, j)
      BY <1>2, <2>2
    <3>2. ~(j > Len(data)) /\ j <= len /\ j \in Nat
      <4>1. ~(j > Len(data))
        BY <3>1, DictionaryParsed
      <4> QED
        BY <1>0, <4>1
    <3>3. CASE data[j] = "e"
      <4>1. x = Parsed(<<>>, j + 1)
        BY <3>1, <3>2, <3>3, DictionaryParsed
      <4>2. x.value = <<>> /\ x.next = j + 1
        BY <4>1, ParsedFacts
      <4>3. <<>> \in Seq(Range(<<>>)) /\ Len(<<>>) = 0
        OBVIOUS
      <4>4. j + 2 * 0 + 1 <= j + 1
        BY <3>2
      <4> QED
        BY <4>2, <4>3, <4>4 DEF AreItems
    <3>4. CASE data[j] # "e"
      <4>1. StartsWithItem(data, g, j, x)
        BY <3>1, <3>2, <3>4, DictionaryParsed
      <4>2. PICK key \in ParseValue(data, g, j) :
               \E item \in g[key.next]["value"] : \E rest \in g[item.next]["dict"] :
                  x = Parsed(<<[key |-> key.value.bytes, value |-> item.value]>>
                                \o rest.value, rest.next)
        BY <4>1, Zenon DEF StartsWithItem
      <4>3. PICK item \in g[key.next]["value"] : \E rest \in g[item.next]["dict"] :
               x = Parsed(<<[key |-> key.value.bytes, value |-> item.value]>> \o rest.value, rest.next)
        BY <4>2
      <4>4. PICK rest \in g[item.next]["dict"] :
               x = Parsed(<<[key |-> key.value.bytes, value |-> item.value]>> \o rest.value, rest.next)
        BY <4>3
      <4>5. PICK a \in (j + 1)..(len + 1) : a = key.next
        <5>1. Advances(data, g, j + 1)
          <6>1. (j + 1)..(Len(data) + 1) \subseteq 1..(Len(data) + 1)
            OBVIOUS
          <6> QED
            BY <1>2, <6>1 DEF Advances
        <5>2. key.next \in (j + 1)..(Len(data) + 1)
          BY <1>0, <5>1, ValuesAdvance
        <5> QED
          BY <1>0, <5>2
      <4>6. PICK b \in (a + 1)..(len + 1) : b = item.next
        <5>1. item.next \in (a + 1)..(Len(data) + 1)
          <6>1. a \in 1..(Len(data) + 1)
            BY <1>0
          <6> QED
            BY <1>2, <4>3, <4>5, <6>1 DEF Advances, Parts
        <5> QED
          BY <1>0, <5>1
      <4>7. AreItems(data, b, rest)
        <5>1. b \in 1..(len + 1) /\ len + 1 - b <= k - 1
          BY <2>2
        <5> QED
          BY <2>1, <4>4, <4>6, <5>1
      <4>8. PICK first, s : /\ first = [key |-> key.value.bytes, value |-> item.value]
                            /\ s = rest.value
        OBVIOUS
      <4>9. x = Parsed(Prepend(first, s), rest.next)
        BY <4>4, <4>8 DEF Prepend
      <4>10. x.value = Prepend(first, s) /\ x.next = rest.next
        BY <4>9, ParsedFacts
      <4>11. s \in Seq(Range(s)) /\ b + 2 * Len(s) + 1 <= rest.next
        BY <4>7, <4>8 DEF AreItems
      <4>12. PICK U : U = {first} \cup Range(s)
        OBVIOUS
      <4>13. s \in Seq(U) /\ first \in U
        <5>1. Range(s) \subseteq U /\ first \in U
          BY <4>12
        <5> QED
          BY <4>11, <5>1
      <4>14. PICK t \in Seq(U) : t = Prepend(first, s) /\ Len(t) = Len(s) + 1
        BY <4>13, Prepended
      <4>15. Range(t) = U
        BY <4>12, <4>13, <4>14, RangeOfPrepended
      <4>16. j + 2 * Len(t) + 1 <= rest.next
        <5>1. PICK n \in Nat : n = Len(s) /\ Len(t) = n + 1
          BY <4>13, <4>14
        <5>2. j + 2 <= b
          OBVIOUS
        <5>3. rest.next \in Int
          <6>1. rest.next \in (b + 1)..(Len(data) + 1)
            <7>1. b \in 1..(Len(data) + 1)
              BY <1>0
            <7> QED
              BY <1>2, <4>4, <4>6, <7>1 DEF Advances, Parts
          <6> QED
            BY <6>1
        <5>4. PICK r \in Int : r = rest.next
          BY <5>3
        <5>5. b + 2 * n + 1 <= r
          BY <4>11, <5>1, <5>4
        <5>6. j \in Int /\ b \in Int /\ n \in Int /\ r \in Int
          BY <5>1, <5>4
        <5>7. j + 2 * (n + 1) + 1 <= r
          BY ONLY <5>2, <5>5, <5>6
        <5> QED
          BY <5>1, <5>4, <5>7
      <4> QED
        BY <4>10, <4>14, <4>15, <4>16 DEF AreItems
    <3> QED
      BY <3>3, <3>4
  <2> QED
    BY <2>2
<1> HIDE DEF T
<1>5. 0..len \subseteq T
  BY <1>3, <1>4, Induction
<1>6. len \in T /\ i \in 1..(len + 1) /\ len + 1 - i <= len
  BY <1>0, <1>5
<1> QED
  BY <1>1, <1>6 DEF T

(* A sequence has finitely many elements.                                  *)
LEMMA RangeIsFinite ==
    ASSUME NEW S, NEW s \in Seq(S)
    PROVE  IsFiniteSet(Range(s))
<1>1. PICK n \in Nat : n = Len(s) /\ DOMAIN s = 1..n
  <2>1. Len(s) \in Nat /\ DOMAIN s = 1..Len(s)
    OBVIOUS
  <2> QED
    BY <2>1
<1>2. IsFiniteSet(1..n)
  BY FS_Interval
<1>3. s \in Surjection(1..n, Range(s))
  <2>1. s = [k \in 1..n |-> s[k]]
    BY <1>1
  <2>2. \A k \in 1..n : s[k] \in Range(s)
    BY <1>1 DEF Range
  <2>3. s \in [1..n -> Range(s)]
    BY <2>1, <2>2
  <2>4. \A x \in Range(s) : \E k \in 1..n : s[k] = x
    BY <1>1 DEF Range
  <2> QED
    BY <2>3, <2>4 DEF Surjection
<1> QED
  BY <1>2, <1>3, FS_Surjection

(* A text that is decoded to a dictionary is a "d" and its items.          *)
LEMMA DictionaryDecoded ==
    ASSUME NEW S, NEW data \in Seq(S), NEW v \in Decode(data), "dict" \in DOMAIN v
    PROVE  /\ 1 \in 1..Len(data) /\ data[1] = "d"
           /\ \E x \in Parser(data)[2]["dict"] : v = [dict |-> Range(x.value)] /\ x.next = Len(data) + 1
<1>0. PICK len \in Nat : len = Len(data)
  OBVIOUS
<1>1. PICK g : g = Parser(data)
  OBVIOUS
<1>2. PICK p \in g[1]["value"] : p.next = len + 1 /\ v = p.value
  BY <1>0, <1>1 DEF Decode
<1>3. p \in ParseValue(data, g, 1)
  <2>1. 1 \in 1..(len + 1)
    OBVIOUS
  <2> QED
    BY <1>0, <1>1, <1>2, <2>1, ParserFacts
<1>4. ~(1 > Len(data)) /\ 1 \in 1..Len(data)
  <2>1. ~(1 > Len(data))
    BY <1>3, ParseValueAt
  <2> QED
    BY <1>0, <2>1
<1>5. data[1] # "i"
  <2> SUFFICES ASSUME data[1] = "i"
               PROVE  FALSE
    OBVIOUS
  <2>1. p \in ParseInteger(data, 1)
    BY <1>3, <1>4, ParseValueAt
  <2>2. IsInteger(data, 1, p)
    BY <2>1, IntegerParsed
  <2>3. PICK n, m : p = Parsed([int |-> n], m)
    BY <2>2, Zenon DEF IsInteger
  <2>4. v = [int |-> n]
    BY <1>2, <2>3, ParsedFacts
  <2> QED
    BY <2>4
<1>6. data[1] # "l"
  <2> SUFFICES ASSUME data[1] = "l"
               PROVE  FALSE
    OBVIOUS
  <2>1. PICK rest : p = Parsed([list |-> rest.value], rest.next)
    BY <1>3, <1>4, ParseValueAt
  <2>2. v = [list |-> rest.value]
    BY <1>2, <2>1, ParsedFacts
  <2> QED
    BY <2>2
<1>7. data[1] \notin Ten
  <2> SUFFICES ASSUME data[1] \in Ten
               PROVE  FALSE
    OBVIOUS
  <2>1. p \in ParseBytes(data, 1)
    BY <1>3, <1>4, ParseValueAt
  <2>2. AreBytes(data, 1, p)
    BY <2>1, BytesParsed
  <2>3. PICK s, m : p = Parsed([bytes |-> s], m)
    BY <2>2, Zenon DEF AreBytes
  <2>4. v = [bytes |-> s]
    BY <1>2, <2>3, ParsedFacts
  <2> QED
    BY <2>4
<1>8. data[1] = "d"
  <2>1. data[1] \notin {"i", "l", "d"} \cup Ten => ParseValue(data, g, 1) = {}
    BY <1>4, ParseValueAt
  <2> QED
    BY <1>3, <1>5, <1>6, <1>7, <2>1
<1>9. PICK rest \in g[2]["dict"] : p = Parsed([dict |-> Range(rest.value)], rest.next)
  <2>1. ParseValue(data, g, 1) =
           {Parsed([dict |-> Range(rest.value)], rest.next) : rest \in g[1 + 1]["dict"]}
    BY <1>4, <1>8, ParseValueAt
  <2>2. 1 + 1 = 2
    OBVIOUS
  <2> QED
    BY <1>3, <2>1, <2>2
<1>10. v = [dict |-> Range(rest.value)] /\ rest.next = len + 1
  BY <1>2, <1>9, ParsedFacts
<1> QED
  BY <1>0, <1>1, <1>4, <1>8, <1>9, <1>10

(* A failure has one item; whatever else is accepted is a response.        *)
LEMMA InterpretFacts ==
    ASSUME NEW d, NEW m \in Interpret(d)
    PROVE  \/ /\ DOMAIN m = {"failure"} /\ Has(d, "failure_reason") /\ Cardinality(d) = 1
              /\ HasText(d, "failure_reason")
           \/ DOMAIN m = {"response"} /\ IsResponse(d)
<1>1. CASE Has(d, "failure_reason")
  <2>1. Cardinality(d) = 1 /\ HasText(d, "failure_reason")
    BY <1>1 DEF Interpret
  <2>2. m = [failure |-> Get(d, "failure_reason").bytes]
    BY <1>1, <2>1 DEF Interpret
  <2> QED
    BY <1>1, <2>1, <2>2
<1>2. CASE ~Has(d, "failure_reason")
  <2>1. IsResponse(d)
    BY <1>2 DEF Interpret
  <2>2. m = [response |-> ResponseOf(d)]
    BY <1>2, <2>1 DEF Interpret
  <2> QED
    BY <2>1, <2>2
<1> QED
  BY <1>1, <1>2

(* What every failure begins with: its only key, and the length of its     *)
(* value.                                                                  *)
LooksLikeFailure(data) ==
    \E colon \in 3..(Len(data) - 2) :
        /\ data[1] = "d"
        /\ \A j \in 2..(colon - 1) : data[j] \in NumberSymbols
        /\ data[colon] = ":" /\ data[colon + 1] = "failure_reason" /\ data[colon + 2] \in Ten

(* What is read as a response has four items, which take ten symbols.      *)
LEMMA ReadAsResponse ==
    ASSUME NEW S, NEW data \in Seq(S), NEW m \in ParseReply(data), DOMAIN m # {"failure"}
    PROVE  DOMAIN m = {"response"} /\ Len(data) >= 10
<1>0. PICK len \in Nat : len = Len(data)
  OBVIOUS
<1>1. PICK v \in Decode(data) : "dict" \in DOMAIN v /\ m \in Interpret(v.dict)
  BY DEF ParseReply
<1>2. PICK x \in Parser(data)[2]["dict"] : v = [dict |-> Range(x.value)] /\ x.next = len + 1
  BY <1>0, <1>1, DictionaryDecoded
<1>3. PICK d : d = Range(x.value) /\ v.dict = d
  BY <1>2
<1>4. DOMAIN m = {"response"} /\ IsResponse(d)
  BY <1>1, <1>3, InterpretFacts
<1>5. AreItems(data, 2, x)
  <2>1. 2 \in 1..(Len(data) + 1)
    BY <1>0, <1>1, DictionaryDecoded
  <2> QED
    BY <1>2, <2>1, ItemsAreListed
<1>6. PICK s : s = x.value /\ s \in Seq(d)
  BY <1>3, <1>5 DEF AreItems
<1>7. PICK n \in Nat : n = Len(s) /\ DOMAIN s = 1..n
  <2>1. Len(s) \in Nat /\ DOMAIN s = 1..Len(s)
    BY <1>6
  <2> QED
    BY <2>1
<1>8. 2 + 2 * n + 1 <= len + 1
  BY <1>2, <1>5, <1>6, <1>7 DEF AreItems
<1>9. \A name : Has(d, name) => \E k \in 1..n : s[k].key = <<name>>
  BY <1>3, <1>6, <1>7 DEF Has, Range
<1>10. Has(d, "interval") /\ Has(d, "complete") /\ Has(d, "incomplete") /\ Has(d, "peers")
  BY <1>4 DEF IsResponse, HasInt
<1>11. PICK a \in 1..n, b \in 1..n, c \in 1..n, e \in 1..n :
          /\ s[a].key = <<"interval">> /\ s[b].key = <<"complete">>
          /\ s[c].key = <<"incomplete">> /\ s[e].key = <<"peers">>
  BY <1>9, <1>10
<1>12. a # b /\ a # c /\ a # e /\ b # c /\ b # e /\ c # e
  <2>1. \A y, z : <<y>> = <<z>> => y = z
    OBVIOUS
  <2> QED
    BY <1>11, <2>1
<1>13. n >= 4
  BY <1>12
<1> QED
  BY <1>0, <1>4, <1>8, <1>13

(* What is read as a failure looks like one.                               *)
LEMMA ReadAsFailure ==
    ASSUME NEW S, NEW data \in Seq(S), NEW m \in ParseReply(data), DOMAIN m # {"response"}
    PROVE  DOMAIN m = {"failure"} /\ LooksLikeFailure(data)
<1>0. PICK len \in Nat : len = Len(data)
  OBVIOUS
<1>1. PICK v \in Decode(data) : "dict" \in DOMAIN v /\ m \in Interpret(v.dict)
  BY DEF ParseReply
<1>2. 1 \in 1..Len(data) /\ data[1] = "d" /\ 2 \in 1..(len + 1)
  <2>1. 1 \in 1..Len(data) /\ data[1] = "d"
    BY <1>1, DictionaryDecoded
  <2> QED
    BY <1>0, <2>1
<1>3. PICK g : g = Parser(data)
  OBVIOUS
<1>4. PICK x \in g[2]["dict"] : v = [dict |-> Range(x.value)] /\ x.next = len + 1
  BY <1>0, <1>1, <1>3, DictionaryDecoded
<1>5. PICK d : d = Range(x.value) /\ v.dict = d
  BY <1>4
<1>6. /\ DOMAIN m = {"failure"} /\ Has(d, "failure_reason") /\ Cardinality(d) = 1
      /\ HasText(d, "failure_reason")
  BY <1>1, <1>5, InterpretFacts
<1>7. /\ Advances(data, g, 1)
      /\ \A j \in 1..(len + 1) :
            /\ g[j]["value"] = ParseValue(data, g, j) /\ g[j]["dict"] = ParseDictionary(data, g, j)
  BY <1>0, <1>3, ParserFacts
<1>8. x \in ParseDictionary(data, g, 2)
  BY <1>2, <1>4, <1>7
<1>9. ~(2 > Len(data)) /\ 2 \in 1..len
  <2>1. ~(2 > Len(data))
    BY <1>8, DictionaryParsed
  <2> QED
    BY <1>0, <2>1
<1>10. data[2] # "e"
  <2> SUFFICES ASSUME data[2] = "e"
               PROVE  FALSE
    OBVIOUS
  <2>1. x = Parsed(<<>>, 2 + 1)
    BY <1>8, <1>9, DictionaryParsed
  <2>2. x.value = <<>>
    BY <2>1, ParsedFacts
  <2>3. d = {}
    BY <1>5, <2>2 DEF Range
  <2> QED
    BY <1>6, <2>3 DEF Has
<1>11. StartsWithItem(data, g, 2, x)
  BY <1>8, <1>9, <1>10, DictionaryParsed
<1>12. PICK key \in ParseValue(data, g, 2) :
          /\ "bytes" \in DOMAIN key.value
          /\ \E item \in g[key.next]["value"] : \E rest \in g[item.next]["dict"] :
                x = Parsed(<<[key |-> key.value.bytes, value |-> item.value]>> \o rest.value, rest.next)
  BY <1>11, Zenon DEF StartsWithItem
<1>13. PICK item \in g[key.next]["value"] : \E rest \in g[item.next]["dict"] :
          x = Parsed(<<[key |-> key.value.bytes, value |-> item.value]>> \o rest.value, rest.next)
  BY <1>12
<1>14. PICK rest \in g[item.next]["dict"] :
          x = Parsed(<<[key |-> key.value.bytes, value |-> item.value]>> \o rest.value, rest.next)
  BY <1>13
<1>15. PICK a \in 3..(len + 1) : a = key.next
  <2>1. Advances(data, g, 2 + 1)
    BY <1>7 DEF Advances
  <2>2. key.next \in (2 + 1)..(Len(data) + 1)
    BY <1>0, <1>2, <2>1, ValuesAdvance
  <2> QED
    BY <1>0, <2>2
<1>16. item.next \in 1..(len + 1)
  <2>1. item.next \in (a + 1)..(Len(data) + 1)
    <3>1. a \in 1..(Len(data) + 1)
      BY <1>0
    <3> QED
      BY <1>7, <1>13, <1>15, <3>1 DEF Advances, Parts
  <2> QED
    BY <1>0, <2>1
<1>17. PICK first, s : first = [key |-> key.value.bytes, value |-> item.value] /\ s = rest.value
  OBVIOUS
<1>18. x.value = Prepend(first, s)
  <2>1. x = Parsed(Prepend(first, s), rest.next)
    BY <1>14, <1>17 DEF Prepend
  <2> QED
    BY <2>1, ParsedFacts
<1>19. s \in Seq(Range(s))
  BY <1>0, <1>3, <1>14, <1>16, <1>17, ItemsAreListed DEF AreItems
<1>20. d = {first} \cup Range(s)
  <2>1. PICK U : U = {first} \cup Range(s)
    OBVIOUS
  <2>2. first \in U /\ Range(s) \subseteq U
    BY <2>1
  <2>3. s \in Seq(U)
    BY <1>19, <2>2
  <2>4. Range(Prepend(first, s)) = {first} \cup Range(s)
    BY <2>2, <2>3, RangeOfPrepended
  <2> QED
    BY <1>5, <1>18, <2>4
<1>21. d = {first}
  <2>1. IsFiniteSet(Range(s))
    BY <1>19, RangeIsFinite
  <2>2. IsFiniteSet(d)
    BY <1>20, <2>1, FS_Singleton, FS_Union
  <2>3. PICK only : d = {only}
    BY <1>6, <2>2, FS_Singleton
  <2> QED
    BY <1>20, <2>3
<1>22. first.key = <<"failure_reason">> /\ "bytes" \in DOMAIN first.value
  <2>1. first.key = <<"failure_reason">>
    BY <1>6, <1>21 DEF Has
  <2>2. Get(d, "failure_reason") = first.value
    BY <1>21, <2>1 DEF Get
  <2> QED
    BY <1>6, <2>1, <2>2 DEF HasText
<1>23. key.value.bytes = <<"failure_reason">> /\ "bytes" \in DOMAIN item.value
  BY <1>17, <1>22
<1>24. data[2] \in Ten /\ key \in ParseBytes(data, 2)
  BY <1>0, <1>2, <1>12, BytesBegin
<1>25. AreBytes(data, 2, key)
  BY <1>24, BytesParsed
<1>26. PICK colon \in 2..len : \E n \in PyInt(SubSeq(data, 2, colon - 1)) :
          /\ data[colon] = ":" /\ colon + n <= len
          /\ key = Parsed([bytes |-> SubSeq(data, colon + 1, colon + n)], colon + n + 1)
  BY <1>0, <1>25, Zenon DEF AreBytes
<1>27. PICK n \in PyInt(SubSeq(data, 2, colon - 1)) :
          /\ data[colon] = ":" /\ colon + n <= len
          /\ key = Parsed([bytes |-> SubSeq(data, colon + 1, colon + n)], colon + n + 1)
  BY <1>26
<1>28. colon \in 3..len /\ colon \in Nat /\ colon - 1 \in Nat
  <2>1. colon # 2
    BY <1>24, <1>27 DEF Ten
  <2> QED
    BY <2>1
<1>29. /\ SubSeq(data, 2, colon - 1) \in Seq(S) /\ Len(SubSeq(data, 2, colon - 1)) = (colon - 1) - 2 + 1
       /\ \A k \in 1..((colon - 1) - 2 + 1) : SubSeq(data, 2, colon - 1)[k] = data[2 + k - 1]
  <2>1. 2 \in Nat /\ 1 <= 2 /\ 2 <= (colon - 1) + 1 /\ colon - 1 <= Len(data)
    BY <1>0, <1>28
  <2> QED
    BY <1>28, <2>1, SubSeqFacts
<1>30. PICK raw \in Seq(S) : raw = SubSeq(data, 2, colon - 1)
  BY <1>29
<1>31. Len(raw) = colon - 2 /\ \A k \in 1..(colon - 2) : raw[k] = data[k + 1]
  BY <1>28, <1>29, <1>30
<1>32. \A j \in 2..(colon - 1) : data[j] \in NumberSymbols
  <2> TAKE j \in 2..(colon - 1)
  <2>1. PICK k \in 1..(colon - 2) : j = k + 1
    <3>1. j - 1 \in 1..(colon - 2) /\ j = (j - 1) + 1
      BY <1>28
    <3> QED
      BY <3>1
  <2>2. raw[k] \in NumberSymbols
    BY <1>27, <1>30, <1>31, NumbersAreOf
  <2> QED
    BY <1>31, <2>1, <2>2
<1>33. n \in Nat
  <2>1. 1 \in 1..(colon - 2) /\ raw # <<>>
    BY <1>28, <1>31
  <2>2. raw[1] \in Ten
    BY <1>24, <1>31, <2>1
  <2> QED
    BY <1>27, <1>30, <2>1, <2>2, IntsAreIntegers
<1>34. key.value.bytes = SubSeq(data, colon + 1, colon + n) /\ key.next = colon + n + 1
  BY <1>27, ParsedFacts
<1>35. /\ Len(SubSeq(data, colon + 1, colon + n)) = (colon + n) - (colon + 1) + 1
       /\ \A k \in 1..((colon + n) - (colon + 1) + 1) :
             SubSeq(data, colon + 1, colon + n)[k] = data[(colon + 1) + k - 1]
  <2>1. /\ colon + 1 \in Nat /\ colon + n \in Nat /\ 1 <= colon + 1
        /\ colon + 1 <= (colon + n) + 1 /\ colon + n <= Len(data)
    BY <1>0, <1>27, <1>28, <1>33
  <2> QED
    BY <2>1, SubSeqFacts
<1>36. PICK name : name = SubSeq(data, colon + 1, colon + n) /\ name = <<"failure_reason">>
  BY <1>23, <1>34
<1>37. Len(name) = 1 /\ name[1] = "failure_reason"
  <2>1. PICK c : c = "failure_reason"
    OBVIOUS
  <2>2. Len(<<c>>) = 1 /\ <<c>>[1] = c
    OBVIOUS
  <2>3. name = <<c>>
    BY <1>36, <2>1
  <2> QED
    BY <2>1, <2>2, <2>3
<1>38. n = 1
  BY <1>28, <1>33, <1>35, <1>36, <1>37
<1>39. data[colon + 1] = "failure_reason"
  <2>1. 1 \in 1..((colon + n) - (colon + 1) + 1) /\ (colon + 1) + 1 - 1 = colon + 1
    BY <1>28, <1>38
  <2> QED
    BY <1>35, <1>36, <1>37, <2>1
<1>40. key.next = colon + 2
  BY <1>28, <1>34, <1>38
<1>41. colon + 2 \in 1..len /\ data[colon + 2] \in Ten
  <2>1. colon + 2 \in 1..(len + 1)
    BY <1>15, <1>40
  <2>2. item \in ParseValue(data, g, colon + 2)
    BY <1>7, <1>13, <1>40, <2>1
  <2> QED
    BY <1>0, <1>23, <2>1, <2>2, BytesBegin
<1>42. colon \in 3..(Len(data) - 2)
  BY <1>0, <1>28, <1>41
<1> QED
  BY <1>2, <1>6, <1>27, <1>32, <1>39, <1>41, <1>42 DEF LooksLikeFailure

(* The first symbols of every response.                                    *)
BeginsLikeResponse(s) ==
    /\ Len(s) >= 5
    /\ s[1] = "d" /\ s[2] = "1" /\ s[3] = ":" /\ s[4] = "complete" /\ s[5] = "i"

(* None of them but the first is part of a number.                         *)
LEMMA NoNumberSymbols ==
    /\ ":" \notin NumberSymbols /\ "complete" \notin NumberSymbols /\ "i" \notin NumberSymbols
    /\ "complete" \notin Ten /\ "i" \notin Ten
BY DEF NumberSymbols, Ten

(* One symbol changed, inserted or removed does not make a response a      *)
(* failure.                                                                *)
LEMMA ChangedResponse ==
    ASSUME NEW S, NEW s \in Seq(S), BeginsLikeResponse(s), NEW k \in DOMAIN s, NEW c \in S
    PROVE  ~LooksLikeFailure([s EXCEPT ![k] = c])
<1>1. PICK t : t = [s EXCEPT ![k] = c]
  OBVIOUS
<1>2. PICK len \in Nat : len = Len(s) /\ DOMAIN s = 1..len
  <2>1. Len(s) \in Nat /\ DOMAIN s = 1..Len(s)
    OBVIOUS
  <2> QED
    BY <2>1
<1>3. Len(t) = len /\ \A j \in 1..len : j # k => t[j] = s[j]
  BY <1>1, <1>2, SymbolChanged
<1>4. k \in 1..len /\ len >= 5 /\ s[3] = ":" /\ s[4] = "complete" /\ s[5] = "i"
  BY <1>2 DEF BeginsLikeResponse
<1>5. ASSUME NEW colon \in 3..(len - 2), t[colon] = ":", t[colon + 1] = "failure_reason",
             t[colon + 2] \in Ten, \A j \in 2..(colon - 1) : t[j] \in NumberSymbols
      PROVE  FALSE
  <2>1. CASE colon = 3
    <3>1. k = 4
      BY <1>3, <1>4, <1>5, <2>1
    <3> QED
      BY <1>3, <1>4, <1>5, <2>1, <3>1, NoNumberSymbols
  <2>2. CASE colon > 3
    <3>1. t[3] \in NumberSymbols
      BY <1>5, <2>2
    <3>2. k = 3
      BY <1>3, <1>4, <3>1, NoNumberSymbols
    <3>3. t[4] = "complete"
      BY <1>3, <1>4, <3>2
    <3>4. colon # 4 /\ (colon > 4 => t[4] \in NumberSymbols)
      BY <1>5, <3>3
    <3> QED
      BY <2>2, <3>3, <3>4, NoNumberSymbols
  <2> QED
    BY <2>1, <2>2
<1> QED
  BY <1>1, <1>3, <1>5 DEF LooksLikeFailure

(* Nor does it when a symbol is put in.                                    *)
LEMMA LongerResponse ==
    ASSUME NEW S, NEW s \in Seq(S), BeginsLikeResponse(s), NEW k \in 1..(Len(s) + 1), NEW c \in S
    PROVE  ~LooksLikeFailure(InsertAt(s, k, c))
<1>1. PICK t : t = InsertAt(s, k, c)
  OBVIOUS
<1>2. PICK len \in Nat : len = Len(s)
  OBVIOUS
<1>3. /\ Len(t) = len + 1
      /\ \A j \in 1..(len + 1) : (j < k => t[j] = s[j]) /\ (j > k => t[j] = s[j - 1])
  BY <1>1, <1>2, SymbolInserted
<1>4. k \in 1..(len + 1) /\ len >= 5 /\ s[3] = ":" /\ s[4] = "complete" /\ s[5] = "i"
  BY <1>2 DEF BeginsLikeResponse
<1>5. /\ (4 < k => t[4] = "complete") /\ (4 > k => t[4] = ":")
      /\ (5 > k => t[5] = "complete") /\ (5 < k => t[5] = "i")
      /\ (6 > k => t[6] = "i")
  BY <1>3, <1>4
<1>6. ASSUME NEW colon \in 3..(len - 1), t[colon] = ":", t[colon + 1] = "failure_reason",
             t[colon + 2] \in Ten, \A j \in 2..(colon - 1) : t[j] \in NumberSymbols
      PROVE  FALSE
  <2>1. CASE colon = 3
    <3>1. k = 4
      BY <1>4, <1>5, <1>6, <2>1
    <3>2. t[5] \in Ten
      BY <1>6, <2>1
    <3> QED
      BY <1>5, <3>1, <3>2, NoNumberSymbols
  <2>2. CASE colon = 4
    <3>1. t[4] = ":" /\ t[5] = "failure_reason" /\ t[6] \in Ten
      BY <1>6, <2>2
    <3>2. k = 5
      BY <1>4, <1>5, <3>1
    <3> QED
      BY <1>5, <3>1, <3>2, NoNumberSymbols
  <2>3. CASE colon > 4
    <3>1. t[4] \in NumberSymbols
      BY <1>6, <2>3
    <3>2. k = 4
      BY <1>4, <1>5, <3>1, NoNumberSymbols
    <3>3. t[5] = "complete"
      BY <1>5, <3>2
    <3>4. colon # 5 /\ (colon > 5 => t[5] \in NumberSymbols)
      BY <1>6, <3>3
    <3> QED
      BY <2>3, <3>3, <3>4, NoNumberSymbols
  <2> QED
    BY <2>1, <2>2, <2>3
<1>7. (len + 1) - 2 = len - 1
  OBVIOUS
<1> QED
  BY <1>1, <1>3, <1>6, <1>7 DEF LooksLikeFailure

(* Nor when one is taken out.                                              *)
LEMMA ShorterResponse ==
    ASSUME NEW S, NEW s \in Seq(S), BeginsLikeResponse(s), NEW k \in DOMAIN s
    PROVE  ~LooksLikeFailure(RemoveAt(s, k))
<1>1. PICK t : t = RemoveAt(s, k)
  OBVIOUS
<1>2. PICK len \in Nat : len = Len(s) /\ DOMAIN s = 1..len
  <2>1. Len(s) \in Nat /\ DOMAIN s = 1..Len(s)
    OBVIOUS
  <2> QED
    BY <2>1
<1>3. /\ Len(t) = len - 1
      /\ \A j \in 1..(len - 1) : (j < k => t[j] = s[j]) /\ (j >= k => t[j] = s[j + 1])
  BY <1>1, <1>2, SymbolRemoved
<1>4. k \in 1..len /\ len >= 5 /\ s[3] = ":" /\ s[4] = "complete" /\ s[5] = "i"
  BY <1>2 DEF BeginsLikeResponse
<1>5. (3 < k => t[3] = ":") /\ (3 >= k => t[3] = "complete")
      /\ (4 < k => t[4] = "complete") /\ (4 >= k => t[4] = "i")
  BY <1>3, <1>4
<1>6. ASSUME NEW colon \in 3..(len - 3), t[colon] = ":", t[colon + 1] = "failure_reason",
             t[colon + 2] \in Ten, \A j \in 2..(colon - 1) : t[j] \in NumberSymbols
      PROVE  FALSE
  <2>1. colon = 3 => t[4] = "failure_reason"
    BY <1>6
  <2>2. colon = 4 => t[4] = ":"
    BY <1>6
  <2>3. colon > 4 => t[4] \in NumberSymbols
    BY <1>6
  <2>4. t[4] \in {"complete", "i"}
    BY <1>4, <1>5
  <2> QED
    BY <2>1, <2>2, <2>3, <2>4, NoNumberSymbols
<1>7. (len - 1) - 2 = len - 3
  OBVIOUS
<1> QED
  BY <1>1, <1>3, <1>6, <1>7 DEF LooksLikeFailure

(* The encoding of bytes that are one symbol.                              *)
LEMMA NamedBytes ==
    ASSUME NEW c \in Range(Symbols)
    PROVE  /\ EncodeBytes(<<c>>) \in Texts /\ Len(EncodeBytes(<<c>>)) = 3
           /\ EncodeBytes(<<c>>)[1] = "1" /\ EncodeBytes(<<c>>)[2] = ":" /\ EncodeBytes(<<c>>)[3] = c
<1>1. PICK S : S = Range(Symbols) /\ Texts = Seq(S)
  BY DEF Texts
<1>2. PICK one \in Seq(S) : one = <<c>>
  <2>1. c \in S
    BY <1>1
  <2>2. <<c>> \in Seq(S)
    BY ONLY <2>1
  <2> QED
    BY <2>2
<1>3. PICK a \in Seq(S), colon \in Seq(S) : a = <<"1">> /\ colon = <<":">>
  BY <1>1, SymbolTexts DEF Ten
<1>4. /\ Len(one) = 1 /\ one[1] = c /\ Len(a) = 1 /\ a[1] = "1"
      /\ Len(colon) = 1 /\ colon[1] = ":"
  BY <1>2, <1>3, OneSymbol
<1>5. Decimal(1) = a
  <2>1. 1 \in Nat /\ 1 < 10 /\ Digits[1 + 1] = "1"
    BY DEF Digits
  <2> QED
    BY <1>3, <2>1, DecimalSteps
<1>6. PICK ac \in Seq(S) : ac = a \o colon
  BY ConcatFacts
<1>7. PICK t \in Seq(S) : t = ac \o one
  BY ConcatFacts
<1>8. Len(ac) = 2 /\ ac[1] = "1" /\ ac[2] = ":"
  <2>1. /\ Len(ac) = Len(a) + Len(colon) /\ \A k \in 1..Len(a) : ac[k] = a[k]
        /\ \A k \in 1..Len(colon) : ac[Len(a) + k] = colon[k]
    BY <1>6, ConcatFacts
  <2>2. 1 \in 1..Len(a) /\ 1 \in 1..Len(colon) /\ Len(a) + 1 = 2
    BY <1>4
  <2> QED
    BY <1>4, <2>1, <2>2
<1>9. Len(t) = 3 /\ t[1] = "1" /\ t[2] = ":" /\ t[3] = c
  <2>1. /\ Len(t) = Len(ac) + Len(one) /\ \A k \in 1..Len(ac) : t[k] = ac[k]
        /\ \A k \in 1..Len(one) : t[Len(ac) + k] = one[k]
    BY <1>7, ConcatFacts
  <2>2. 1 \in 1..Len(ac) /\ 2 \in 1..Len(ac) /\ 1 \in 1..Len(one) /\ Len(ac) + 1 = 3
    BY <1>4, <1>8
  <2> QED
    BY <1>4, <1>8, <2>1, <2>2
<1>10. EncodeBytes(<<c>>) = t
  <2>1. EncodeBytes(one) = Decimal(Len(one)) \o colon \o one
    BY <1>3 DEF EncodeBytes
  <2> QED
    BY <1>2, <1>4, <1>5, <1>6, <1>7, <2>1
<1> QED
  BY <1>1, <1>9, <1>10

(* Every response that is sent begins like one.                            *)
LEMMA ResponseBegins ==
    ASSUME NEW r \in Responses
    PROVE  BeginsLikeResponse(Encode(Nesting, Payload(r)))
<1>1. PICK n \in Nat : n = r.complete
  BY ResponseFacts
<1>2. PICK data : data = Encode(Nesting, Payload(r)) /\ BeginsWithComplete(data, n)
  BY <1>1, PayloadRoundTrips
<1>3. PICK t \in Texts : data = <<"d">> \o ((EncodeBytes(<<"complete">>) \o IntText(n)) \o t)
  BY <1>2, Zenon DEF BeginsWithComplete
<1>4. PICK a \in Texts : a = <<"d">> /\ Len(a) = 1 /\ a[1] = "d"
  <2>1. PICK a \in Texts : a = <<"d">>
    BY SymbolTexts
  <2>2. Len(a) = 1 /\ a[1] = "d"
    BY <2>1, OneSymbol
  <2> QED
    BY <2>1, <2>2
<1>5. PICK b \in Texts : b = EncodeBytes(<<"complete">>) /\ Len(b) = 3 /\ b[1] = "1" /\ b[2] = ":" /\ b[3] = "complete"
  BY ResponsesAreLegal, NamedBytes
<1>6. PICK q \in Texts : q = IntText(n) /\ Len(q) \in Nat \ {0} /\ q[1] = "i"
  <2>1. IntText(n) \in Texts
    BY IntegerReadsBack
  <2>2. PICK S : S = Range(Symbols) /\ Texts = Seq(S)
    BY DEF Texts
  <2>3. PICK d \in Seq(S) : d = Decimal(n)
    BY <2>2, DecimalFacts, SymbolTexts DEF IsNumeral
  <2>4. PICK m \in Seq(S), e \in Seq(S) : m = <<"i">> /\ e = <<"e">>
    BY <2>2, SymbolTexts
  <2>5. Len(m) = 1 /\ m[1] = "i"
    BY <2>4, OneSymbol
  <2>6. PICK md \in Seq(S) : md = m \o d
    BY ConcatFacts
  <2>7. Len(md) \in Nat \ {0} /\ md[1] = "i"
    <3>1. Len(md) = Len(m) + Len(d) /\ \A k \in 1..Len(m) : md[k] = m[k]
      BY <2>6, ConcatFacts
    <3> QED
      BY <2>5, <3>1
  <2>8. PICK w : w = md \o e /\ w = IntText(n)
    BY <2>3, <2>4, <2>6 DEF IntText
  <2>9. Len(w) \in Nat \ {0} /\ w[1] = "i"
    <3>1. Len(w) = Len(md) + Len(e) /\ \A k \in 1..Len(md) : w[k] = md[k]
      <4>1. w = md \o e
        BY <2>8
      <4> QED
        BY <4>1, ConcatFacts
    <3> QED
      BY <2>7, <3>1
  <2> QED
    BY <2>1, <2>8, <2>9
<1>7. PICK S : S = Range(Symbols) /\ Texts = Seq(S)
  BY DEF Texts
<1>8. PICK bq \in Seq(S) : bq = b \o q
  BY <1>7, ConcatFacts
<1>9. Len(bq) = 3 + Len(q) /\ bq[1] = "1" /\ bq[2] = ":" /\ bq[3] = "complete" /\ bq[4] = "i"
  <2>1. Len(bq) = Len(b) + Len(q) /\ (\A k \in 1..Len(b) : bq[k] = b[k]) /\ \A k \in 1..Len(q) : bq[Len(b) + k] = q[k]
    BY <1>7, <1>8, ConcatFacts
  <2>2. 1 \in 1..Len(b) /\ 2 \in 1..Len(b) /\ 3 \in 1..Len(b) /\ Len(b) + 1 = 4
    <3>1. Len(b) = 3
      BY <1>5
    <3> QED
      BY <3>1
  <2>3. 1 \in 1..Len(q)
    BY <1>6
  <2> QED
    BY <1>5, <1>6, <2>1, <2>2, <2>3
<1>10. PICK u \in Seq(S) : u = bq \o t
  BY <1>7, ConcatFacts
<1>11. Len(u) \in Nat /\ Len(u) >= 4 /\ u[1] = "1" /\ u[2] = ":" /\ u[3] = "complete" /\ u[4] = "i"
  <2>1. Len(u) = Len(bq) + Len(t) /\ \A k \in 1..Len(bq) : u[k] = bq[k]
    BY <1>7, <1>10, ConcatFacts
  <2>2. Len(t) \in Nat /\ 1 \in 1..Len(bq) /\ 2 \in 1..Len(bq) /\ 3 \in 1..Len(bq) /\ 4 \in 1..Len(bq)
    BY <1>6, <1>7, <1>9
  <2> QED
    BY <1>6, <1>9, <2>1, <2>2
<1>12. /\ data = a \o u /\ Len(data) = 1 + Len(u) /\ data[1] = "d"
       /\ \A k \in 1..Len(u) : data[1 + k] = u[k]
  <2>1. data = a \o u
    BY <1>3, <1>4, <1>5, <1>6, <1>8, <1>10
  <2>2. Len(a \o u) = Len(a) + Len(u) /\ (\A k \in 1..Len(a) : (a \o u)[k] = a[k]) /\ \A k \in 1..Len(u) : (a \o u)[Len(a) + k] = u[k]
    BY <1>4, <1>7, ConcatFacts
  <2> QED
    BY <1>4, <2>1, <2>2
<1>13. Len(data) >= 5
  BY <1>11, <1>12
<1>14. data[2] = "1" /\ data[3] = ":" /\ data[4] = "complete" /\ data[5] = "i"
  <2>1. 1 \in 1..Len(u) /\ 2 \in 1..Len(u) /\ 3 \in 1..Len(u) /\ 4 \in 1..Len(u)
    BY <1>11
  <2>2. data[1 + 1] = u[1] /\ data[1 + 2] = u[2] /\ data[1 + 3] = u[3] /\ data[1 + 4] = u[4]
    BY <1>12, <2>1
  <2> QED
    BY <1>11, <2>2
<1> QED
  BY <1>2, <1>12, <1>13, <1>14 DEF BeginsLikeResponse

(* The failure that is sent is too short for a response.                   *)
LEMMA FailureIsShort ==
    Len(Encode(Nesting, FailurePayload(<<"reason">>))) = 8
<1>1. PICK S : S = Range(Symbols) /\ Texts = Seq(S)
  BY DEF Texts
<1>2. PICK a \in Seq(S), end \in Seq(S) : a = <<"d">> /\ end = <<"e">>
  BY <1>1, SymbolTexts
<1>3. Len(a) = 1 /\ Len(end) = 1
  BY <1>2, OneSymbol
<1>4. PICK name \in Seq(S) : name = EncodeBytes(<<"failure_reason">>) /\ Len(name) = 3
  BY <1>1, ResponsesAreLegal, NamedBytes
<1>5. PICK value \in Seq(S) : value = EncodeBytes(<<"reason">>) /\ Len(value) = 3
  BY <1>1, ResponsesAreLegal, NamedBytes
<1>6. <<"reason">> \in Texts
  BY ResponsesAreLegal DEF Texts
<1>7. Encode(Nesting, FailurePayload(<<"reason">>)) = a \o ((name \o value) \o end)
  BY <1>2, <1>4, <1>5, <1>6, FailureRoundTrips
<1>8. PICK both \in Seq(S) : both = name \o value
  BY ConcatFacts
<1>9. PICK rest \in Seq(S) : rest = both \o end
  BY ConcatFacts
<1>10. Len(both) = Len(name) + Len(value) /\ Len(rest) = Len(both) + Len(end) /\ Len(a \o rest) = Len(a) + Len(rest)
  BY <1>8, <1>9, ConcatFacts
<1>11. Len(name) = 3 /\ Len(value) = 3
  BY <1>4, <1>5
<1>12. Len(a \o rest) = 8
  BY <1>3, <1>10, <1>11
<1> QED
  BY <1>7, <1>8, <1>9, <1>12

(* What has no damage begins like a response, or is as short as the        *)
(* failure; what has some is not read as the other kind.                   *)
IsOriginal(meaning, symbols) ==
    \/ DOMAIN meaning = {"response"} /\ BeginsLikeResponse(symbols)
    \/ DOMAIN meaning = {"failure"} /\ Len(symbols) = 8

(* The inductive invariant for at most one symbol of damage.               *)
OneEditInv ==
    "request" \notin DOMAIN sent =>
        \/ edits = 0 /\ IsOriginal(sent, text)
        \/ edits = 1 /\ \A r \in ParseReply(text) : DOMAIN r = DOMAIN sent

(* At the start no symbol is damaged.                                      *)
LEMMA OneEditInit == WireInit => OneEditInv
<1> SUFFICES ASSUME WireInit, "request" \notin DOMAIN sent
             PROVE  edits = 0 /\ IsOriginal(sent, text)
  BY DEF OneEditInv
<1>1. ASSUME NEW r \in SentRequests, Send([request |-> r], Query(r))
      PROVE  FALSE
  BY <1>1 DEF Send
<1>2. ASSUME NEW r \in SentResponses, Send([response |-> r], Encode(Nesting, Payload(r)))
      PROVE  edits = 0 /\ IsOriginal(sent, text)
  <2>1. sent = [response |-> r] /\ text = Encode(Nesting, Payload(r)) /\ edits = 0
    BY <1>2 DEF Send
  <2>2. r \in Responses
    BY ResponsesAreLegal
  <2>3. BeginsLikeResponse(text)
    BY <2>1, <2>2, ResponseBegins
  <2> QED
    BY <2>1, <2>3 DEF IsOriginal
<1>3. ASSUME Send([failure |-> <<"reason">>], Encode(Nesting, FailurePayload(<<"reason">>)))
      PROVE  edits = 0 /\ IsOriginal(sent, text)
  <2>1. /\ sent = [failure |-> <<"reason">>] /\ edits = 0
        /\ text = Encode(Nesting, FailurePayload(<<"reason">>))
    BY <1>3 DEF Send
  <2>2. Len(text) = 8
    BY <2>1, FailureIsShort
  <2> QED
    BY <2>1, <2>2 DEF IsOriginal
<1> QED
  BY <1>1, <1>2, <1>3 DEF WireInit

(* One symbol of damage to an original.                                    *)
LEMMA DamagedKind ==
    ASSUME NEW S, NEW s \in Seq(S), NEW meaning, IsOriginal(meaning, s), NEW t \in Seq(S),
           NEW m \in ParseReply(t),
           DOMAIN meaning = {"response"} => ~LooksLikeFailure(t),
           DOMAIN meaning = {"failure"} => Len(t) <= 9
    PROVE  DOMAIN m = DOMAIN meaning
<1>1. CASE DOMAIN meaning = {"response"}
  BY <1>1, ReadAsFailure
<1>2. CASE DOMAIN meaning = {"failure"}
  <2>1. ~(Len(t) >= 10)
    <3>1. Len(t) \in Nat
      OBVIOUS
    <3> QED
      BY <1>2, <3>1
  <2> QED
    BY <1>2, <2>1, ReadAsResponse
<1> QED
  BY <1>1, <1>2 DEF IsOriginal

(* t is s with one symbol of damage.                                       *)
DamagedTo(s, t, S) ==
    \/ \E k \in DOMAIN s, c \in S : t = [s EXCEPT ![k] = c]
    \/ \E k \in 1..(Len(s) + 1), c \in S : t = InsertAt(s, k, c)
    \/ \E k \in DOMAIN s : t = RemoveAt(s, k)

(* Whatever the damage is, what it leaves is not read as the other kind.   *)
LEMMA DamagedIsRead ==
    ASSUME NEW S, NEW s \in Seq(S), NEW meaning, IsOriginal(meaning, s), NEW t,
           DamagedTo(s, t, S), NEW m \in ParseReply(t)
    PROVE  DOMAIN m = DOMAIN meaning
<1>0. Len(s) \in Nat /\ DOMAIN s = 1..Len(s)
  OBVIOUS
<1>1. (DOMAIN meaning = {"response"} => BeginsLikeResponse(s)) /\ (DOMAIN meaning = {"failure"} => Len(s) = 8)
  <2>1. "response" # "failure"
    OBVIOUS
  <2>2. "response" \in DOMAIN meaning => DOMAIN meaning # {"failure"}
    OBVIOUS
  <2> QED
    BY <2>1, <2>2 DEF IsOriginal
<1>2. ASSUME NEW k \in DOMAIN s, NEW c \in S, t = [s EXCEPT ![k] = c]
      PROVE  DOMAIN m = DOMAIN meaning
  <2>1. t \in Seq(S) /\ Len(t) = Len(s)
    BY <1>2, DamagedTexts, SymbolChanged
  <2>2. BeginsLikeResponse(s) => ~LooksLikeFailure(t)
    BY <1>2, ChangedResponse
  <2> QED
    BY <1>0, <1>1, <2>1, <2>2, DamagedKind
<1>3. ASSUME NEW k \in 1..(Len(s) + 1), NEW c \in S, t = InsertAt(s, k, c)
      PROVE  DOMAIN m = DOMAIN meaning
  <2>1. t \in Seq(S) /\ Len(t) = Len(s) + 1
    BY <1>3, DamagedTexts, SymbolInserted
  <2>2. BeginsLikeResponse(s) => ~LooksLikeFailure(t)
    BY <1>3, LongerResponse
  <2>3. DOMAIN meaning = {"failure"} => Len(t) <= 9
    <3>1. Len(s) = 8 => Len(t) <= 9
      BY <1>0, <2>1
    <3> QED
      BY <1>1, <3>1
  <2>4. DOMAIN meaning = {"response"} => ~LooksLikeFailure(t)
    BY <1>1, <2>2
  <2> QED
    BY <2>1, <2>3, <2>4, DamagedKind
<1>4. ASSUME NEW k \in DOMAIN s, t = RemoveAt(s, k)
      PROVE  DOMAIN m = DOMAIN meaning
  <2>1. t \in Seq(S)
    BY <1>4, ShortenedTexts
  <2>2. Len(t) = Len(s) - 1
    BY <1>0, <1>4, SymbolRemoved
  <2>3. BeginsLikeResponse(s) => ~LooksLikeFailure(t)
    BY <1>4, ShorterResponse
  <2> QED
    BY <1>0, <1>1, <2>1, <2>2, <2>3, DamagedKind
<1> QED
  BY <1>2, <1>3, <1>4 DEF DamagedTo

(* Every step keeps a reply within one change of what the tracker          *)
(* encoded, and of its kind.                                               *)
LEMMA OneEditNext ==
    MaxEdits <= 1 /\ ReplyIsText /\ OneEditInv /\ [WireNext]_wireVars => OneEditInv'
<1> SUFFICES ASSUME MaxEdits <= 1, ReplyIsText, OneEditInv, [WireNext]_wireVars
             PROVE  OneEditInv'
  OBVIOUS
<1>1. CASE Damage
  <2>1. PICK S : S = Range(Symbols)
    OBVIOUS
  <2>2. text \in Seq(S) /\ "request" \notin DOMAIN sent /\ Alphabet \subseteq S
    BY <1>1, <2>1, DamageIsOfSymbols DEF Damage, ReplyIsText, Texts
  <2>3. edits = 0 /\ IsOriginal(sent, text)
    <3>1. edits < MaxEdits /\ MaxEdits \in Nat
      BY <1>1, WireSizes DEF Damage
    <3> QED
      BY <2>2, <3>1 DEF OneEditInv
  <2>4. edits' = 1 /\ sent' = sent
    BY <1>1, <2>3 DEF Damage
  <2>5. \/ \E k \in DOMAIN text, c \in Alphabet : text' = [text EXCEPT ![k] = c]
        \/ \E k \in 1..(Len(text) + 1), c \in Alphabet : text' = InsertAt(text, k, c)
        \/ \E k \in DOMAIN text : text' = RemoveAt(text, k)
    BY <1>1 DEF Damage
  <2>6. DamagedTo(text, text', S)
    BY <2>2, <2>5 DEF DamagedTo
  <2>7. \A m \in ParseReply(text') : DOMAIN m = DOMAIN sent
    BY <2>2, <2>3, <2>6, DamagedIsRead
  <2>8. (\A r \in ParseReply(text) : DOMAIN r = DOMAIN sent)'
    BY <2>4, <2>7
  <2> QED
    BY <2>4, <2>8 DEF OneEditInv
<1>2. CASE UNCHANGED wireVars
  <2>1. sent' = sent /\ text' = text /\ edits' = edits
    BY <1>2 DEF wireVars
  <2> QED
    BY <2>1 DEF OneEditInv
<1> QED
  BY <1>1, <1>2 DEF WireNext

(* Whatever a response or a failure of the tracker says, the client reads  *)
(* it as sent when it arrives undamaged; and after at most one symbol of   *)
(* damage, wherever it is, parse_tracker_response refuses the text or      *)
(* takes a response for a response and a failure for a failure.            *)
THEOREM DamagedReplyKeepsItsKind ==
    ASSUME MaxEdits <= 1
    PROVE  WireSpec => []ReplyArrives
<1>1. WireInit => ReplyIsText /\ UndamagedArrives
  BY RepliesInit
<1>2. ReplyIsText /\ UndamagedArrives /\ [WireNext]_wireVars => ReplyIsText' /\ UndamagedArrives'
  BY RepliesNext
<1>3. WireInit => OneEditInv
  BY OneEditInit
<1>4. ReplyIsText /\ OneEditInv /\ [WireNext]_wireVars => OneEditInv'
  BY OneEditNext
<1>5. UndamagedArrives /\ OneEditInv => ReplyArrives
  <2> SUFFICES ASSUME UndamagedArrives, OneEditInv, "request" \notin DOMAIN sent
               PROVE  /\ edits = 0 => ParseReply(text) = {sent}
                      /\ \A r \in ParseReply(text) : DOMAIN r = DOMAIN sent
    BY DEF ReplyArrives
  <2>1. edits = 0 => ParseReply(text) = {sent}
    BY DEF UndamagedArrives
  <2>2. edits = 0 \/ \A r \in ParseReply(text) : DOMAIN r = DOMAIN sent
    BY DEF OneEditInv
  <2> QED
    BY <2>1, <2>2
<1> QED
  BY <1>1, <1>2, <1>3, <1>4, <1>5, PTL DEF WireSpec
=============================================================================
