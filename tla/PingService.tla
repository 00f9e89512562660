---------------------------- MODULE PingService ----------------------------
(***************************************************************************)
(* peer/ping_client.py: PeerPingService, whose thread pings the peers of a *)
(* list again and again (ping_all_peers, ping_peer), with the answers      *)
(* framed by peer/peer_protocol.py on connections that deliver any number  *)
(* of bytes at a time, stop in the middle, or close.                       *)
(***************************************************************************)
EXTENDS Naturals, FiniteSets

CONSTANTS Callers,     \* the threads that call start()
          Stoppers,    \* those of them that call stop()
          Pingers,     \* the threads start() may make: bounds the restarts
          Peers,
          MaxWorkers,  \* max_workers of ping_all_peers
          Frames,      \* what a peer may send in answer to a PING
          HeaderSize,  \* HEADER_SIZE
          MaxSize,     \* DEFAULT_MAX_MESSAGE_SIZE
          NoPinger,
          NoFrame,
          Faults       \* the faults that may occur

ASSUME StoppersCall == Stoppers \subseteq Callers
ASSUME PositiveSizes == /\ MaxWorkers \in Nat \ {0}
                        /\ HeaderSize \in Nat \ {0}
                        /\ MaxSize \in Nat \ {0}
ASSUME Sentinels == NoPinger \notin Pingers /\ NoFrame \notin Frames
ASSUME KnownFaults == Faults \subseteq {"log", "provider"}

(* An answer: its declared payload length, how many bytes of it ever come, *)
(* whether the connection is closed after them, and, if they are all of    *)
(* it, whether it is a PONG with the nonce of this PING from the peer that *)
(* was meant.                                                              *)
ASSUME FramesAreAnswers ==
    \A f \in Frames : /\ f.type \in {"PONG", "ERROR", "malformed"}
                      /\ f.echoed \in BOOLEAN /\ f.meant \in BOOLEAN /\ f.closes \in BOOLEAN
                      /\ f.length \in Nat
                      /\ f.sends \in 0..(HeaderSize + f.length)

VARIABLES
    started,     \* _started
    stopEvent,   \* _stop_event
    thread,      \* _thread
    call,        \* [Callers -> "idle", "join" or "finish" (in stop())]
    joinee,      \* [Callers -> the thread its stop() joins]
    pinger,      \* [Pingers -> where the thread is]
    ping,        \* [Pingers -> [Peers -> where the ping of its round is]]
    frame,       \* [Pingers -> [Peers -> the answer on its connection]]
    got,         \* [Pingers -> [Peers -> the bytes recv() has returned]]
    abandoned    \* history: threads that stop() has given up waiting for

service  == <<started, stopEvent, thread>>
calls    == <<call, joinee, abandoned>>
exchange == <<ping, frame, got>>
vars == <<service, calls, pinger, exchange>>

Alive(p) == pinger[p] \notin {"new", "dead"}
InRound(p) == pinger[p] \in {"listing", "pinging", "failed"}
Open == {"connecting", "header", "payload", "decode"}
Ended == {"unlisted", "success", "failure", "raised"}

Init ==
    /\ started = FALSE /\ stopEvent = FALSE /\ thread = NoPinger
    /\ call = [c \in Callers |-> "idle"]
    /\ joinee = [c \in Callers |-> NoPinger]
    /\ pinger = [p \in Pingers |-> "new"]
    /\ ping = [p \in Pingers |-> [q \in Peers |-> "unlisted"]]
    /\ frame = [p \in Pingers |-> [q \in Peers |-> NoFrame]]
    /\ got = [p \in Pingers |-> [q \in Peers |-> 0]]
    /\ abandoned = {}

At(p, where) == pinger' = [pinger EXCEPT ![p] = where]

-----------------------------------------------------------------------------
(* start() and stop().  What each does under the lock is one step.  Their  *)
(* log calls come last and change nothing if they raise.                   *)

Start(c) ==
    /\ call[c] = "idle"
    /\ ~started
    /\ stopEvent' = FALSE
    /\ started' = TRUE
    /\ \E p \in Pingers : pinger[p] = "new" /\ thread' = p /\ At(p, "test")
    /\ UNCHANGED <<calls, exchange>>

(* The threads that wait for the event are woken, and will end whatever    *)
(* becomes of the event until they run.                                    *)
StopBegins(c) ==
    /\ c \in Stoppers
    /\ call[c] = "idle"
    /\ started
    /\ stopEvent' = TRUE
    /\ pinger' = [p \in Pingers |-> IF pinger[p] = "resting" THEN "leaving" ELSE pinger[p]]
    /\ joinee' = [joinee EXCEPT ![c] = thread]
    /\ call' = [call EXCEPT ![c] = "join"]
    /\ UNCHANGED <<started, thread, abandoned, exchange>>

(* thread.join(timeout + interval + 2): in a round, every connection may   *)
(* take the timeout several times, and there may be more peers than        *)
(* workers, so that the join can end without the thread.                   *)
Join(c) ==
    /\ call[c] = "join"
    /\ ~Alive(joinee[c]) \/ InRound(joinee[c])
    /\ abandoned' = IF Alive(joinee[c]) THEN abandoned \cup {joinee[c]} ELSE abandoned
    /\ call' = [call EXCEPT ![c] = "finish"]
    /\ UNCHANGED <<service, joinee, pinger, exchange>>

(* Mutant of StopReturns: the event is made ready for the next start().    *)
StopReturns_reset(c) ==
    /\ call[c] = "finish"
    /\ started' = FALSE
    /\ stopEvent' = FALSE
    /\ call' = [call EXCEPT ![c] = "idle"]
    /\ joinee' = [joinee EXCEPT ![c] = NoPinger]
    /\ UNCHANGED <<thread, abandoned, pinger, exchange>>

StopReturns(c) ==
    /\ call[c] = "finish"
    /\ started' = FALSE
    /\ call' = [call EXCEPT ![c] = "idle"]
    /\ joinee' = [joinee EXCEPT ![c] = NoPinger]
    /\ UNCHANGED <<stopEvent, thread, abandoned, pinger, exchange>>

-----------------------------------------------------------------------------
(* The thread: _run().                                                     *)

Test(p) ==
    /\ pinger[p] = "test"
    /\ At(p, IF stopEvent THEN "dead" ELSE "listing")
    /\ UNCHANGED <<service, calls, exchange>>

(* peer_provider() returns some peers, or raises.                          *)
List(p) ==
    /\ pinger[p] = "listing"
    /\ \/ \E listed \in SUBSET Peers :
             /\ ping' = [ping EXCEPT ![p] =
                           [q \in Peers |-> IF q \in listed THEN "queued" ELSE "unlisted"]]
             /\ At(p, "pinging")
       \/ /\ "provider" \in Faults
          /\ At(p, "failed")
          /\ UNCHANGED ping
    /\ UNCHANGED <<service, calls, frame, got>>

(* The executor is left when all pings have ended, also if one raised.     *)
(* on_results may raise like the pings.                                    *)
RoundEnds(p) ==
    /\ pinger[p] = "pinging"
    /\ \A q \in Peers : ping[p][q] \in Ended
    /\ At(p, IF \E q \in Peers : ping[p][q] = "raised" THEN "failed" ELSE "rest")
    /\ ping' = [ping EXCEPT ![p] = [q \in Peers |-> "unlisted"]]
    /\ frame' = [frame EXCEPT ![p] = [q \in Peers |-> NoFrame]]
    /\ got' = [got EXCEPT ![p] = [q \in Peers |-> 0]]
    /\ UNCHANGED <<service, calls>>

(* `except Exception`: logged, and a logger that raises ends the thread.   *)
Caught(p) ==
    /\ pinger[p] = "failed"
    /\ At(p, "rest") \/ ("log" \in Faults /\ At(p, "dead"))
    /\ UNCHANGED <<service, calls, exchange>>

Rest(p) ==
    /\ pinger[p] = "rest"
    /\ At(p, IF stopEvent THEN "dead" ELSE "resting")
    /\ UNCHANGED <<service, calls, exchange>>

(* wait(interval) is over.                                                 *)
Wake(p) ==
    /\ pinger[p] \in {"resting", "leaving"}
    /\ At(p, IF pinger[p] = "leaving" THEN "dead" ELSE "test")
    /\ UNCHANGED <<service, calls, exchange>>

-----------------------------------------------------------------------------
(* One ping: ping_peer() on a worker of the pool.                          *)

To(p, q, where) == ping' = [ping EXCEPT ![p][q] = where]

Busy(p) == {q \in Peers : ping[p][q] \in Open}

(* A worker takes the next peer of the list; the log call may raise.       *)
Take(p, q) ==
    /\ ping[p][q] = "queued"
    /\ Cardinality(Busy(p)) < MaxWorkers
    /\ To(p, q, "connecting") \/ ("log" \in Faults /\ To(p, q, "raised"))
    /\ UNCHANGED <<service, calls, pinger, frame, got>>

(* The connection is made and the PING is sent; the peer decides what to   *)
(* answer.                                                                 *)
Connect(p, q) ==
    /\ ping[p][q] = "connecting"
    /\ \E f \in Frames : frame' = [frame EXCEPT ![p][q] = f]
    /\ To(p, q, "header")
    /\ UNCHANGED <<service, calls, pinger, got>>

(* What recv_exact() is asked for, counted from the start of the answer.   *)
Due(p, q) == IF ping[p][q] = "header" THEN HeaderSize ELSE HeaderSize + frame[p][q].length

AcceptableLength(n) == n \in 1..MaxSize

(* The state after a part that is complete.                                *)
AfterPart(p, q) ==
    IF ping[p][q] = "header" /\ AcceptableLength(frame[p][q].length) THEN "payload" ELSE "decode"

(* Mutant of Receive: one call of recv() is taken for the whole part.      *)
Receive_once(p, q) ==
    /\ ping[p][q] \in {"header", "payload"}
    /\ \E n \in 1..(Due(p, q) - got[p][q]) :
          /\ got[p][q] + n <= frame[p][q].sends
          /\ got' = [got EXCEPT ![p][q] = @ + n]
    /\ To(p, q, AfterPart(p, q))
    /\ UNCHANGED <<service, calls, pinger, frame>>

(* recv() returns one byte or more of what has come; the part is complete, *)
(* or recv() is called again.                                              *)
Receive(p, q) ==
    /\ ping[p][q] \in {"header", "payload"}
    /\ \E n \in 1..(Due(p, q) - got[p][q]) :
          /\ got[p][q] + n <= frame[p][q].sends
          /\ got' = [got EXCEPT ![p][q] = @ + n]
          /\ To(p, q, IF got[p][q] + n < Due(p, q) THEN ping[p][q] ELSE AfterPart(p, q))
    /\ UNCHANGED <<service, calls, pinger, frame>>

(* The connection is closed.                                               *)
Ends(p, q, how) ==
    /\ To(p, q, how)
    /\ frame' = [frame EXCEPT ![p][q] = NoFrame]
    /\ got' = [got EXCEPT ![p][q] = 0]

(* Mutant of Fails: the socket has no timeout while it is read.            *)
Fails_untimed(p, q) ==
    /\ \/ ping[p][q] = "connecting"
       \/ /\ ping[p][q] \in {"header", "payload"}
          /\ got[p][q] = frame[p][q].sends /\ frame[p][q].closes
    /\ Ends(p, q, "failure") \/ ("log" \in Faults /\ Ends(p, q, "raised"))
    /\ UNCHANGED <<service, calls, pinger>>

(* Nobody listens, the connection is closed, or nothing comes for the      *)
(* timeout; the failure is logged, which may raise.                        *)
Fails(p, q) ==
    /\ ping[p][q] \in Open \ {"decode"}
    /\ Ends(p, q, "failure") \/ ("log" \in Faults /\ Ends(p, q, "raised"))
    /\ UNCHANGED <<service, calls, pinger>>

IsPong(f) == AcceptableLength(f.length) /\ f.type = "PONG" /\ f.echoed /\ f.meant

(* The answer is refused for its length, or parsed and compared; the       *)
(* result is logged either way.                                            *)
Decode(p, q) ==
    /\ ping[p][q] = "decode"
    /\ \/ ~IsPong(frame[p][q]) /\ Ends(p, q, "failure")
       \/ IsPong(frame[p][q]) /\ To(p, q, "success") /\ UNCHANGED <<frame, got>>
       \/ "log" \in Faults /\ Ends(p, q, "raised")
    /\ UNCHANGED <<service, calls, pinger>>

-----------------------------------------------------------------------------
Stop(c) == Join(c) \/ StopReturns(c)
Ping(p, q) == Take(p, q) \/ Connect(p, q) \/ Receive(p, q) \/ Fails(p, q) \/ Decode(p, q)
Loop(p) == Test(p) \/ List(p) \/ RoundEnds(p) \/ Caught(p) \/ Rest(p) \/ Wake(p)

Next ==
    \/ \E c \in Callers : Start(c) \/ StopBegins(c) \/ Stop(c)
    \/ \E p \in Pingers : Loop(p) \/ \E q \in Peers : Ping(p, q)

Spec == Init /\ [][Next]_vars

(* Threads run, and every socket operation of a ping ends by its timeout.  *)
FairSpec ==
    /\ Spec
    /\ \A c \in Stoppers : WF_vars(Stop(c))
    /\ \A p \in Pingers : WF_vars(Loop(p)) /\ \A q \in Peers : WF_vars(Ping(p, q))

-----------------------------------------------------------------------------
PingStates == Open \cup Ended \cup {"queued"}

TypeOK ==
    /\ started \in BOOLEAN /\ stopEvent \in BOOLEAN
    /\ thread \in Pingers \cup {NoPinger}
    /\ call \in [Callers -> {"idle", "join", "finish"}]
    /\ joinee \in [Callers -> Pingers \cup {NoPinger}]
    /\ pinger \in [Pingers -> {"new", "test", "listing", "pinging", "failed", "rest",
                               "resting", "leaving", "dead"}]
    /\ ping \in [Pingers -> [Peers -> PingStates]]
    /\ frame \in [Pingers -> [Peers -> Frames \cup {NoFrame}]]
    /\ got \in [Pingers -> [Peers -> Nat]]
    /\ abandoned \subseteq Pingers

(* A ping succeeds only if the whole of the right answer came on its own   *)
(* connection: however the bytes of header and payload were cut up, and    *)
(* wherever they ended, less is never taken for more.                      *)
SuccessIsGenuine ==
    \A p \in Pingers, q \in Peers :
        ping[p][q] = "success" =>
            /\ frame[p][q].type = "PONG" /\ frame[p][q].echoed /\ frame[p][q].meant
            /\ frame[p][q].sends = HeaderSize + frame[p][q].length
            /\ got[p][q] = frame[p][q].sends
            /\ frame[p][q].length <= MaxSize

(* When no stop() is under way, a thread that is alive is the one of the   *)
(* running service or one whose join timed out, and there is a way to end  *)
(* it: it will see the stop event, or another stop() will set it.  (This   *)
(* takes a single stopper: two stop() whose joins time out around a        *)
(* start() leave a thread that no stop() would end.)                       *)
PingersAccounted ==
    (\A c \in Callers : call[c] = "idle") =>
        \A p \in Pingers : Alive(p) =>
            /\ (started /\ p = thread) \/ p \in abandoned
            /\ started \/ stopEvent

(* A service that is stopped for good stops pinging, all of its threads:   *)
(* also the one that was abandoned, met a new start(), and was left over,  *)
(* and whatever the peers do in the meantime.                              *)
PingersEnd == <>[]stopEvent => <>[](\A p \in Pingers : ~Alive(p))
=============================================================================
