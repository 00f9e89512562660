------------------------- MODULE PingServiceProofs -------------------------
(***************************************************************************)
(* For any number of peers, pool workers and restarts, and any answers:    *)
(* types, no success without the whole right answer, and - with a single   *)
(* thread that calls stop() - no thread that could not be ended.           *)
(***************************************************************************)
EXTENDS PingService, TLAPS

(* A started service has a thread that was started, and a stop() a thread  *)
(* to join.                                                                *)
ThreadsExist ==
    /\ started => thread \in Pingers /\ pinger[thread] # "new"
    /\ \A c \in Callers :
          call[c] # "idle" => joinee[c] \in Pingers /\ pinger[joinee[c]] # "new"

TypeInv == TypeOK /\ ThreadsExist

(* What start() and stop() do is one group of steps; Loop is what the      *)
(* thread does, Ping what one ping does.                                   *)
ServiceStep(c) == Start(c) \/ StopBegins(c) \/ Stop(c)

LEMMA LoopTypes ==
    ASSUME TypeInv, NEW p \in Pingers, Loop(p)
    PROVE  TypeInv'
<1> USE DEF TypeInv, TypeOK
<1>1. UNCHANGED <<service, calls>>
  BY DEF Loop, Test, List, RoundEnds, Caught, Rest, Wake
<1>2. PICK s \in {"test", "listing", "pinging", "failed", "rest", "resting", "dead"} :
             pinger' = [pinger EXCEPT ![p] = s]
  BY DEF Loop, Test, List, RoundEnds, Caught, Rest, Wake, At
<1>3. ping' \in [Pingers -> [Peers -> PingStates]]
  <2> USE DEF PingStates, Ended
  <2>1. CASE List(p)
    BY <2>1 DEF List
  <2>2. CASE RoundEnds(p)
    BY <2>2 DEF RoundEnds
  <2> QED
    BY <2>1, <2>2 DEF Loop, Test, Caught, Rest, Wake, exchange
<1>4. /\ frame' \in [Pingers -> [Peers -> Frames \cup {NoFrame}]]
      /\ got' \in [Pingers -> [Peers -> Nat]]
  <2>1. CASE RoundEnds(p)
    BY <2>1 DEF RoundEnds
  <2> QED
    BY <2>1 DEF Loop, Test, List, Caught, Rest, Wake, exchange
<1>5. ThreadsExist'
  BY <1>1, <1>2 DEF ThreadsExist, service, calls
<1>6. TypeOK'
  BY <1>1, <1>2, <1>3, <1>4 DEF service, calls
<1> QED
  BY <1>5, <1>6

LEMMA PingTypes ==
    ASSUME TypeInv, NEW p \in Pingers, NEW q \in Peers, Ping(p, q)
    PROVE  TypeInv'
<1> USE DEF TypeInv, TypeOK
<1>1. UNCHANGED <<service, calls, pinger>>
  BY DEF Ping, Take, Connect, Receive, Fails, Decode
<1>2. PICK s \in PingStates : ping' = [ping EXCEPT ![p][q] = s]
  BY DEF Ping, Take, Connect, Receive, AfterPart, Fails, Decode, Ends, To, PingStates, Open,
         Ended
<1>3. frame' \in [Pingers -> [Peers -> Frames \cup {NoFrame}]]
  <2>1. \/ UNCHANGED frame
        \/ \E f \in Frames \cup {NoFrame} : frame' = [frame EXCEPT ![p][q] = f]
    <3>1. CASE Take(p, q) \/ Receive(p, q)
      BY <3>1 DEF Take, Receive
    <3>2. CASE Connect(p, q)
      BY <3>2 DEF Connect
    <3>3. CASE Fails(p, q) \/ Decode(p, q)
      BY <3>3 DEF Fails, Decode, Ends
    <3> QED
      BY <3>1, <3>2, <3>3 DEF Ping
  <2>2. ASSUME NEW f \in Frames \cup {NoFrame}, frame' = [frame EXCEPT ![p][q] = f]
        PROVE  frame' \in [Pingers -> [Peers -> Frames \cup {NoFrame}]]
    BY <2>2
  <2> QED
    BY <2>1, <2>2
<1>4. got' \in [Pingers -> [Peers -> Nat]]
  <2>1. CASE Receive(p, q)
    <3>1. PICK n \in 1..(Due(p, q) - got[p][q]) : got' = [got EXCEPT ![p][q] = @ + n]
      BY <2>1 DEF Receive
    <3>2. n \in Nat
      OBVIOUS
    <3> QED
      BY <3>1, <3>2
  <2>2. CASE ~Receive(p, q)
    <3>1. UNCHANGED got \/ got' = [got EXCEPT ![p][q] = 0]
      <4>1. CASE Take(p, q) \/ Connect(p, q)
        BY <4>1 DEF Take, Connect
      <4>2. CASE Fails(p, q) \/ Decode(p, q)
        BY <4>2 DEF Fails, Decode, Ends
      <4> QED
        BY <2>2, <4>1, <4>2 DEF Ping
    <3>2. CASE got' = [got EXCEPT ![p][q] = 0]
      <4>1. 0 \in Nat
        OBVIOUS
      <4> QED
        BY <3>2, <4>1
    <3> QED
      BY <3>1, <3>2
  <2> QED
    BY <2>1, <2>2
<1>5. ThreadsExist'
  BY <1>1 DEF ThreadsExist, service, calls
<1>6. ping' \in [Pingers -> [Peers -> PingStates]]
  BY <1>2
<1>7. TypeOK'
  BY <1>1, <1>3, <1>4, <1>6 DEF service, calls
<1> QED
  BY <1>5, <1>7

LEMMA ServiceTypes ==
    ASSUME TypeInv, NEW c \in Callers, ServiceStep(c)
    PROVE  TypeInv'
<1> USE DEF TypeInv, TypeOK, service, calls, exchange
<1>1. CASE Start(c)
  <2>1. PICK p \in Pingers : /\ pinger[p] = "new" /\ thread' = p
                             /\ pinger' = [pinger EXCEPT ![p] = "test"]
    BY <1>1 DEF Start, At
  <2> QED
    BY <1>1, <2>1 DEF Start, ThreadsExist
<1>2. CASE StopBegins(c)
  BY <1>2 DEF StopBegins, ThreadsExist
<1>3. CASE Join(c)
  <2>1. joinee[c] \in Pingers
    BY <1>3 DEF Join, ThreadsExist
  <2> QED
    BY <1>3, <2>1 DEF Join, ThreadsExist
<1>4. CASE StopReturns(c)
  BY <1>4 DEF StopReturns, ThreadsExist
<1> QED
  BY <1>1, <1>2, <1>3, <1>4 DEF ServiceStep, Stop

LEMMA TypesInvariant == Spec => []TypeInv
<1>1. Init => TypeInv
  <2> SUFFICES ASSUME Init PROVE TypeOK /\ ThreadsExist
    BY DEF TypeInv
  <2>1. ThreadsExist
    BY DEF Init, ThreadsExist
  <2>2. "unlisted" \in PingStates
    BY DEF PingStates, Ended
  <2>3. TypeOK
    BY <2>2 DEF Init, TypeOK
  <2> QED
    BY <2>1, <2>3
<1>2. TypeInv /\ [Next]_vars => TypeInv'
  <2>1. ASSUME TypeInv, UNCHANGED vars PROVE TypeInv'
    BY <2>1 DEF vars, service, calls, exchange, TypeInv, TypeOK, ThreadsExist
  <2> QED
    BY <2>1, LoopTypes, PingTypes, ServiceTypes DEF Next, ServiceStep
<1> QED
  BY <1>1, <1>2, PTL DEF Spec

(* The variables keep their types.                                         *)
THEOREM TypeCorrect == Spec => []TypeOK
BY TypesInvariant, PTL DEF TypeInv

-----------------------------------------------------------------------------
(* How much of an answer has been read, in each state of a ping.           *)
ReadSoFar(p, q) ==
    LET f == frame[p][q]
        n == got[p][q]
    IN  /\ ping[p][q] \in {"unlisted", "queued", "connecting"} => n = 0
        /\ ping[p][q] \in {"header", "payload", "decode", "success"} => f \in Frames /\ n <= f.sends
        /\ ping[p][q] = "header" => n <= HeaderSize
        /\ ping[p][q] = "payload" => AcceptableLength(f.length) /\ n <= HeaderSize + f.length
        /\ ping[p][q] = "decode" => (AcceptableLength(f.length) => n = HeaderSize + f.length)
        /\ ping[p][q] = "success" => IsPong(f) /\ n = HeaderSize + f.length

(* Outside of a round there are no pings.                                  *)
Quiet(p) == pinger[p] # "pinging" => \A q \in Peers : ping[p][q] = "unlisted"

ReadInv == \A p \in Pingers : Quiet(p) /\ \A q \in Peers : ReadSoFar(p, q)

LEMMA PingReads ==
    ASSUME TypeInv, ReadInv, NEW p \in Pingers, NEW q \in Peers, Ping(p, q)
    PROVE  ReadInv'
<1> USE DEF TypeInv, TypeOK
<1>1. UNCHANGED pinger /\ ping[p][q] # "unlisted"
  BY DEF Ping, Take, Connect, Receive, Fails, Decode, Open
<1>2. pinger[p] = "pinging"
  BY <1>1 DEF ReadInv, Quiet
<1>3. ASSUME NEW p2 \in Pingers, NEW q2 \in Peers, <<p2, q2>> # <<p, q>>
      PROVE  /\ ping'[p2][q2] = ping[p2][q2]
             /\ frame'[p2][q2] = frame[p2][q2]
             /\ got'[p2][q2] = got[p2][q2]
  BY <1>3 DEF Ping, Take, Connect, Receive, Fails, Decode, To, Ends
<1>4. ReadSoFar(p, q)'
  <2> USE DEF To, PingStates, Open, Ended
  <2>0. ReadSoFar(p, q)
    BY DEF ReadInv
  <2>1. CASE Take(p, q)
    BY <2>0, <2>1 DEF Take, ReadSoFar
  <2>2. CASE Connect(p, q)
    <3>1. PICK f \in Frames : frame' = [frame EXCEPT ![p][q] = f]
      BY <2>2 DEF Connect
    <3>2. frame'[p][q] = f /\ ping'[p][q] = "header" /\ got'[p][q] = 0
      BY <2>0, <2>2, <3>1 DEF Connect, ReadSoFar
    <3> QED
      BY <3>2, FramesAreAnswers, PositiveSizes DEF ReadSoFar
  <2>3. CASE Receive(p, q)
    <3>1. PICK n \in 1..(Due(p, q) - got[p][q]) :
             /\ got[p][q] + n <= frame[p][q].sends
             /\ got' = [got EXCEPT ![p][q] = @ + n]
             /\ To(p, q, IF got[p][q] + n < Due(p, q) THEN ping[p][q] ELSE AfterPart(p, q))
      BY <2>3 DEF Receive
    <3>2. /\ frame' = frame /\ frame[p][q] \in Frames
          /\ got'[p][q] = got[p][q] + n /\ got[p][q] \in Nat
      BY <2>0, <2>3, <3>1 DEF Receive, ReadSoFar
    <3>3. Due(p, q) \in Nat
      BY <3>2, FramesAreAnswers, PositiveSizes DEF Due
    <3>4. got[p][q] + n <= Due(p, q)
      BY <3>2, <3>3
    <3>5. CASE got[p][q] + n < Due(p, q)
      <4>1. ping'[p][q] = ping[p][q]
        BY <3>1, <3>5
      <4> QED
        BY <2>0, <2>3, <3>1, <3>2, <3>4, <4>1 DEF Receive, ReadSoFar, Due
    <3>6. CASE got[p][q] + n = Due(p, q) /\ ping[p][q] = "header"
      <4>1. ping'[p][q] = AfterPart(p, q)
        BY <3>1, <3>3, <3>6
      <4>2. got'[p][q] = HeaderSize
        BY <3>2, <3>6 DEF Due
      <4>3. CASE AcceptableLength(frame[p][q].length)
        <5>1. ping'[p][q] = "payload"
          BY <3>6, <4>1, <4>3 DEF AfterPart
        <5> QED
          BY <3>1, <3>2, <4>2, <4>3, <5>1, FramesAreAnswers, PositiveSizes DEF ReadSoFar
      <4>4. CASE ~AcceptableLength(frame[p][q].length)
        <5>1. ping'[p][q] = "decode"
          BY <4>1, <4>4 DEF AfterPart
        <5> QED
          BY <3>1, <3>2, <4>4, <5>1 DEF ReadSoFar
      <4> QED
        BY <4>3, <4>4
    <3>7. CASE got[p][q] + n = Due(p, q) /\ ping[p][q] = "payload"
      <4>1. ping'[p][q] = "decode"
        BY <3>1, <3>3, <3>7 DEF AfterPart
      <4>2. got'[p][q] = HeaderSize + frame[p][q].length
        BY <3>2, <3>7 DEF Due
      <4> QED
        BY <3>1, <3>2, <4>1, <4>2 DEF ReadSoFar
    <3> QED
      BY <2>3, <3>2, <3>3, <3>4, <3>5, <3>6, <3>7 DEF Receive
  <2>4. CASE Fails(p, q)
    BY <2>4 DEF Fails, Ends, ReadSoFar
  <2>5. CASE Decode(p, q)
    <3>1. CASE IsPong(frame[p][q]) /\ To(p, q, "success") /\ UNCHANGED <<frame, got>>
      <4>1. ping'[p][q] = "success"
        BY <3>1
      <4> QED
        BY <2>0, <2>5, <3>1, <4>1 DEF Decode, ReadSoFar, IsPong
    <3>2. ASSUME NEW s \in {"failure", "raised"}, Ends(p, q, s) PROVE ReadSoFar(p, q)'
      BY <3>2 DEF Ends, ReadSoFar
    <3> QED
      BY <2>5, <3>1, <3>2 DEF Decode
  <2> QED
    BY <2>1, <2>2, <2>3, <2>4, <2>5 DEF Ping
<1>5. ASSUME NEW p2 \in Pingers, NEW q2 \in Peers PROVE ReadSoFar(p2, q2)'
  <2>1. CASE <<p2, q2>> = <<p, q>>
    BY <1>4, <2>1
  <2>2. CASE <<p2, q2>> # <<p, q>>
    BY <1>3, <2>2 DEF ReadInv, ReadSoFar
  <2> QED
    BY <2>1, <2>2
<1>6. ASSUME NEW p2 \in Pingers PROVE Quiet(p2)'
  <2>1. CASE p2 = p
    BY <1>1, <1>2, <2>1 DEF Quiet
  <2>2. CASE p2 # p
    <3>1. \A q2 \in Peers : ping'[p2][q2] = ping[p2][q2]
      BY <1>3, <2>2
    <3> QED
      BY <1>1, <3>1 DEF ReadInv, Quiet
  <2> QED
    BY <2>1, <2>2
<1> QED
  BY <1>5, <1>6 DEF ReadInv

LEMMA LoopReads ==
    ASSUME TypeInv, ReadInv, NEW p \in Pingers, Loop(p)
    PROVE  ReadInv'
<1> USE DEF TypeInv, TypeOK, At, exchange
<1>1. CASE List(p)
  <2>1. \A q \in Peers : got[p][q] = 0
    BY <1>1 DEF List, ReadInv, Quiet, ReadSoFar
  <2>2. CASE UNCHANGED ping
    <3>1. UNCHANGED exchange /\ pinger[p] # "pinging"
      BY <1>1, <2>2 DEF List
    <3>2. \A p2 \in Pingers \ {p} : pinger'[p2] = pinger[p2]
      BY <1>1 DEF List
    <3>3. \A p2 \in Pingers, q \in Peers : ReadSoFar(p2, q)'
      BY <3>1 DEF ReadInv, ReadSoFar
    <3>4. \A p2 \in Pingers : Quiet(p2)'
      BY <3>1, <3>2 DEF ReadInv, Quiet
    <3> QED
      BY <3>3, <3>4 DEF ReadInv
  <2>3. ASSUME NEW listed \in SUBSET Peers,
               ping' = [ping EXCEPT ![p] =
                          [q \in Peers |-> IF q \in listed THEN "queued" ELSE "unlisted"]],
               At(p, "pinging")
        PROVE  ReadInv'
    BY <1>1, <2>1, <2>3 DEF List, ReadInv, Quiet, ReadSoFar
  <2> QED
    BY <1>1, <2>2, <2>3 DEF List
<1>2. CASE RoundEnds(p)
  BY <1>2 DEF RoundEnds, ReadInv, Quiet, ReadSoFar
<1>3. CASE Test(p) \/ Caught(p) \/ Rest(p) \/ Wake(p)
  <2>1. UNCHANGED exchange /\ pinger[p] # "pinging"
    BY <1>3 DEF Test, Caught, Rest, Wake
  <2>2. \A p2 \in Pingers \ {p} : pinger'[p2] = pinger[p2]
    BY <1>3 DEF Test, Caught, Rest, Wake
  <2>3. \A p2 \in Pingers, q \in Peers : ReadSoFar(p2, q)'
    BY <2>1 DEF ReadInv, ReadSoFar
  <2>4. \A p2 \in Pingers : Quiet(p2)'
    BY <2>1, <2>2 DEF ReadInv, Quiet
  <2> QED
    BY <2>3, <2>4 DEF ReadInv
<1> QED
  BY <1>1, <1>2, <1>3 DEF Loop

LEMMA ServiceReads ==
    ASSUME TypeInv, ReadInv, NEW c \in Callers, ServiceStep(c)
    PROVE  ReadInv'
<1> USE DEF TypeInv, TypeOK, exchange, service
<1>1. UNCHANGED exchange
  BY DEF ServiceStep, Start, StopBegins, Stop, Join, StopReturns
<1>2. ASSUME NEW p \in Pingers, pinger'[p] # "pinging" PROVE pinger[p] # "pinging"
  BY <1>2 DEF ServiceStep, Start, At, StopBegins, Stop, Join, StopReturns
<1> QED
  BY <1>1, <1>2 DEF ReadInv, Quiet, ReadSoFar

(* A successful ping has read the whole right answer, for any answers and  *)
(* any way in which they are cut up.                                       *)
THEOREM SuccessNeedsThePong == Spec => []SuccessIsGenuine
<1>1. Init => ReadInv
  BY DEF Init, ReadInv, Quiet, ReadSoFar
<1>2. TypeInv /\ ReadInv /\ [Next]_vars => ReadInv'
  <2>1. ASSUME ReadInv, UNCHANGED vars PROVE ReadInv'
    BY <2>1 DEF vars, exchange, ReadInv, Quiet, ReadSoFar
  <2> QED
    BY <2>1, LoopReads, PingReads, ServiceReads DEF Next, ServiceStep
<1>3. TypeInv /\ ReadInv => SuccessIsGenuine
  <2> SUFFICES ASSUME TypeInv, ReadInv, NEW p \in Pingers, NEW q \in Peers,
                      ping[p][q] = "success"
               PROVE  /\ IsPong(frame[p][q])
                      /\ got[p][q] = HeaderSize + frame[p][q].length
                      /\ frame[p][q].sends = HeaderSize + frame[p][q].length
                      /\ frame[p][q].length <= MaxSize
    BY PositiveSizes DEF SuccessIsGenuine, IsPong
  <2>1. /\ frame[p][q] \in Frames /\ got[p][q] <= frame[p][q].sends
        /\ IsPong(frame[p][q]) /\ got[p][q] = HeaderSize + frame[p][q].length
    BY DEF ReadInv, ReadSoFar
  <2>2. frame[p][q].sends \in 0..(HeaderSize + frame[p][q].length) /\ frame[p][q].length \in Nat
    BY <2>1, FramesAreAnswers
  <2> QED
    BY <2>1, <2>2, PositiveSizes DEF IsPong, AcceptableLength
<1> QED
  BY <1>1, <1>2, <1>3, TypesInvariant, PTL DEF Spec

-----------------------------------------------------------------------------
(* While a stop() is under way the service stays started, its event set    *)
(* and its thread the one that is joined; in the end that thread is dead   *)
(* or abandoned.                                                           *)
OneStop ==
    \A c \in Callers : call[c] # "idle" =>
        /\ c \in Stoppers /\ started /\ stopEvent /\ joinee[c] = thread
        /\ call[c] = "finish" => pinger[thread] = "dead" \/ thread \in abandoned

NoneLost ==
    \A p \in Pingers : Alive(p) =>
        /\ (started /\ p = thread) \/ p \in abandoned
        /\ started \/ stopEvent

SingleStopper == \A c, d \in Stoppers : c = d

StopInv == OneStop /\ NoneLost

LEMMA ServiceKeepsCount ==
    ASSUME SingleStopper, TypeInv, StopInv, NEW c \in Callers, ServiceStep(c)
    PROVE  StopInv'
<1> USE DEF TypeInv, TypeOK, StopInv, service, calls
<1>1. CASE Start(c)
  <2>1. PICK p \in Pingers : /\ pinger[p] = "new" /\ thread' = p
                             /\ pinger' = [pinger EXCEPT ![p] = "test"]
    BY <1>1 DEF Start, At
  <2>2. \A d \in Callers : call'[d] = "idle"
    BY <1>1 DEF Start, OneStop
  <2> QED
    BY <1>1, <2>1, <2>2 DEF Start, OneStop, NoneLost, Alive
<1>2. CASE StopBegins(c)
  <2>1. \A d \in Callers \ {c} : call'[d] = "idle"
    BY <1>2 DEF StopBegins, OneStop, SingleStopper
  <2>2. OneStop'
    BY <1>2, <2>1 DEF StopBegins, OneStop
  <2>3. NoneLost'
    BY <1>2 DEF StopBegins, NoneLost, Alive
  <2> QED
    BY <2>2, <2>3
<1>3. CASE Join(c)
  <2>1. joinee[c] = thread /\ thread \in Pingers /\ pinger[thread] # "new"
    BY <1>3 DEF Join, OneStop, ThreadsExist
  <2>2. pinger'[thread] = "dead" \/ thread \in abandoned'
    BY <1>3, <2>1 DEF Join, Alive
  <2>3. abandoned \subseteq abandoned'
    BY <1>3 DEF Join
  <2>4. OneStop'
    BY <1>3, <2>1, <2>2, <2>3 DEF Join, OneStop
  <2>5. NoneLost'
    BY <1>3, <2>3 DEF Join, NoneLost, Alive
  <2> QED
    BY <2>4, <2>5
<1>4. CASE StopReturns(c)
  <2>1. /\ c \in Stoppers /\ stopEvent
        /\ pinger[thread] = "dead" \/ thread \in abandoned
    BY <1>4 DEF StopReturns, OneStop
  <2>2. \A d \in Callers : call'[d] = "idle"
    BY <1>4, <2>1 DEF StopReturns, OneStop, SingleStopper
  <2> QED
    BY <1>4, <2>1, <2>2 DEF StopReturns, OneStop, NoneLost, Alive
<1> QED
  BY <1>1, <1>2, <1>3, <1>4 DEF ServiceStep, Stop

LEMMA LoopKeepsCount ==
    ASSUME TypeInv, StopInv, NEW p \in Pingers, Loop(p)
    PROVE  StopInv'
<1>1. UNCHANGED <<service, calls>> /\ Alive(p) /\ pinger[p] # "dead"
  BY DEF Loop, Test, List, RoundEnds, Caught, Rest, Wake, Alive
<1>2. \A p2 \in Pingers \ {p} : pinger'[p2] = pinger[p2]
  BY DEF Loop, Test, List, RoundEnds, Caught, Rest, Wake, At, TypeInv, TypeOK
<1> QED
  BY <1>1, <1>2 DEF StopInv, OneStop, NoneLost, Alive, service, calls, ThreadsExist,
                    TypeInv, TypeOK

(* With a single thread that calls stop(), and any number that call        *)
(* start(), every pinger is known to the service or was given up by a      *)
(* stop(), and can be ended.                                               *)
THEOREM PingersStayInReach ==
    ASSUME SingleStopper
    PROVE  Spec => []PingersAccounted
<1>1. Init => StopInv
  BY DEF Init, StopInv, OneStop, NoneLost, Alive
<1>2. TypeInv /\ StopInv /\ [Next]_vars => StopInv'
  <2>1. ASSUME StopInv, UNCHANGED vars PROVE StopInv'
    BY <2>1 DEF vars, service, calls, StopInv, OneStop, NoneLost, Alive
  <2>2. ASSUME StopInv, NEW p \in Pingers, NEW q \in Peers, Ping(p, q) PROVE StopInv'
    <3>1. UNCHANGED <<service, calls, pinger>>
      BY <2>2 DEF Ping, Take, Connect, Receive, Fails, Decode
    <3> QED
      BY <2>2, <3>1 DEF service, calls, StopInv, OneStop, NoneLost, Alive
  <2> QED
    BY <2>1, <2>2, LoopKeepsCount, ServiceKeepsCount DEF Next, ServiceStep
<1>3. StopInv => PingersAccounted
  BY DEF StopInv, NoneLost, PingersAccounted
<1> QED
  BY <1>1, <1>2, <1>3, TypesInvariant, PTL DEF Spec
=============================================================================
