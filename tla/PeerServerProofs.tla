-------------------------- MODULE PeerServerProofs --------------------------
(***************************************************************************)
(* Proofs about PeerServer, for any number of connections, peers and       *)
(* pieces.                                                                 *)
(***************************************************************************)
EXTENDS PeerServer, TLAPS

(* Who is registered: the handlers that run, and the one about to start.   *)
WorkersAreAlive ==
    \A c \in Conns : c \in workers <=> Alive(c) \/ (acceptor = "launch" /\ inHand = c)

(* A connection in the accept loop's hands has no handler yet.             *)
HandHolds ==
    acceptor \in {"register", "launch"} => inHand \in Conns /\ conn[inHand] = "accepted"

(* The accept loop lives only while the server is started, and is gone     *)
(* when stop() lists the handlers; stop() forgets none.                    *)
StopOrder ==
    /\ acceptor # "none" => started /\ owner # "joinWorkers"
    /\ owner # "idle" => started
    /\ owner = "joinWorkers" => workers \subseteq toJoin \cup abandoned
    /\ ~started => workers \subseteq abandoned

(* A piece that was received is counted, or its handler is about to.       *)
SoonCounted == \A c \in Received : c \in counted \/ conn[c] = "account"

Threads == WorkersAreAlive /\ StopOrder /\ SoonCounted

Safe == TypeOK /\ HandHolds

-----------------------------------------------------------------------------
(* Types and the connection in hand go together: what is registered and    *)
(* launched is a connection.                                               *)
LEMMA SafeStep == Safe /\ [Next]_vars => Safe'
<1> SUFFICES ASSUME Safe, [Next]_vars
             PROVE  Safe'
  OBVIOUS
<1> USE DEF Safe, TypeOK, HandHolds, Stage, Stages, Responses, lifecycle, accepting, content
<1>1. CASE UNCHANGED vars
  BY <1>1 DEF vars
<1>2. CASE Owner \/ Stopping
  <2>1. CASE Start  BY <2>1 DEF Start
  <2>2. CASE StopBegins  BY <2>2 DEF StopBegins
  <2>3. CASE AcceptJoined  BY <2>3 DEF AcceptJoined
  <2>4. CASE \E c \in Conns : WorkerJoined(c)  BY <2>4 DEF WorkerJoined
  <2>5. CASE StopReturns  BY <2>5 DEF StopReturns
  <2> QED  BY <1>2, <2>1, <2>2, <2>3, <2>4, <2>5 DEF Owner, Stopping
<1>3. CASE Acceptor
  <2>1. CASE LoopTest  BY <2>1 DEF LoopTest
  <2>2. CASE \E c \in Conns : Accept(c)  BY <2>2 DEF Accept
  <2>3. CASE AcceptNothing  BY <2>3 DEF AcceptNothing
  <2>4. CASE RegisterWorker  BY <2>4 DEF RegisterWorker
  <2>5. CASE LaunchWorker  BY <2>5 DEF LaunchWorker
  <2> QED  BY <1>3, <2>1, <2>2, <2>3, <2>4, <2>5 DEF Acceptor
<1>4. ASSUME NEW c \in Conns, Handler(c)
      PROVE  Safe'
  <2>1. CASE Dispatch(c)
    <3>1. /\ conn[c] = "launched"
          /\ conn' = [conn EXCEPT ![c] = "respond"]
          /\ UNCHANGED <<started, listening, stopEvent, owner, toJoin, abandoned, acceptor, inHand,
                         workers, message, got, counted>>
      BY <2>1 DEF Dispatch
    <3>2. message[c] \in Messages
      OBVIOUS
    <3>3. CASE message[c].kind = "REQUEST" /\ Serve(c) /\ UNCHANGED interested
      BY <3>1, <3>3 DEF Serve
    <3>4. CASE /\ interested' = interested \cup {message[c].peer}
               /\ response' = [response EXCEPT ![c] = "UNCHOKE"]
               /\ UNCHANGED bitfield
      BY <3>1, <3>2, <3>4 DEF Messages
    <3>5. CASE /\ response' = [response EXCEPT ![c] = Answer(message[c].kind)]
               /\ UNCHANGED <<interested, bitfield>>
      BY <3>1, <3>5 DEF Answer
    <3> QED  BY <2>1, <3>3, <3>4, <3>5 DEF Dispatch
  <2>2. CASE DispatchFails(c)  BY <2>2 DEF DispatchFails
  <2>3. CASE Send(c)  BY <2>3 DEF Send
  <2>4. CASE SendFails(c)  BY <2>4 DEF SendFails
  <2>5. CASE Account(c)  BY <2>5 DEF Account
  <2>6. CASE Close(c)  BY <2>6 DEF Close
  <2> QED  BY <1>4, <2>1, <2>2, <2>3, <2>4, <2>5, <2>6 DEF Handler
<1>5. ASSUME NEW c \in Conns, NEW m \in Messages, Connect(c, m)
      PROVE  Safe'
  BY <1>5 DEF Connect
<1>6. ASSUME NEW c \in Conns, GiveUp(c)
      PROVE  Safe'
  BY <1>6 DEF GiveUp
<1>7. ASSUME NEW i \in Pieces, PieceArrives(i)
      PROVE  Safe'
  BY <1>7 DEF PieceArrives
<1> QED  BY <1>1, <1>2, <1>3, <1>4, <1>5, <1>6, <1>7 DEF Next

LEMMA SafeInit == Init => Safe
<1> SUFFICES ASSUME Init
             PROVE  Safe
  OBVIOUS
<1>1. [kind |-> "BAD", peer |-> CHOOSE p \in Peers : TRUE] \in Messages
  <2>1. (CHOOSE p \in Peers : TRUE) \in Peers
    BY SomePeer
  <2> QED  BY <2>1 DEF Messages
<1>2. message \in [Conns -> Messages]
  BY <1>1 DEF Init
<1> QED  BY <1>2 DEF Init, Safe, TypeOK, HandHolds, Stages, Responses

(* The variables keep their types; no step registers or launches a         *)
(* handler without a connection.                                           *)
THEOREM TypeCorrect == Spec => []TypeOK
<1>1. Safe => TypeOK
  BY DEF Safe
<1> QED  BY <1>1, SafeInit, SafeStep, PTL DEF Spec

-----------------------------------------------------------------------------
(* stop() waits for the accept loop first, then for the handlers it        *)
(* registered, and a handler counts before it unregisters.                 *)
LEMMA ThreadsStep == Safe /\ Threads /\ [Next]_vars => Threads'
<1> SUFFICES ASSUME Safe, Threads, [Next]_vars
             PROVE  Threads'
  OBVIOUS
<1> USE DEF Safe, TypeOK, HandHolds, Threads, WorkersAreAlive, StopOrder, SoonCounted,
       Received, Alive, Stage, Stages, lifecycle, accepting, content
<1>1. CASE UNCHANGED vars
  BY <1>1 DEF vars
<1>2. CASE Owner \/ Stopping
  <2>1. CASE Start  BY <2>1 DEF Start
  <2>2. CASE StopBegins  BY <2>2 DEF StopBegins
  <2>3. CASE AcceptJoined  BY <2>3 DEF AcceptJoined
  <2>4. CASE \E c \in Conns : WorkerJoined(c)  BY <2>4 DEF WorkerJoined
  <2>5. CASE StopReturns  BY <2>5 DEF StopReturns
  <2> QED  BY <1>2, <2>1, <2>2, <2>3, <2>4, <2>5 DEF Owner, Stopping
<1>3. CASE Acceptor
  <2>1. CASE LoopTest  BY <2>1 DEF LoopTest
  <2>2. CASE \E c \in Conns : Accept(c)  BY <2>2 DEF Accept
  <2>3. CASE AcceptNothing  BY <2>3 DEF AcceptNothing
  <2>4. CASE RegisterWorker  BY <2>4 DEF RegisterWorker
  <2>5. CASE LaunchWorker  BY <2>5 DEF LaunchWorker
  <2> QED  BY <1>3, <2>1, <2>2, <2>3, <2>4, <2>5 DEF Acceptor
<1>4. ASSUME NEW c \in Conns, Handler(c)
      PROVE  Threads'
  <2>1. CASE Dispatch(c)  BY <2>1 DEF Dispatch
  <2>2. CASE DispatchFails(c)  BY <2>2 DEF DispatchFails
  <2>3. CASE Send(c)  BY <2>3 DEF Send
  <2>4. CASE SendFails(c)  BY <2>4 DEF SendFails
  <2>5. CASE Account(c)  BY <2>5 DEF Account
  <2>6. CASE Close(c)  BY <2>6 DEF Close
  <2> QED  BY <1>4, <2>1, <2>2, <2>3, <2>4, <2>5, <2>6 DEF Handler
<1>5. ASSUME NEW c \in Conns, NEW m \in Messages, Connect(c, m)
      PROVE  Threads'
  BY <1>5 DEF Connect
<1>6. ASSUME NEW c \in Conns, GiveUp(c)
      PROVE  Threads'
  BY <1>6 DEF GiveUp
<1>7. ASSUME NEW i \in Pieces, PieceArrives(i)
      PROVE  Threads'
  BY <1>7 DEF PieceArrives
<1> QED  BY <1>1, <1>2, <1>3, <1>4, <1>5, <1>6, <1>7 DEF Next

(* Once stop() has returned nothing of the server runs but the handlers it *)
(* gave up on, and the counter has every piece the others delivered.       *)
THEOREM StopIsClean == Spec => []StoppedMeansAccounted
<1>1. Init => Threads
  BY DEF Init, Threads, WorkersAreAlive, StopOrder, SoonCounted, Received, Alive
<1>2. Safe /\ Threads => StoppedMeansAccounted
  BY DEF Safe, TypeOK, Threads, WorkersAreAlive, StopOrder, SoonCounted,
         StoppedMeansAccounted, Received, Alive
<1> QED  BY <1>1, <1>2, ThreadsStep, SafeInit, SafeStep, PTL DEF Spec

-----------------------------------------------------------------------------
(* A connection whose handler has not answered yet.                        *)
Fresh(c) == conn[c] \in {"unused", "backlog", "accepted", "launched"}

(* Interest is recorded before UNCHOKE is sent, looked up before a PIECE   *)
(* is, and never withdrawn.                                                *)
Entitled ==
    /\ \A c \in Conns : Fresh(c) => response[c] = "none" /\ got[c] \in {"none", "gaveUp"}
    /\ \A c \in Conns : got[c] \in {"UNCHOKE", "PIECE"} => got[c] = response[c]
    /\ \A c \in Conns : response[c] = "UNCHOKE" =>
          message[c].kind = "INTERESTED" /\ message[c].peer \in interested
    /\ \A c \in Conns : response[c] = "PIECE" => message[c].peer \in interested
    /\ \A p \in interested : \E d \in Conns :
          message[d].kind = "INTERESTED" /\ message[d].peer = p /\ response[d] = "UNCHOKE"

LEMMA EntitledStep == Safe /\ Entitled /\ [Next]_vars => Entitled'
<1> SUFFICES ASSUME Safe, Entitled, [Next]_vars
             PROVE  Entitled'
  OBVIOUS
<1> USE DEF Safe, TypeOK, HandHolds, Entitled, Fresh, Stage, lifecycle, accepting, content
<1>1. CASE UNCHANGED vars
  BY <1>1 DEF vars
<1>2. CASE Owner \/ Stopping
  <2>1. CASE Start  BY <2>1 DEF Start
  <2>2. CASE StopBegins  BY <2>2 DEF StopBegins
  <2>3. CASE AcceptJoined  BY <2>3 DEF AcceptJoined
  <2>4. CASE \E c \in Conns : WorkerJoined(c)  BY <2>4 DEF WorkerJoined
  <2>5. CASE StopReturns  BY <2>5 DEF StopReturns
  <2> QED  BY <1>2, <2>1, <2>2, <2>3, <2>4, <2>5 DEF Owner, Stopping
<1>3. CASE Acceptor
  <2>1. CASE LoopTest  BY <2>1 DEF LoopTest
  <2>2. CASE \E c \in Conns : Accept(c)  BY <2>2 DEF Accept
  <2>3. CASE AcceptNothing  BY <2>3 DEF AcceptNothing
  <2>4. CASE RegisterWorker  BY <2>4 DEF RegisterWorker
  <2>5. CASE LaunchWorker  BY <2>5 DEF LaunchWorker
  <2> QED  BY <1>3, <2>1, <2>2, <2>3, <2>4, <2>5 DEF Acceptor
<1>4. ASSUME NEW c \in Conns, Handler(c)
      PROVE  Entitled'
  <2>1. CASE Dispatch(c)
    <3>1. /\ conn[c] = "launched" /\ response[c] = "none"
          /\ conn' = [conn EXCEPT ![c] = "respond"]
          /\ UNCHANGED <<message, got>>
      BY <2>1 DEF Dispatch
    <3>2. CASE message[c].kind = "REQUEST" /\ Serve(c) /\ UNCHANGED interested
      BY <3>1, <3>2 DEF Serve, Responses
    <3>3. CASE /\ message[c].kind = "INTERESTED"
               /\ interested' = interested \cup {message[c].peer}
               /\ response' = [response EXCEPT ![c] = "UNCHOKE"]
      BY <3>1, <3>3 DEF Responses
    <3>4. CASE /\ response' = [response EXCEPT ![c] = Answer(message[c].kind)]
               /\ UNCHANGED interested
      BY <3>1, <3>4 DEF Answer, Responses
    <3> QED  BY <2>1, <3>2, <3>3, <3>4 DEF Dispatch
  <2>2. CASE DispatchFails(c)  BY <2>2 DEF DispatchFails
  <2>3. CASE Send(c)  BY <2>3 DEF Send
  <2>4. CASE SendFails(c)  BY <2>4 DEF SendFails
  <2>5. CASE Account(c)  BY <2>5 DEF Account
  <2>6. CASE Close(c)  BY <2>6 DEF Close
  <2> QED  BY <1>4, <2>1, <2>2, <2>3, <2>4, <2>5, <2>6 DEF Handler
<1>5. ASSUME NEW c \in Conns, NEW m \in Messages, Connect(c, m)
      PROVE  Entitled'
  BY <1>5 DEF Connect
<1>6. ASSUME NEW c \in Conns, GiveUp(c)
      PROVE  Entitled'
  BY <1>6 DEF GiveUp
<1>7. ASSUME NEW i \in Pieces, PieceArrives(i)
      PROVE  Entitled'
  BY <1>7 DEF PieceArrives
<1> QED  BY <1>1, <1>2, <1>3, <1>4, <1>5, <1>6, <1>7 DEF Next

(* UNCHOKE holds for good, and a PIECE is preceded by one.                 *)
THEOREM UnchokeLasts == Spec => []UnchokeIsKept
<1>1. Init => Entitled
  BY DEF Init, Entitled, Fresh
<1>2. Safe /\ Entitled => UnchokeIsKept
  BY DEF Safe, TypeOK, Entitled, UnchokeIsKept, Received
<1> QED  BY <1>1, <1>2, EntitledStep, SafeInit, SafeStep, PTL DEF Spec

-----------------------------------------------------------------------------
(* A handler comes to its accounting only through a send, and once past it *)
(* what its client has received changes no more.                           *)
SentFirst ==
    /\ \A c \in Conns : conn[c] = "account" => got[c] \in {"PIECE", "gaveUp"}
    /\ \A c \in counted : conn[c] \in {"close", "closed"} /\ got[c] \in {"PIECE", "gaveUp"}

LEMMA SentFirstStep == Safe /\ SentFirst /\ [Next]_vars => SentFirst'
<1> SUFFICES ASSUME Safe, SentFirst, [Next]_vars
             PROVE  SentFirst'
  OBVIOUS
<1> USE DEF Safe, TypeOK, HandHolds, SentFirst, Stage, lifecycle, accepting, content
<1>1. CASE UNCHANGED vars
  BY <1>1 DEF vars
<1>2. CASE Owner \/ Stopping
  <2>1. CASE Start  BY <2>1 DEF Start
  <2>2. CASE StopBegins  BY <2>2 DEF StopBegins
  <2>3. CASE AcceptJoined  BY <2>3 DEF AcceptJoined
  <2>4. CASE \E c \in Conns : WorkerJoined(c)  BY <2>4 DEF WorkerJoined
  <2>5. CASE StopReturns  BY <2>5 DEF StopReturns
  <2> QED  BY <1>2, <2>1, <2>2, <2>3, <2>4, <2>5 DEF Owner, Stopping
<1>3. CASE Acceptor
  <2>1. CASE LoopTest  BY <2>1 DEF LoopTest
  <2>2. CASE \E c \in Conns : Accept(c)  BY <2>2 DEF Accept
  <2>3. CASE AcceptNothing  BY <2>3 DEF AcceptNothing
  <2>4. CASE RegisterWorker  BY <2>4 DEF RegisterWorker
  <2>5. CASE LaunchWorker  BY <2>5 DEF LaunchWorker
  <2> QED  BY <1>3, <2>1, <2>2, <2>3, <2>4, <2>5 DEF Acceptor
<1>4. ASSUME NEW c \in Conns, Handler(c)
      PROVE  SentFirst'
  <2>1. CASE Dispatch(c)  BY <2>1 DEF Dispatch
  <2>2. CASE DispatchFails(c)  BY <2>2 DEF DispatchFails
  <2>3. CASE Send(c)  BY <2>3 DEF Send
  <2>4. CASE SendFails(c)  BY <2>4 DEF SendFails
  <2>5. CASE Account(c)  BY <2>5 DEF Account
  <2>6. CASE Close(c)  BY <2>6 DEF Close
  <2> QED  BY <1>4, <2>1, <2>2, <2>3, <2>4, <2>5, <2>6 DEF Handler
<1>5. ASSUME NEW c \in Conns, NEW m \in Messages, Connect(c, m)
      PROVE  SentFirst'
  BY <1>5 DEF Connect
<1>6. ASSUME NEW c \in Conns, GiveUp(c)
      PROVE  SentFirst'
  BY <1>6 DEF GiveUp
<1>7. ASSUME NEW i \in Pieces, PieceArrives(i)
      PROVE  SentFirst'
  BY <1>7 DEF PieceArrives
<1> QED  BY <1>1, <1>2, <1>3, <1>4, <1>5, <1>6, <1>7 DEF Next

(* Only uploads that were sent are counted, though the send and the count  *)
(* are two steps and the client may leave at any of them.                  *)
THEOREM CountIsEarned == Spec => []CountedWereSent
<1>1. Init => SentFirst
  BY DEF Init, SentFirst
<1>2. SentFirst => CountedWereSent
  BY DEF SentFirst, CountedWereSent
<1> QED  BY <1>1, <1>2, SentFirstStep, SafeInit, SafeStep, PTL DEF Spec
=============================================================================
