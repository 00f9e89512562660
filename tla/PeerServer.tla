----------------------------- MODULE PeerServer -----------------------------
(***************************************************************************)
(* peer/peer_server.py: the thread that calls start() and stop(), the      *)
(* accept loop and one handler thread per connection, each carrying one    *)
(* request and one response.  The bytes counted by TransferStats are the   *)
(* set of connections whose upload was counted.                            *)
(***************************************************************************)
EXTENDS Naturals, FiniteSets

CONSTANTS Conns,      \* the connections clients may open, one request each
          Peers,      \* remote peer ids
          Pieces,     \* valid piece indices of the served torrent
          NoConn,     \* the accept loop holds no connection
          Faults      \* the faults that may occur

ASSUME NoConnIsNone == NoConn \notin Conns
ASSUME SomePeer == Peers # {}
ASSUME KnownFaults == Faults \subseteq {"giveUp", "send", "disk", "join"}

(* What arrives: the four requests, or anything the server answers with    *)
(* ERROR at once (unsupported, malformed, another torrent, nothing in time)*)
Messages ==
    [kind : {"PING", "BITFIELD_REQUEST", "INTERESTED", "BAD"}, peer : Peers]
    \cup [kind : {"REQUEST"}, peer : Peers, index : Pieces]

Responses == {"none", "PONG", "BITFIELD", "UNCHOKE", "PIECE", "ERROR"}

VARIABLES
    started,     \* _started
    listening,   \* _listener is an open socket
    stopEvent,   \* _stop_event
    owner,       \* the thread in start()/stop(): "idle", "joinAccept", "joinWorkers"
    toJoin,      \* the handler threads stop() has still to join
    abandoned,   \* history: handlers stop() has given up waiting for
    acceptor,    \* the accept thread: "none", "loop", "accept", "register", "launch"
    inHand,      \* the connection it has accepted
    workers,     \* _worker_threads
    conn,        \* [Conns -> stage of the connection]
    message,     \* [Conns -> the request sent on it]
    response,    \* [Conns -> what its handler has to send]
    got,         \* [Conns -> what its client has received]
    interested,  \* _interested_peers
    bitfield,    \* the PieceManager's bitfield
    counted      \* the uploads in transfer_stats

lifecycle == <<started, listening, stopEvent, owner, toJoin, abandoned>>
accepting == <<acceptor, inHand>>
content   == <<interested, bitfield, counted>>
vars == <<lifecycle, accepting, workers, conn, message, response, got, content>>

Stages == {"unused", "backlog", "accepted", "launched", "respond", "account",
           "close", "closed", "refused"}
Alive(c) == conn[c] \in {"launched", "respond", "account", "close"}

TypeOK ==
    /\ started \in BOOLEAN /\ listening \in BOOLEAN /\ stopEvent \in BOOLEAN
    /\ owner \in {"idle", "joinAccept", "joinWorkers"}
    /\ toJoin \subseteq Conns /\ abandoned \subseteq Conns
    /\ acceptor \in {"none", "loop", "accept", "register", "launch"}
    /\ inHand \in Conns \cup {NoConn}
    /\ workers \subseteq Conns
    /\ conn \in [Conns -> Stages]
    /\ message \in [Conns -> Messages]
    /\ response \in [Conns -> Responses]
    /\ got \in [Conns -> Responses \cup {"gaveUp"}]
    /\ interested \subseteq Peers
    /\ bitfield \subseteq Pieces
    /\ counted \subseteq Conns

Init ==
    /\ started = FALSE /\ listening = FALSE /\ stopEvent = FALSE
    /\ owner = "idle" /\ toJoin = {} /\ abandoned = {}
    /\ acceptor = "none" /\ inHand = NoConn
    /\ workers = {}
    /\ conn = [c \in Conns |-> "unused"]
    /\ message = [c \in Conns |-> [kind |-> "BAD", peer |-> CHOOSE p \in Peers : TRUE]]
    /\ response = [c \in Conns |-> "none"]
    /\ got = [c \in Conns |-> "none"]
    /\ interested = {}
    /\ bitfield \in SUBSET Pieces
    /\ counted = {}

Stage(c, s) == conn' = [conn EXCEPT ![c] = s]

-----------------------------------------------------------------------------
(* The owner: start() and stop().                                          *)

(* bind, listen, clear the stop event, start the accept thread.  A bind    *)
(* that fails raises and changes nothing.                                  *)
Start ==
    /\ owner = "idle" /\ ~started
    /\ started' = TRUE /\ listening' = TRUE /\ stopEvent' = FALSE
    /\ acceptor' = "loop"
    /\ UNCHANGED <<owner, toJoin, abandoned, inHand, workers, conn, message, response,
                   got, content>>

(* Mutant of StopBegins: the accept thread is joined before it is told.    *)
StopBegins_swapped ==
    /\ owner = "idle" /\ started
    /\ owner' = "joinAccept"
    /\ UNCHANGED <<started, listening, stopEvent, toJoin, abandoned, accepting, workers,
                   conn, message, response, got, content>>

(* The stop event is set and the listener closed, which resets the         *)
(* connections nobody has accepted.                                        *)
StopBegins ==
    /\ owner = "idle" /\ started
    /\ stopEvent' = TRUE /\ listening' = FALSE
    /\ conn' = [c \in Conns |-> IF conn[c] = "backlog" THEN "refused" ELSE conn[c]]
    /\ owner' = "joinAccept"
    /\ UNCHANGED <<started, toJoin, abandoned, accepting, workers, message, response,
                   got, content>>

(* Mutant of AcceptJoined: the accept thread is not waited for.            *)
AcceptJoined_early ==
    /\ owner = "joinAccept"
    /\ toJoin' = workers
    /\ owner' = "joinWorkers"
    /\ UNCHANGED <<started, listening, stopEvent, abandoned, accepting, workers, conn,
                   message, response, got, content>>

(* accept_thread.join: it looks at the event every 0.2 seconds, so the     *)
(* three seconds of the join are taken to be enough.  Then the handlers    *)
(* still registered are listed.                                            *)
AcceptJoined ==
    /\ owner = "joinAccept"
    /\ acceptor = "none"
    /\ toJoin' = workers
    /\ owner' = "joinWorkers"
    /\ UNCHANGED <<started, listening, stopEvent, abandoned, accepting, workers, conn,
                   message, response, got, content>>

(* worker.join(client_timeout + 1), one after the other; a handler with a  *)
(* slow client may outlast it.                                             *)
WorkerJoined(c) ==
    /\ owner = "joinWorkers"
    /\ c \in toJoin
    /\ conn[c] = "closed" \/ "join" \in Faults
    /\ toJoin' = toJoin \ {c}
    /\ abandoned' = IF conn[c] = "closed" THEN abandoned ELSE abandoned \cup {c}
    /\ UNCHANGED <<started, listening, stopEvent, owner, accepting, workers, conn,
                   message, response, got, content>>

StopReturns ==
    /\ owner = "joinWorkers"
    /\ toJoin = {}
    /\ started' = FALSE
    /\ owner' = "idle"
    /\ UNCHANGED <<listening, stopEvent, toJoin, abandoned, accepting, workers, conn,
                   message, response, got, content>>

-----------------------------------------------------------------------------
(* The accept loop.                                                        *)

LoopTest ==
    /\ acceptor = "loop"
    /\ acceptor' = IF stopEvent \/ ~listening THEN "none" ELSE "accept"
    /\ UNCHANGED <<lifecycle, inHand, workers, conn, message, response, got, content>>

Accept(c) ==
    /\ acceptor = "accept"
    /\ conn[c] = "backlog"
    /\ Stage(c, "accepted")
    /\ inHand' = c
    /\ acceptor' = "register"
    /\ UNCHANGED <<lifecycle, workers, message, response, got, content>>

(* accept() times out, or fails because the listener was closed.           *)
AcceptNothing ==
    /\ acceptor = "accept"
    /\ \A c \in Conns : conn[c] # "backlog"
    /\ acceptor' = IF listening THEN "loop" ELSE "none"
    /\ UNCHANGED <<lifecycle, inHand, workers, conn, message, response, got, content>>

RegisterWorker ==
    /\ acceptor = "register"
    /\ workers' = workers \cup {inHand}
    /\ acceptor' = "launch"
    /\ UNCHANGED <<lifecycle, inHand, conn, message, response, got, content>>

LaunchWorker ==
    /\ acceptor = "launch"
    /\ Stage(inHand, "launched")
    /\ acceptor' = "loop"
    /\ inHand' = NoConn
    /\ UNCHANGED <<lifecycle, workers, message, response, got, content>>

-----------------------------------------------------------------------------
(* A handler: receive, dispatch, send, account, close.                     *)

(* Mutant of Serve: interest is not asked for.                             *)
Serve_anyone(c) ==
    IF message[c].index \in bitfield
    THEN response' = [response EXCEPT ![c] = "PIECE"] /\ UNCHANGED bitfield
    ELSE response' = [response EXCEPT ![c] = "ERROR"] /\ UNCHANGED bitfield

(* _handle_piece_request: only to a peer that said INTERESTED, only a      *)
(* piece whose bit is set.  A piece that has changed on disk loses its bit, *)
(* one whose file has become too short does not.                           *)
Serve(c) ==
    \/ /\ message[c].peer \in interested
       /\ message[c].index \in bitfield
       /\ response' = [response EXCEPT ![c] = "PIECE"]
       /\ UNCHANGED bitfield
    \/ /\ ~(message[c].peer \in interested /\ message[c].index \in bitfield)
       /\ response' = [response EXCEPT ![c] = "ERROR"]
       /\ UNCHANGED bitfield
    \/ /\ "disk" \in Faults
       /\ message[c].peer \in interested
       /\ message[c].index \in bitfield
       /\ response' = [response EXCEPT ![c] = "ERROR"]
       /\ bitfield' \in {bitfield, bitfield \ {message[c].index}}

(* Mutant of Dispatch: the socket has no timeout, a silent client blocks.  *)
Dispatch_blocking(c) ==
    /\ conn[c] = "launched"
    /\ message[c].kind # "BAD"
    /\ Stage(c, "respond")
    /\ response' = [response EXCEPT ![c] = "ERROR"]
    /\ UNCHANGED <<lifecycle, accepting, workers, message, got, content>>

(* What needs no state to be answered.                                     *)
Answer(kind) ==
    IF kind = "PING" THEN "PONG" ELSE IF kind = "BITFIELD_REQUEST" THEN "BITFIELD" ELSE "ERROR"

(* _dispatch, on the message that was received, if one was.                *)
Dispatch(c) ==
    /\ conn[c] = "launched"
    /\ Stage(c, "respond")
    /\ \/ /\ message[c].kind = "REQUEST"
          /\ Serve(c)
          /\ UNCHANGED interested
       \/ /\ message[c].kind = "INTERESTED"
          /\ interested' = interested \cup {message[c].peer}
          /\ response' = [response EXCEPT ![c] = "UNCHOKE"]
          /\ UNCHANGED bitfield
       \/ /\ message[c].kind \notin {"REQUEST", "INTERESTED"}
          /\ response' = [response EXCEPT ![c] = Answer(message[c].kind)]
          /\ UNCHANGED <<interested, bitfield>>
    /\ UNCHANGED <<lifecycle, accepting, workers, message, got, counted>>

(* The storage cannot be read: an OSError, so the connection is closed     *)
(* without an answer.                                                      *)
DispatchFails(c) ==
    /\ "disk" \in Faults
    /\ conn[c] = "launched"
    /\ message[c].kind = "REQUEST"
    /\ message[c].peer \in interested /\ message[c].index \in bitfield
    /\ Stage(c, "close")
    /\ UNCHANGED <<lifecycle, accepting, workers, message, response, got, content>>

(* send_message; only a PIECE leaves something to account for.             *)
Send(c) ==
    /\ conn[c] = "respond"
    /\ got' = [got EXCEPT ![c] = IF @ = "gaveUp" THEN @ ELSE response[c]]
    /\ Stage(c, IF response[c] = "PIECE" THEN "account" ELSE "close")
    /\ UNCHANGED <<lifecycle, accepting, workers, message, response, content>>

(* Mutant of SendFails: the upload is counted whether it was sent or not.  *)
SendFails_counted(c) ==
    /\ conn[c] = "respond"
    /\ "send" \in Faults \/ got[c] = "gaveUp"
    /\ Stage(c, IF response[c] = "PIECE" THEN "account" ELSE "close")
    /\ UNCHANGED <<lifecycle, accepting, workers, message, response, got, content>>

(* The client is gone, or the frame is too large: nothing is counted.      *)
SendFails(c) ==
    /\ conn[c] = "respond"
    /\ "send" \in Faults \/ got[c] = "gaveUp"
    /\ Stage(c, "close")
    /\ UNCHANGED <<lifecycle, accepting, workers, message, response, got, content>>

Account(c) ==
    /\ conn[c] = "account"
    /\ counted' = counted \cup {c}
    /\ Stage(c, "close")
    /\ UNCHANGED <<lifecycle, accepting, workers, message, response, got, interested, bitfield>>

Close(c) ==
    /\ conn[c] = "close"
    /\ Stage(c, "closed")
    /\ workers' = workers \ {c}
    /\ UNCHANGED <<lifecycle, accepting, message, response, got, content>>

-----------------------------------------------------------------------------
(* Clients, and the worker's own downloads into the shared PieceManager.   *)

Connect(c, m) ==
    /\ conn[c] = "unused"
    /\ message' = [message EXCEPT ![c] = m]
    /\ Stage(c, IF listening THEN "backlog" ELSE "refused")
    /\ UNCHANGED <<lifecycle, accepting, workers, response, got, content>>

GiveUp(c) ==
    /\ "giveUp" \in Faults
    /\ conn[c] \in {"backlog", "accepted", "launched", "respond"}
    /\ got[c] = "none"
    /\ got' = [got EXCEPT ![c] = "gaveUp"]
    /\ UNCHANGED <<lifecycle, accepting, workers, conn, message, response, content>>

PieceArrives(i) ==
    /\ i \notin bitfield
    /\ bitfield' = bitfield \cup {i}
    /\ UNCHANGED <<lifecycle, accepting, workers, conn, message, response, got,
                   interested, counted>>

Owner == Start \/ StopBegins
Stopping == AcceptJoined \/ (\E c \in Conns : WorkerJoined(c)) \/ StopReturns
Acceptor == LoopTest \/ (\E c \in Conns : Accept(c)) \/ AcceptNothing \/ RegisterWorker \/ LaunchWorker
Handler(c) == Dispatch(c) \/ DispatchFails(c) \/ Send(c) \/ SendFails(c) \/ Account(c) \/ Close(c)

Next ==
    \/ Owner \/ Stopping \/ Acceptor
    \/ \E c \in Conns : Handler(c) \/ GiveUp(c) \/ \E m \in Messages : Connect(c, m)
    \/ \E i \in Pieces : PieceArrives(i)

Spec == Init /\ [][Next]_vars

(* Threads run; nobody has to call start() or stop(), or to connect.       *)
FairSpec == /\ Spec
            /\ WF_vars(Stopping)
            /\ WF_vars(Acceptor)
            /\ \A c \in Conns : WF_vars(Handler(c))

-----------------------------------------------------------------------------
Received == {c \in Conns : got[c] = "PIECE"}

(* When stop() has returned, no thread of the server is left, and every    *)
(* piece a client has received is in the upload counter, which run() reads *)
(* right afterwards.  The handlers whose join timed out are the only       *)
(* exception: no other is overlooked, however it raced with the accept     *)
(* loop, the stop and a later start.                                       *)
StoppedMeansAccounted ==
    owner = "idle" /\ ~started =>
        /\ acceptor = "none"
        /\ {c \in Conns : Alive(c)} \cup workers \subseteq abandoned
        /\ Received \subseteq counted \cup abandoned

(* A client that has been told UNCHOKE stays entitled to pieces, though    *)
(* its REQUESTs come on other connections, to other threads, maybe after   *)
(* the server was stopped and started again; and only such clients get one *)
UnchokeIsKept ==
    /\ \A c \in Conns : got[c] = "UNCHOKE" => message[c].peer \in interested
    /\ \A c \in Received : \E d \in Conns :
          /\ message[d].kind = "INTERESTED" /\ message[d].peer = message[c].peer
          /\ response[d] = "UNCHOKE"

(* Nothing is counted for a PIECE whose sending failed under a client that *)
(* was still waiting for it.                                               *)
CountedWereSent == \A c \in counted : got[c] \in {"PIECE", "gaveUp"}

(* Every connection that reaches the server is dealt with: answered,       *)
(* closed or reset, also when stop() is called meanwhile.                  *)
EveryConnectionEnds ==
    \A c \in Conns : conn[c] = "backlog" ~> conn[c] \in {"closed", "refused"}

(* stop() returns.                                                         *)
StopTerminates == owner # "idle" ~> owner = "idle"
=============================================================================
