---------------------------- MODULE MCPeerServer ----------------------------
(* Small instances of PeerServer. *)
EXTENDS PeerServer

CONSTANTS c1, c2, p1

TwoConns == {c1, c2}
OnePeer  == {p1}
OnePiece == {0}

AllFaults == {"giveUp", "send", "disk", "join"}
=============================================================================
