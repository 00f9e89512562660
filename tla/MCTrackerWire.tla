--------------------------- MODULE MCTrackerWire ---------------------------
(* Small sets for TrackerWire: ids of two symbols, all reserved ones among  *)
(* them, and replies with up to two peers.                                  *)
EXTENDS TrackerWire

TheSymbols ==
    <<"space", "%", "&", "+", "-", "0", "1", "2", "3", "4", "5", "6", "7", "8", "9", ":", "=", "_",
      "complete", "d", "e", "failure_reason", "host", "i", "incomplete", "interval", "ip", "l",
      "peer_id", "peers", "port", "reason", "x", "y", "xff">>

Ids == [1..2 -> {"x", "space", "%", "&", "+", "="}]

SomeRequests ==
    [info_hash : Ids, peer_id : {<<"x", "y">>, <<"+", "&">>}, port : {1},
     uploaded : {0}, downloaded : {10}, left : {0, 12}, event : {"none"} \cup EventNames,
     own : {<<>>, <<<<"key", <<"1">>>>>>}]

Peer(id) == [peer_id |-> id, ip |-> <<"host">>, port |-> 9]

SomeResponses ==
    [interval : {1, 30}, complete : {0, 1}, incomplete : {2},
     peers : {<<>>, <<Peer(<<"x", "y">>)>>, <<Peer(<<"x", "x">>), Peer(<<"e", "0">>)>>}]

DamagedSymbols == {"space", "+", "-", "0", "1", "_", ":", "d", "e", "i", "l", "x", "xff",
                   "complete", "failure_reason", "ip", "peers", "port"}
=============================================================================
