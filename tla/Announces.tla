----------------------------- MODULE Announces -----------------------------
(***************************************************************************)
(* The announces peers send and the replies they get, as the parser        *)
(* (tracker_server.py) and the reply builder (tracker_state.py) see them.  *)
(***************************************************************************)
EXTENDS Integers, FiniteSets

CONSTANTS Torrents,   \* info hashes
          Peers,      \* peer ids
          NoRequest   \* a caller with no announce under way

Events == {"started", "completed", "stopped", "none"}

(* An announce as the parser lets it through.  Of the byte counters only   *)
(* whether `left` is zero matters to the tracker, and not even that in an  *)
(* announce of `stopped`.                                                  *)
Requests == {r \in [torrent : Torrents, peer : Peers, event : Events,
                    leftZero : BOOLEAN] : r.event = "stopped" => r.leftZero}

Replies == [kind       : {"none", "ok", "refused", "error"},
            complete   : Nat,
            incomplete : Nat,
            peers      : SUBSET Peers]

ASSUME NoRequestIsNone == NoRequest \notin Requests

Empty(kind) == [kind |-> kind, complete |-> 0, incomplete |-> 0, peers |-> {}]
NoReply     == Empty("none")

(* The reply built from a swarm: its two counts, and its members other     *)
(* than the requester.                                                     *)
Snapshot(swarm, complete, p) ==
    [kind       |-> "ok",
     complete   |-> Cardinality(complete),
     incomplete |-> Cardinality(swarm) - Cardinality(complete),
     peers      |-> swarm \ {p}]

(* The announced peer is a seed afterwards when it has nothing left, and   *)
(* `completed` says so whatever the byte counter said.                     *)
IsSeeding(r) == r.event = "completed" \/ r.leftZero
=============================================================================
