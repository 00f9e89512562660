--------------------------- MODULE SwarmRegistry ---------------------------
(***************************************************************************)
(* What the tracker promises to the peers that announce to it: a registry  *)
(* of swarms in which every announce takes effect at one instant, and the  *)
(* peer list of its reply is the swarm as it was at that very instant,     *)
(* without the announcing peer.  There are no locks, no timestamps and no  *)
(* threads here; TrackerState is shown to implement this module.           *)
(***************************************************************************)
EXTENDS Announces

CONSTANT Clients      \* the callers that can each have one announce in service

VARIABLES members,    \* [Torrents -> SUBSET Peers], the registered peers
          seeds,      \* [Torrents -> SUBSET Peers], those that announced left = 0
          asked,      \* the announce each caller waits to have served
          answer      \* the reply each caller is about to be given

vars == <<members, seeds, asked, answer>>

-----------------------------------------------------------------------------
TypeOK ==
    /\ members \in [Torrents -> SUBSET Peers]
    /\ seeds \in [Torrents -> SUBSET Peers]
    /\ asked \in [Clients -> Requests \cup {NoRequest}]
    /\ answer \in [Clients -> Replies]

Init ==
    /\ members = [t \in Torrents |-> {}]
    /\ seeds = [t \in Torrents |-> {}]
    /\ asked = [c \in Clients |-> NoRequest]
    /\ answer = [c \in Clients |-> NoReply]

Leave(t, S) ==
    /\ members' = [members EXCEPT ![t] = @ \ S]
    /\ seeds' = [seeds EXCEPT ![t] = @ \ S]

Enter(t, p, seeding) ==
    /\ members' = [members EXCEPT ![t] = @ \cup {p}]
    /\ seeds' = [seeds EXCEPT ![t] = IF seeding THEN @ \cup {p} ELSE @ \ {p}]

(* Mutant of Acceptable: any event introduces a peer.                      *)
Acceptable_anyone(r) == r.event \in Events

(* Only `started` may introduce a peer; `stopped` is accepted from anyone. *)
Acceptable(r) ==
    r.event \in {"started", "stopped"} \/ r.peer \in members[r.torrent]

Apply(r) ==
    IF r.event = "stopped"
    THEN Leave(r.torrent, {r.peer})
    ELSE Enter(r.torrent, r.peer, IsSeeding(r))

Ask(c, r) ==
    /\ asked[c] = NoRequest /\ answer[c] = NoReply
    /\ asked' = [asked EXCEPT ![c] = r]
    /\ UNCHANGED <<members, seeds, answer>>

Serve(c) ==
    LET r == asked[c] IN
    /\ r \in Requests
    /\ Acceptable(r)
    /\ Apply(r)
    /\ asked' = [asked EXCEPT ![c] = NoRequest]
    /\ answer' = [answer EXCEPT ![c] =
                    Snapshot(members'[r.torrent], seeds'[r.torrent], r.peer)]

(* An announce that is turned away leaves the registry as it was.          *)
Refuse(c) ==
    /\ asked[c] \in Requests
    /\ ~Acceptable(asked[c])
    /\ asked' = [asked EXCEPT ![c] = NoRequest]
    /\ answer' = [answer EXCEPT ![c] = Empty("refused")]
    /\ UNCHANGED <<members, seeds>>

(* A query that does not parse is refused without being an announce.       *)
RefuseMalformed(c) ==
    /\ asked[c] = NoRequest /\ answer[c] = NoReply
    /\ answer' = [answer EXCEPT ![c] = Empty("refused")]
    /\ UNCHANGED <<members, seeds, asked>>

(* An internal error is not a refusal: the announce it answers has been    *)
(* applied (the tracker fails after the change, when it logs it).          *)
Fail(c) ==
    /\ asked[c] \in Requests
    /\ Acceptable(asked[c])
    /\ Apply(asked[c])
    /\ asked' = [asked EXCEPT ![c] = NoRequest]
    /\ answer' = [answer EXCEPT ![c] = Empty("error")]

TakeReply(c) ==
    /\ answer[c] # NoReply
    /\ answer' = [answer EXCEPT ![c] = NoReply]
    /\ UNCHANGED <<members, seeds, asked>>

(* Peers also leave without asking: the cleanup thread and remove_peer.    *)
Drop(t, S) ==
    /\ Leave(t, S)
    /\ UNCHANGED <<asked, answer>>

Next ==
    \/ \E c \in Clients :
          \/ \E r \in Requests : Ask(c, r)
          \/ Serve(c) \/ Refuse(c) \/ RefuseMalformed(c) \/ Fail(c) \/ TakeReply(c)
    \/ \E t \in Torrents, S \in SUBSET Peers : Drop(t, S)

Spec == Init /\ [][Next]_vars
=============================================================================
