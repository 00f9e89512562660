--------------------------- MODULE MCTrackerState ---------------------------
(* Small instances of TrackerState. *)
EXTENDS TrackerState, TLC

CONSTANTS t1, p1, p2, h1, h2

OneTorrent == {t1}
OnePeer    == {p1}
TwoPeers   == {p1, p2}
TwoThreads == {h1, h2}

Symmetric == Permutations(Torrents) \cup Permutations(Peers) \cup Permutations(Threads)
=============================================================================
