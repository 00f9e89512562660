-------------------------- MODULE MCTorrentWorker --------------------------
(* Small instances of TorrentWorker. *)
EXTENDS TorrentWorker

CONSTANTS t1, s, a

OneTorrent   == {t1}
TwoWorkers   == {s, a}
Seeder       == {s}
Leecher      == {a}
Nobody       == {}

NoFaults  == {}
AllFaults == {"boot", "lost", "timeout", "reset", "error", "evict", "crash", "ping", "piece"}
=============================================================================
