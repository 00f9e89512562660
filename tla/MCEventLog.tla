----------------------------- MODULE MCEventLog -----------------------------
(* Small sets for EventLog: two threads, one text.                          *)
EXTENDS EventLog

CONSTANTS t1, t2, hello

TwoThreads == {t1, t2}
OneText == {hello}
=============================================================================
