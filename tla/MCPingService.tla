--------------------------- MODULE MCPingService ---------------------------
(* Small instances of PingService. *)
EXTENDS PingService

CONSTANTS main, other, t1, t2, q1, q2

TwoCallers == {main, other}
OneStopper == {main}
TwoThreads == {t1, t2}
TwoPeers   == {q1, q2}

Answer(type, echoed, meant, length, sends, closes) ==
    [type |-> type, echoed |-> echoed, meant |-> meant, length |-> length,
     sends |-> sends, closes |-> closes]

(* The right PONG, whole and cut off in the payload; a PONG of another     *)
(* exchange or peer; the header of an oversized one.                       *)
SomeAnswers ==
    { Answer("PONG", TRUE, TRUE, 2, 4, TRUE),
      Answer("PONG", TRUE, TRUE, 2, 3, FALSE),
      Answer("PONG", FALSE, TRUE, 1, 3, TRUE),
      Answer("PONG", TRUE, FALSE, 1, 3, TRUE),
      Answer("PONG", TRUE, TRUE, 3, 2, FALSE) }

AllFaults == {"log", "provider"}
=============================================================================
