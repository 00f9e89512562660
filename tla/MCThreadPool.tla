---------------------------- MODULE MCThreadPool ----------------------------
(* Small instances of ThreadPool. *)
EXTENDS ThreadPool

CONSTANTS main, other, j1, j2, j3

OneCaller  == {main}
TwoCallers == {main, other}
TwoJobs    == {j1, j2}
ThreeJobs  == {j1, j2, j3}
OneJob     == {j1}
Nothing    == {}

AllFaults  == {"submit", "raise"}
=============================================================================
