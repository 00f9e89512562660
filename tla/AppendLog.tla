----------------------------- MODULE AppendLog -----------------------------
(***************************************************************************)
(* What an EventLogger promises to the threads that share a log file: a    *)
(* log that only grows at its end, by exactly the entries of the calls     *)
(* that return.  A call that raises leaves nothing.  Somebody may delete   *)
(* the file, and a process that dies takes its unfinished calls with it,   *)
(* but nothing that was logged before.                                     *)
(***************************************************************************)
EXTENDS Sequences

CONSTANTS Threads, Entries, NoEntry

VARIABLES log,      \* the entries, oldest first
          pending,  \* thread -> the entry of its unfinished call, or NoEntry
          outcome   \* thread -> how its last call ended

vars == <<log, pending, outcome>>

Outcomes == {"none", "logged", "raised"}

Init ==
    /\ log = <<>>
    /\ pending = [t \in Threads |-> NoEntry]
    /\ outcome = [t \in Threads |-> "none"]

Submit(t, entry) ==
    /\ pending[t] = NoEntry
    /\ pending' = [pending EXCEPT ![t] = entry]
    /\ outcome' = [outcome EXCEPT ![t] = "none"]
    /\ UNCHANGED log

Accept(t) ==
    /\ pending[t] # NoEntry
    /\ log' = Append(log, pending[t])
    /\ pending' = [pending EXCEPT ![t] = NoEntry]
    /\ outcome' = [outcome EXCEPT ![t] = "logged"]

Reject(t) ==
    /\ pending[t] # NoEntry
    /\ pending' = [pending EXCEPT ![t] = NoEntry]
    /\ outcome' = [outcome EXCEPT ![t] = "raised"]
    /\ UNCHANGED log

Erase == log' = <<>> /\ UNCHANGED <<pending, outcome>>

Die ==
    /\ pending' = [t \in Threads |-> NoEntry]
    /\ outcome' = [t \in Threads |-> "none"]
    /\ UNCHANGED log

Next ==
    \/ \E t \in Threads : \/ \E entry \in Entries : Submit(t, entry)
                          \/ Accept(t)
                          \/ Reject(t)
    \/ Erase
    \/ Die

Spec == Init /\ [][Next]_vars
=============================================================================
