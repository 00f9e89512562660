------------------------------ MODULE EventLog ------------------------------
(***************************************************************************)
(* EventLogger of common/event_logger.py: the threads of one process write *)
(* to one log file.  A line is added by reading the whole file, appending  *)
(* to its lines and replacing it by a temporary file, under a lock that    *)
(* the class keeps per path.  The disk may fail at every step, the process *)
(* may die at every step, and others may damage or delete the file between *)
(* two calls.                                                              *)
(***************************************************************************)
EXTENDS Integers, Sequences

CONSTANTS Threads,
          Texts,      \* sanitised events and descriptions
          Free,       \* the value of the lock nobody holds
          Missing,    \* a file that does not exist
          Partial,    \* a temporary file that was not written to its end
          NoEntry,
          MaxDelay,   \* how long a thread may sit on a timestamp
          MaxTime,    \* bound of the clock
          MaxLines    \* bound of the log

ASSUME TimesAreNatural == MaxDelay \in Nat /\ MaxTime \in Nat /\ MaxLines \in Nat
VARIABLES now,      \* datetime.now()
          lock,     \* EventLogger._locks[path]: the thread that holds it, or Free
          file,     \* the log file
          tmp,      \* the file next to it with suffix .tmp
          pc,       \* thread -> where it is
          opened,   \* thread -> it has a logger object
          entry,    \* thread -> the line its call of log() is to add, or NoEntry
          draft,    \* thread -> the content it is about to write
          outcome   \* thread -> how its last call of log() ended

vars == <<now, lock, file, tmp, pc, opened, entry, draft, outcome>>

Times == 0..MaxTime
Entries == [text : Texts, at : Times]

(* The header lines that are looked at when a log is opened or updated.     *)
Header == {"File Name", "Creation", "Last Modified", "Columns"}

Logs == [bad : SUBSET Header, created : Times, modified : Times, lines : Seq(Entries)]

LinesOf(f) == IF f = Missing THEN <<>> ELSE f.lines

ASSUME DistinctValues ==
    /\ Free \notin Threads
    /\ NoEntry \notin Entries
    /\ Missing \notin Logs

(* _initial_lines *)
NewLog(time) == [bad |-> {}, created |-> time, modified |-> time, lines |-> <<>>]

(* _validate_existing_file *)
Opens(log) == log.bad = {}

(* _validate_lines_for_update: it looks at less than the constructor does.  *)
Updates(log) == log.bad \cap {"Creation", "Columns"} = {}

(* The lines that log() writes: "Last Modified" is replaced whatever it was.*)
Updated(log, e) == [bad |-> log.bad \ {"Last Modified"}, created |-> log.created,
                    modified |-> e.at, lines |-> Append(log.lines, e)]

Init ==
    /\ now = 0
    /\ lock = Free
    /\ file = Missing
    /\ tmp = Missing
    /\ pc = [t \in Threads |-> "idle"]
    /\ opened = [t \in Threads |-> FALSE]
    /\ entry = [t \in Threads |-> NoEntry]
    /\ draft = [t \in Threads |-> Missing]
    /\ outcome = [t \in Threads |-> "none"]

-----------------------------------------------------------------------------
(* The `with` statement is left, whether by a return or by an exception.    *)
Leave(t, how) ==
    /\ lock' = Free
    /\ pc' = [pc EXCEPT ![t] = "idle"]
    /\ entry' = [entry EXCEPT ![t] = NoEntry]
    /\ draft' = [draft EXCEPT ![t] = Missing]
    /\ outcome' = [outcome EXCEPT ![t] = IF opened[t] THEN how ELSE @]

(* The constructor on a path where there is no file writes a new one ...    *)
Create(t) ==
    /\ pc[t] = "idle" /\ ~opened[t]
    /\ lock = Free
    /\ file = Missing
    /\ lock' = t
    /\ draft' = [draft EXCEPT ![t] = NewLog(now)]
    /\ pc' = [pc EXCEPT ![t] = "writing"]
    /\ UNCHANGED <<now, file, tmp, opened, entry, outcome>>

(* ... and one on a path where there is a file raises if it is no log.      *)
Open(t) ==
    /\ pc[t] = "idle" /\ ~opened[t]
    /\ lock = Free
    /\ file # Missing
    /\ Opens(file)
    /\ opened' = [opened EXCEPT ![t] = TRUE]
    /\ UNCHANGED <<now, lock, file, tmp, pc, entry, draft, outcome>>

(* Mutant of Call: a timestamp kept from an earlier call.                  *)
Call_dated(t) ==
    /\ pc[t] = "idle" /\ opened[t]
    /\ Len(LinesOf(file)) < MaxLines
    /\ \E text \in Texts : entry' = [entry EXCEPT ![t] = [text |-> text, at |-> 0]]
    /\ pc' = [pc EXCEPT ![t] = "waiting"]
    /\ outcome' = [outcome EXCEPT ![t] = "none"]
    /\ UNCHANGED <<now, lock, file, tmp, opened, draft>>

(* log() reads the clock before it waits for the lock.                      *)
Call(t) ==
    /\ pc[t] = "idle" /\ opened[t]
    /\ Len(LinesOf(file)) < MaxLines
    /\ \E text \in Texts : entry' = [entry EXCEPT ![t] = [text |-> text, at |-> now]]
    /\ pc' = [pc EXCEPT ![t] = "waiting"]
    /\ outcome' = [outcome EXCEPT ![t] = "none"]
    /\ UNCHANGED <<now, lock, file, tmp, opened, draft>>

(* Mutant of Read: a lock for each logger object instead of each path.     *)
Read_unlocked(t) ==
    /\ pc[t] = "waiting"
    /\ file # Missing
    /\ Updates(file)
    /\ lock' = t
    /\ draft' = [draft EXCEPT ![t] = Updated(file, entry[t])]
    /\ pc' = [pc EXCEPT ![t] = "writing"]
    /\ UNCHANGED <<now, file, tmp, opened, entry, outcome>>

Read(t) ==
    /\ pc[t] = "waiting"
    /\ lock = Free
    /\ file # Missing
    /\ Updates(file)
    /\ lock' = t
    /\ draft' = [draft EXCEPT ![t] = Updated(file, entry[t])]
    /\ pc' = [pc EXCEPT ![t] = "writing"]
    /\ UNCHANGED <<now, file, tmp, opened, entry, outcome>>

(* A file that is gone, is no log, or cannot be read ends the call.         *)
ReadFails(t) ==
    /\ pc[t] = "waiting"
    /\ lock = Free
    /\ Leave(t, "raised")
    /\ UNCHANGED <<now, file, tmp, opened>>

(* _atomic_write: the temporary file is written ...                         *)
Write(t) ==
    /\ pc[t] = "writing"
    /\ tmp' = draft[t]
    /\ pc' = [pc EXCEPT ![t] = "replacing"]
    /\ UNCHANGED <<now, lock, file, opened, entry, draft, outcome>>

(* ... or not, and then it is unlinked if that is possible ...              *)
WriteFails(t) ==
    /\ pc[t] = "writing"
    /\ tmp' \in {Missing, Partial, tmp}
    /\ Leave(t, "raised")
    /\ UNCHANGED <<now, file, opened>>

(* ... and takes the place of the log.                                      *)
Replace(t) ==
    /\ pc[t] = "replacing"
    /\ file' = tmp
    /\ tmp' = Missing
    /\ opened' = [opened EXCEPT ![t] = TRUE]
    /\ Leave(t, "logged")
    /\ UNCHANGED now

(* Mutant of ReplaceFails: the exception leaves the lock held.              *)
ReplaceFails_locked(t) ==
    /\ pc[t] = "replacing"
    /\ tmp' \in {Missing, tmp}
    /\ pc' = [pc EXCEPT ![t] = "idle"]
    /\ entry' = [entry EXCEPT ![t] = NoEntry]
    /\ draft' = [draft EXCEPT ![t] = Missing]
    /\ outcome' = [outcome EXCEPT ![t] = IF opened[t] THEN "raised" ELSE @]
    /\ UNCHANGED <<now, lock, file, opened>>

ReplaceFails(t) ==
    /\ pc[t] = "replacing"
    /\ tmp' \in {Missing, tmp}
    /\ Leave(t, "raised")
    /\ UNCHANGED <<now, file, opened>>

-----------------------------------------------------------------------------
(* The process dies; the next one finds the two files as they are.          *)
Crash ==
    /\ tmp' \in {tmp} \cup (IF \E t \in Threads : pc[t] = "writing" THEN {Partial} ELSE {})
    /\ lock' = Free
    /\ pc' = [t \in Threads |-> "idle"]
    /\ opened' = [t \in Threads |-> FALSE]
    /\ entry' = [t \in Threads |-> NoEntry]
    /\ draft' = [t \in Threads |-> Missing]
    /\ outcome' = [t \in Threads |-> "none"]
    /\ UNCHANGED <<now, file>>

(* Between two calls somebody deletes the log or spoils a header line.      *)
Tamper ==
    /\ lock = Free
    /\ file # Missing
    /\ \/ file' = Missing
       \/ \E h \in Header : file' = [file EXCEPT !.bad = @ \cup {h}]
    /\ UNCHANGED <<now, lock, tmp, pc, opened, entry, draft, outcome>>

Waiting(t) == entry[t] # NoEntry
Creating(t) == ~opened[t] /\ pc[t] # "idle"

(* The clock does not go backwards, and no thread holds its timestamp for   *)
(* longer than MaxDelay.                                                    *)
Tick ==
    /\ now < MaxTime
    /\ \A t \in Threads : /\ Waiting(t) => now < entry[t].at + MaxDelay
                          /\ Creating(t) => now < draft[t].created + MaxDelay
    /\ now' = now + 1
    /\ UNCHANGED <<lock, file, tmp, pc, opened, entry, draft, outcome>>

Step(t) == Read(t) \/ ReadFails(t) \/ Write(t) \/ WriteFails(t) \/ Replace(t) \/ ReplaceFails(t)

Next ==
    \/ \E t \in Threads : Create(t) \/ Open(t) \/ Call(t) \/ Step(t)
    \/ Crash
    \/ Tamper
    \/ Tick

Spec == Init /\ [][Next]_vars

(* Threads run; the lock is no queue, so a waiting thread is owed it only   *)
(* if it is free again and again.                                           *)
FairSpec ==
    /\ Spec
    /\ \A t \in Threads : /\ SF_vars(Read(t) \/ ReadFails(t))
                          /\ WF_vars(Write(t) \/ WriteFails(t) \/ Replace(t) \/ ReplaceFails(t))

-----------------------------------------------------------------------------
TypeOK ==
    /\ now \in Times
    /\ lock \in Threads \cup {Free}
    /\ file \in Logs \cup {Missing}
    /\ tmp \in Logs \cup {Missing, Partial}
    /\ pc \in [Threads -> {"idle", "waiting", "writing", "replacing"}]
    /\ opened \in [Threads -> BOOLEAN]
    /\ entry \in [Threads -> Entries \cup {NoEntry}]
    /\ draft \in [Threads -> Logs \cup {Missing}]
    /\ outcome \in [Threads -> {"none", "logged", "raised"}]

Abstract == INSTANCE AppendLog
    WITH log <- LinesOf(file), pending <- entry

(* The read-modify-write of log() behaves like an append to a list: every   *)
(* call that returned has exactly one line, in the order in which they took *)
(* effect, a call that raised has none, and neither a failing disk nor the  *)
(* death of the process loses or tears a line that was there.               *)
ImplementsAppendLog == Abstract!Spec

(* The times of a log: its creation, then each line's.                      *)
TimesOf(log) ==
    [i \in 1..(Len(log.lines) + 1) |-> IF i = 1 THEN log.created ELSE log.lines[i - 1].at]

(* `timestamp` is read before the lock is taken, so that lines can be out   *)
(* of order, and even older than the file; but never by more than the time  *)
(* for which a thread sat on its timestamp.  "Last Modified" is the time of *)
(* the last line, unless somebody spoilt it.                                *)
TimesNearlyOrdered ==
    file # Missing =>
        LET times == TimesOf(file) IN
        /\ \A i, j \in DOMAIN times : i <= j => times[i] <= times[j] + MaxDelay
        /\ "Last Modified" \in file.bad \/ file.modified = times[Len(file.lines) + 1]

(* A call of log() always comes back, whatever other calls failed: no exit  *)
(* of the read-modify-write leaves the lock of the path held.               *)
EveryCallReturns == \A t \in Threads : pc[t] = "waiting" ~> pc[t] = "idle"
=============================================================================
