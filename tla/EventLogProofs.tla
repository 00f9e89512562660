--------------------------- MODULE EventLogProofs ---------------------------
(***************************************************************************)
(* Proofs about EventLog, for any number of threads, texts and lines: the  *)
(* log file implements an append-only log, and its times are in order but  *)
(* for the delay between reading the clock and writing the line.           *)
(***************************************************************************)
EXTENDS EventLog, TLAPS

Active == {"writing", "replacing"}

(* The thread inside _atomic_write, and it alone, holds the lock.          *)
Holder == \A t \in Threads : pc[t] \in Active <=> lock = t

(* What that thread writes is still made from what the file is.            *)
FreshDraft ==
    \A t \in Threads : pc[t] \in Active =>
        IF opened[t] THEN /\ file # Missing
                          /\ draft[t] = Updated(file, entry[t])
                     ELSE /\ file = Missing
                          /\ draft[t] \in Logs
                          /\ draft[t] = NewLog(draft[t].created)

WholeTmp == \A t \in Threads : pc[t] = "replacing" => tmp = draft[t]

(* Only threads that have a logger call it, and then they have an entry.   *)
EntryWhileCalling ==
    \A t \in Threads : /\ entry[t] # NoEntry <=> opened[t] /\ pc[t] # "idle"
                       /\ pc[t] = "waiting" => opened[t]

Inv == TypeOK /\ Holder /\ FreshDraft /\ WholeTmp /\ EntryWhileCalling

LEMMA UpdatedIsLog ==
    ASSUME NEW log \in Logs, NEW e \in Entries
    PROVE  /\ Updated(log, e) \in Logs
           /\ Updated(log, e).lines = Append(log.lines, e)
           /\ Updated(log, e).created = log.created
           /\ Updated(log, e).modified = e.at
           /\ "Last Modified" \notin Updated(log, e).bad
<1>1. log.bad \ {"Last Modified"} \in SUBSET Header /\ log.created \in Times /\ e.at \in Times
  BY DEF Logs, Entries
<1>2. Append(log.lines, e) \in Seq(Entries)
  BY DEF Logs
<1> QED
  BY <1>1, <1>2 DEF Updated, Logs

LEMMA DraftIsLog ==
    ASSUME Inv, NEW t \in Threads, pc[t] \in Active
    PROVE  draft[t] \in Logs
<1>1. CASE opened[t]
  <2>1. pc[t] # "idle"
    BY DEF Active
  <2>2. entry[t] # NoEntry
    BY <1>1, <2>1 DEF Inv, EntryWhileCalling
  <2>3. entry[t] \in Entries
    BY <2>2 DEF Inv, TypeOK
  <2>4. file \in Logs /\ draft[t] = Updated(file, entry[t])
    BY <1>1 DEF Inv, TypeOK, FreshDraft
  <2> QED
    BY <2>3, <2>4, UpdatedIsLog
<1>2. CASE ~opened[t]
  BY <1>2 DEF Inv, FreshDraft
<1> QED
  BY <1>1, <1>2

LEMMA NewIsLog ==
    ASSUME NEW time \in Times
    PROVE  NewLog(time) \in Logs /\ NewLog(time).lines = <<>>
BY DEF NewLog, Logs

LEMMA Started == Init => Inv
BY TimesAreNatural, DistinctValues
   DEF Init, Inv, TypeOK, Holder, FreshDraft, WholeTmp, EntryWhileCalling, Active, Times

(* The ways out of the `with` statement keep the invariant.                *)
LEMMA LeaveKeeps ==
    ASSUME Inv, NEW t \in Threads, NEW how \in {"raised", "logged"}, Leave(t, how),
           pc[t] \in Active \/ lock = Free,
           UNCHANGED now,
           file' \in Logs \cup {Missing},
           tmp' \in Logs \cup {Missing, Partial},
           opened' = opened \/ opened' = [opened EXCEPT ![t] = TRUE]
    PROVE  Inv'
<1> USE DEF Inv, Active
<1>1. TypeOK'
  BY DEF TypeOK, Leave
<1>2. \A u \in Threads : pc'[u] \notin Active
  BY DistinctValues DEF TypeOK, Leave, Holder
<1>3. Holder' /\ FreshDraft' /\ WholeTmp'
  BY <1>2, DistinctValues DEF Leave, Holder, FreshDraft, WholeTmp
<1>4. EntryWhileCalling'
  BY DEF TypeOK, Leave, EntryWhileCalling
<1> QED
  BY <1>1, <1>3, <1>4

LEMMA StepKeeps == Inv /\ [Next]_vars => Inv'
<1> SUFFICES ASSUME Inv, [Next]_vars PROVE Inv'
  OBVIOUS
<1> USE DEF Inv, Active
<1>1. CASE UNCHANGED vars
  BY <1>1 DEF vars, TypeOK, Holder, FreshDraft, WholeTmp, EntryWhileCalling
<1>2. ASSUME NEW t \in Threads, Create(t) PROVE Inv'
  <2>1. NewLog(now) \in Logs /\ NewLog(now).created = now
    BY NewIsLog DEF TypeOK, NewLog
  <2>2. TypeOK'
    BY <1>2, <2>1 DEF TypeOK, Create
  <2>3. \A u \in Threads : u # t => pc[u] \notin Active
    BY <1>2, DistinctValues DEF Create, Holder
  <2>4. Holder' /\ EntryWhileCalling' /\ WholeTmp'
    BY <1>2, <2>3, DistinctValues DEF TypeOK, Create, Holder, EntryWhileCalling, WholeTmp
  <2>5. FreshDraft'
    BY <1>2, <2>1, <2>3 DEF TypeOK, Create, FreshDraft
  <2> QED
    BY <2>2, <2>4, <2>5
<1>3. ASSUME NEW t \in Threads, Open(t) PROVE Inv'
  BY <1>3, DistinctValues DEF Open, TypeOK, Holder, FreshDraft, WholeTmp, EntryWhileCalling
<1>4. ASSUME NEW t \in Threads, Call(t) PROVE Inv'
  <2> PICK text \in Texts : entry' = [entry EXCEPT ![t] = [text |-> text, at |-> now]]
    BY <1>4 DEF Call
  <2>1. [text |-> text, at |-> now] \in Entries
    BY DEF TypeOK, Entries
  <2>2. TypeOK'
    BY <1>4, <2>1 DEF TypeOK, Call
  <2>3. Holder' /\ FreshDraft' /\ WholeTmp'
    BY <1>4 DEF TypeOK, Call, Holder, FreshDraft, WholeTmp
  <2>4. EntryWhileCalling'
    BY <1>4, <2>1, DistinctValues DEF TypeOK, Call, EntryWhileCalling
  <2> QED
    BY <2>2, <2>3, <2>4
<1>5. ASSUME NEW t \in Threads, Read(t) PROVE Inv'
  <2>1. opened[t] /\ entry[t] \in Entries /\ file \in Logs
    <3>1. opened[t] /\ entry[t] # NoEntry
      BY <1>5 DEF Read, EntryWhileCalling
    <3> QED
      BY <1>5, <3>1 DEF Read, TypeOK
  <2>2. Updated(file, entry[t]) \in Logs
    BY <2>1, UpdatedIsLog
  <2>3. TypeOK'
    BY <1>5, <2>2 DEF TypeOK, Read
  <2>4. \A u \in Threads : u # t => pc[u] \notin Active
    BY <1>5, DistinctValues DEF Read, Holder
  <2>5. Holder' /\ EntryWhileCalling' /\ WholeTmp'
    BY <1>5, <2>4, DistinctValues DEF TypeOK, Read, Holder, EntryWhileCalling, WholeTmp
  <2>6. FreshDraft'
    BY <1>5, <2>1, <2>4 DEF TypeOK, Read, FreshDraft
  <2> QED
    BY <2>3, <2>5, <2>6
<1>6. ASSUME NEW t \in Threads, ReadFails(t) PROVE Inv'
  BY <1>6, LeaveKeeps DEF ReadFails, TypeOK
<1>7. ASSUME NEW t \in Threads, Write(t) PROVE Inv'
  <2>1. draft[t] \in Logs /\ lock = t
    BY <1>7, DraftIsLog DEF Write, Holder
  <2>2. TypeOK' /\ Holder' /\ EntryWhileCalling' /\ FreshDraft'
    BY <1>7, <2>1 DEF TypeOK, Write, Holder, EntryWhileCalling, FreshDraft
  <2>3. WholeTmp'
    BY <1>7, <2>1 DEF TypeOK, Write, WholeTmp, Holder
  <2> QED
    BY <2>2, <2>3
<1>8. ASSUME NEW t \in Threads, WriteFails(t) PROVE Inv'
  BY <1>8, LeaveKeeps DEF WriteFails, TypeOK
<1>9. ASSUME NEW t \in Threads, Replace(t) PROVE Inv'
  <2>1. tmp \in Logs
    BY <1>9, DraftIsLog DEF Replace, WholeTmp
  <2> QED
    BY <1>9, <2>1, LeaveKeeps DEF Replace, TypeOK
<1>10. ASSUME NEW t \in Threads, ReplaceFails(t) PROVE Inv'
  BY <1>10, LeaveKeeps DEF ReplaceFails, TypeOK
<1>11. CASE Crash
  BY <1>11, DistinctValues DEF Crash, TypeOK, Holder, FreshDraft, WholeTmp, EntryWhileCalling
<1>12. CASE Tamper
  <2>1. \A t \in Threads : pc[t] \notin Active
    BY <1>12, DistinctValues DEF Tamper, Holder
  <2>2. file' \in Logs \cup {Missing}
    BY <1>12 DEF Tamper, TypeOK, Logs
  <2> QED
    BY <1>12, <2>1, <2>2 DEF Tamper, TypeOK, Holder, FreshDraft, WholeTmp, EntryWhileCalling
<1>13. CASE Tick
  BY <1>13, TimesAreNatural DEF Tick, TypeOK, Times, Holder, FreshDraft, WholeTmp, EntryWhileCalling
<1> QED
  BY <1>1, <1>2, <1>3, <1>4, <1>5, <1>6, <1>7, <1>8, <1>9, <1>10, <1>11, <1>12, <1>13
  DEF Next, Step

(* Every variable keeps its type.                                          *)
THEOREM TypeCorrect == Spec => []TypeOK
BY Started, StepKeeps, PTL DEF Spec, Inv

LEMMA InvAlways == Spec => []Inv
BY Started, StepKeeps, PTL DEF Spec

-----------------------------------------------------------------------------
(* An update of the log file is an append; everything before is stutter.   *)
LEMMA LinesOfLog ==
    ASSUME NEW log \in Logs
    PROVE  LinesOf(log) = log.lines
BY DistinctValues DEF LinesOf

LEMMA RejectOrStutter ==
    ASSUME Inv, NEW t \in Threads, Leave(t, "raised"), pc[t] # "idle", UNCHANGED file
    PROVE  Abstract!Reject(t) \/ UNCHANGED Abstract!vars
<1>1. CASE opened[t]
  BY <1>1 DEF Inv, TypeOK, EntryWhileCalling, Leave, Abstract!Reject
<1>2. CASE ~opened[t]
  <2>1. entry[t] = NoEntry
    BY <1>2 DEF Inv, EntryWhileCalling
  <2>2. UNCHANGED <<entry, outcome>>
    BY <1>2, <2>1 DEF Inv, TypeOK, Leave
  <2> QED
    BY <2>2 DEF Abstract!vars
<1> QED
  BY <1>1, <1>2

LEMMA Simulates == Inv /\ [Next]_vars => [Abstract!Next]_(Abstract!vars)
<1> SUFFICES ASSUME Inv, [Next]_vars PROVE [Abstract!Next]_(Abstract!vars)
  OBVIOUS
<1>1. CASE UNCHANGED vars
  BY <1>1 DEF vars, Abstract!vars
<1>2. ASSUME NEW t \in Threads, Create(t) \/ Open(t) \/ Read(t) \/ Write(t)
      PROVE  UNCHANGED Abstract!vars
  BY <1>2 DEF Create, Open, Read, Write, Abstract!vars
<1>3. CASE Tick
  BY <1>3 DEF Tick, Abstract!vars
<1>4. ASSUME NEW t \in Threads, Call(t)
      PROVE  \E e \in Entries : Abstract!Submit(t, e)
  <2> PICK text \in Texts : entry' = [entry EXCEPT ![t] = [text |-> text, at |-> now]]
    BY <1>4 DEF Call
  <2>1. [text |-> text, at |-> now] \in Entries
    BY DEF Inv, TypeOK, Entries
  <2>2. entry[t] = NoEntry
    BY <1>4 DEF Inv, EntryWhileCalling, Call
  <2> QED
    BY <1>4, <2>1, <2>2 DEF Call, Abstract!Submit
<1>5. ASSUME NEW t \in Threads, ReadFails(t) \/ WriteFails(t) \/ ReplaceFails(t)
      PROVE  Abstract!Reject(t) \/ UNCHANGED Abstract!vars
  BY <1>5, RejectOrStutter DEF ReadFails, WriteFails, ReplaceFails
<1>6. ASSUME NEW t \in Threads, Replace(t)
      PROVE  Abstract!Accept(t) \/ UNCHANGED Abstract!vars
  <2>1. tmp = draft[t] /\ draft[t] \in Logs
    BY <1>6, DraftIsLog DEF Inv, Active, Replace, WholeTmp
  <2>2. LinesOf(file') = draft[t].lines
    BY <1>6, <2>1, LinesOfLog DEF Replace
  <2>3. CASE opened[t]
    <3>1. entry[t] # NoEntry /\ entry[t] \in Entries
      BY <1>6, <2>3 DEF Inv, TypeOK, EntryWhileCalling, Replace
    <3>2. file \in Logs /\ draft[t] = Updated(file, entry[t])
      BY <1>6, <2>3 DEF Inv, TypeOK, FreshDraft, Active, Replace
    <3>3. LinesOf(file') = Append(LinesOf(file), entry[t])
      BY <2>2, <3>1, <3>2, UpdatedIsLog, LinesOfLog
    <3> QED
      BY <1>6, <2>3, <3>1, <3>3 DEF Inv, TypeOK, Replace, Leave, Abstract!Accept
  <2>4. CASE ~opened[t]
    <3>1. file = Missing /\ draft[t] = NewLog(draft[t].created)
      BY <1>6, <2>4 DEF Inv, FreshDraft, Active, Replace
    <3>2. LinesOf(file') = LinesOf(file)
      BY <2>2, <3>1 DEF LinesOf, NewLog
    <3>3. entry[t] = NoEntry
      BY <2>4 DEF Inv, EntryWhileCalling
    <3>4. UNCHANGED <<entry, outcome>>
      BY <1>6, <2>4, <3>3 DEF Inv, TypeOK, Replace, Leave
    <3> QED
      BY <3>2, <3>4 DEF Abstract!vars
  <2> QED
    BY <2>3, <2>4
<1>7. CASE Crash
  BY <1>7 DEF Crash, LinesOf, Abstract!Die, Abstract!Next
<1>8. CASE Tamper
  <2>1. UNCHANGED <<entry, outcome>> /\ file \in Logs
    BY <1>8 DEF Tamper, Inv, TypeOK
  <2>2. CASE file' = Missing
    BY <2>1, <2>2 DEF Abstract!Erase, Abstract!Next, LinesOf
  <2>3. ASSUME NEW h \in Header, file' = [file EXCEPT !.bad = @ \cup {h}]
        PROVE  UNCHANGED Abstract!vars
    <3>1. file' \in Logs /\ file'.lines = file.lines
      BY <2>1, <2>3 DEF Logs
    <3>2. LinesOf(file') = LinesOf(file)
      BY <2>1, <3>1, LinesOfLog
    <3> QED
      BY <2>1, <3>2 DEF Abstract!vars
  <2> QED
    BY <1>8, <2>2, <2>3 DEF Tamper, Abstract!Next
<1> QED
  BY <1>1, <1>2, <1>3, <1>4, <1>5, <1>6, <1>7, <1>8 DEF Next, Step, Abstract!Next

(* Concurrent calls of log(), failures of the disk and crashes included,   *)
(* the file behaves like an append-only list of the calls that returned.   *)
THEOREM LogIsAppendOnly == Spec => ImplementsAppendLog
<1>1. Init => Abstract!Init
  BY DEF Init, LinesOf, Abstract!Init
<1> QED
  BY <1>1, Simulates, InvAlways, PTL DEF Spec, ImplementsAppendLog, Abstract!Spec

-----------------------------------------------------------------------------
(* No time in the log lies in the future.                                  *)
PastTimes ==
    file # Missing => \A i \in DOMAIN TimesOf(file) : TimesOf(file)[i] <= now

(* A timestamp that is still to be written is at most MaxDelay old.        *)
PendingTimes ==
    \A t \in Threads :
        /\ Waiting(t) => entry[t].at <= now /\ now <= entry[t].at + MaxDelay
        /\ Creating(t) => draft[t].created <= now /\ now <= draft[t].created + MaxDelay

TimesInv == TimesNearlyOrdered /\ PastTimes /\ PendingTimes

LEMMA TimesType ==
    ASSUME NEW log \in Logs
    PROVE  /\ Len(log.lines) \in Nat
           /\ log.created \in Int
           /\ \A i \in DOMAIN TimesOf(log) : TimesOf(log)[i] \in Int
<1>1. Len(log.lines) \in Nat /\ log.created \in Times /\ log.lines \in Seq(Entries)
  BY DEF Logs
<1>2. Times \subseteq Int
  BY TimesAreNatural DEF Times
<1>3. \A i \in 1..Len(log.lines) : log.lines[i] \in Entries
  BY <1>1
<1>4. \A i \in 1..Len(log.lines) : log.lines[i].at \in Int
  BY <1>2, <1>3 DEF Entries
<1>5. \A i \in 1..(Len(log.lines) + 1) : i # 1 => i - 1 \in 1..Len(log.lines)
  BY <1>1
<1>6. \A i \in 1..(Len(log.lines) + 1) : TimesOf(log)[i] \in Int
  BY <1>1, <1>2, <1>4, <1>5 DEF TimesOf
<1> QED
  BY <1>1, <1>2, <1>6 DEF TimesOf

(* The times of an updated log are the old ones and one more.              *)
LEMMA TimesOfUpdated ==
    ASSUME NEW log \in Logs, NEW e \in Entries
    PROVE  /\ DOMAIN TimesOf(log) = 1..(Len(log.lines) + 1)
           /\ DOMAIN TimesOf(Updated(log, e)) = 1..(Len(log.lines) + 2)
           /\ \A i \in DOMAIN TimesOf(log) : TimesOf(Updated(log, e))[i] = TimesOf(log)[i]
           /\ TimesOf(Updated(log, e))[Len(log.lines) + 2] = e.at
           /\ Len(Updated(log, e).lines) = Len(log.lines) + 1
<1> DEFINE n == Len(log.lines)
<1>1. log.lines \in Seq(Entries) /\ n \in Nat
  BY DEF Logs
<1>2. /\ Len(Append(log.lines, e)) = n + 1
      /\ Append(log.lines, e)[n + 1] = e
      /\ \A i \in 1..n : Append(log.lines, e)[i] = log.lines[i]
  BY <1>1
<1>3. /\ Updated(log, e).lines = Append(log.lines, e)
      /\ Updated(log, e).created = log.created
  BY UpdatedIsLog
<1> HIDE DEF n
<1>4. TimesOf(Updated(log, e)) =
        [i \in 1..(n + 2) |-> IF i = 1 THEN log.created ELSE Append(log.lines, e)[i - 1].at]
  BY <1>1, <1>2, <1>3 DEF TimesOf
<1>5. TimesOf(log) = [i \in 1..(n + 1) |-> IF i = 1 THEN log.created ELSE log.lines[i - 1].at]
  BY DEF TimesOf, n
<1>6. \A i \in 1..(n + 1) : i # 1 => i - 1 \in 1..n
  BY <1>1
<1>7. \A i \in 1..(n + 1) : TimesOf(Updated(log, e))[i] = TimesOf(log)[i]
  BY <1>1, <1>2, <1>4, <1>5, <1>6
<1>8. TimesOf(Updated(log, e))[n + 2] = e.at
  BY <1>1, <1>2, <1>4
<1> QED
  BY <1>1, <1>2, <1>3, <1>4, <1>5, <1>7, <1>8 DEF n

(* What _atomic_write puts in place is in order if what was read is.       *)
LEMMA ReplaceKeepsTimes ==
    ASSUME Inv, TimesInv, NEW t \in Threads, Replace(t)
    PROVE  (TimesNearlyOrdered /\ PastTimes)'
<1>1. tmp = draft[t] /\ draft[t] \in Logs /\ file' = draft[t] /\ pc[t] # "idle" /\ now' = now
  BY DraftIsLog DEF Inv, Active, Replace, WholeTmp
<1>2. now \in Int /\ MaxDelay \in Nat
  BY TimesAreNatural DEF Inv, TypeOK, Times
<1>3. CASE opened[t]
  <2>1. entry[t] # NoEntry /\ entry[t] \in Entries
    BY <1>1, <1>3 DEF Inv, TypeOK, EntryWhileCalling
  <2>2. file \in Logs /\ draft[t] = Updated(file, entry[t])
    BY <1>3 DEF Inv, TypeOK, FreshDraft, Active, Replace
  <2> DEFINE n == Len(file.lines)
  <2>3. /\ n \in Nat
        /\ \A i \in DOMAIN TimesOf(file) : TimesOf(file)[i] \in Int
    BY <2>2, TimesType
  <2>4. entry[t].at <= now /\ now <= entry[t].at + MaxDelay /\ entry[t].at \in Int
    BY <2>1, TimesAreNatural DEF TimesInv, PendingTimes, Waiting, Entries, Times
  <2>5. /\ \A i \in DOMAIN TimesOf(file) : TimesOf(file)[i] <= now
        /\ \A i, j \in DOMAIN TimesOf(file) : i <= j => TimesOf(file)[i] <= TimesOf(file)[j] + MaxDelay
    BY <2>2, DistinctValues DEF TimesInv, PastTimes, TimesNearlyOrdered
  <2>6. /\ DOMAIN TimesOf(file) = 1..(n + 1)
        /\ DOMAIN TimesOf(file') = 1..(n + 2)
        /\ \A i \in 1..(n + 1) : TimesOf(file')[i] = TimesOf(file)[i]
        /\ TimesOf(file')[n + 2] = entry[t].at
        /\ Len(file'.lines) = n + 1
    BY <1>1, <2>1, <2>2, TimesOfUpdated
  <2>7. file'.modified = entry[t].at
    BY <1>1, <2>1, <2>2, UpdatedIsLog
  <2> HIDE DEF n
  <2>8. \A i \in 1..(n + 2) : i \in 1..(n + 1) \/ i = n + 2
    BY <2>3
  <2>9. \A i \in 1..(n + 2) : TimesOf(file')[i] <= now
    BY <2>4, <2>5, <2>6, <2>8
  <2>10. \A i, j \in 1..(n + 2) : i <= j => TimesOf(file')[i] <= TimesOf(file')[j] + MaxDelay
    <3> SUFFICES ASSUME NEW i \in 1..(n + 2), NEW j \in 1..(n + 2), i <= j
                 PROVE  TimesOf(file')[i] <= TimesOf(file')[j] + MaxDelay
      OBVIOUS
    <3>1. CASE j \in 1..(n + 1)
      <4>1. i \in 1..(n + 1)
        BY <2>3, <3>1
      <4> QED
        BY <2>5, <2>6, <3>1, <4>1
    <3>2. CASE j = n + 2
      <4>1. TimesOf(file')[i] <= now /\ TimesOf(file')[i] \in Int
        BY <2>3, <2>4, <2>6, <2>8, <2>9
      <4> QED
        BY <1>2, <2>4, <2>6, <3>2, <4>1
    <3> QED
      BY <2>8, <3>1, <3>2
  <2>11. (n + 1) + 1 = n + 2
    BY <2>3
  <2> QED
    BY <1>1, <2>6, <2>7, <2>9, <2>10, <2>11 DEF TimesNearlyOrdered, PastTimes
<1>4. CASE ~opened[t]
  <2>1. draft[t] = NewLog(draft[t].created)
    BY <1>4 DEF Inv, FreshDraft, Active, Replace
  <2>2. /\ file'.lines = <<>> /\ file'.created = draft[t].created
        /\ file'.modified = draft[t].created
    BY <1>1, <2>1 DEF NewLog
  <2>3. draft[t].created <= now /\ draft[t].created \in Int
    BY <1>1, <1>4, TimesType DEF TimesInv, PendingTimes, Creating
  <2>4. TimesOf(file') = [i \in 1..1 |-> draft[t].created]
    BY <2>2 DEF TimesOf
  <2> QED
    BY <1>1, <1>2, <2>2, <2>3, <2>4 DEF TimesNearlyOrdered, PastTimes
<1> QED
  BY <1>3, <1>4

(* The other actions leave the file and its times alone, or remove it.     *)
LEMMA TimesStep == Inv /\ TimesInv /\ [Next]_vars => TimesInv'
<1> SUFFICES ASSUME Inv, TimesInv, [Next]_vars PROVE TimesInv'
  OBVIOUS
<1>0. now \in Int /\ MaxDelay \in Nat
  BY TimesAreNatural DEF Inv, TypeOK, Times
<1>1. ASSUME file' = file, now' = now PROVE (TimesNearlyOrdered /\ PastTimes)'
  BY <1>1 DEF TimesInv, TimesNearlyOrdered, PastTimes, TimesOf
<1>2. ASSUME NEW t \in Threads, NEW how, Leave(t, how), now' = now,
             opened' = opened \/ opened' = [opened EXCEPT ![t] = TRUE]
      PROVE  PendingTimes'
  BY <1>2 DEF Inv, TypeOK, TimesInv, PendingTimes, Waiting, Creating, Leave
<1>3. CASE UNCHANGED vars
  BY <1>1, <1>3 DEF vars, TimesInv, PendingTimes, Waiting, Creating
<1>4. ASSUME NEW t \in Threads, Create(t) PROVE TimesInv'
  BY <1>0, <1>1, <1>4 DEF Inv, TypeOK, Create, TimesInv, PendingTimes, Waiting, Creating, NewLog
<1>5. ASSUME NEW t \in Threads, Open(t) PROVE TimesInv'
  BY <1>1, <1>5 DEF Inv, TypeOK, Open, TimesInv, PendingTimes, Waiting, Creating
<1>6. ASSUME NEW t \in Threads, Call(t) PROVE TimesInv'
  <2> PICK text \in Texts : entry' = [entry EXCEPT ![t] = [text |-> text, at |-> now]]
    BY <1>6 DEF Call
  <2>1. entry'[t].at = now /\ \A u \in Threads : u # t => entry'[u] = entry[u]
    BY DEF Inv, TypeOK
  <2>2. UNCHANGED <<now, file, draft, opened>> /\ opened[t]
    BY <1>6 DEF Call
  <2>3. \A u \in Threads : u # t => pc'[u] = pc[u]
    BY <1>6 DEF Call, Inv, TypeOK
  <2>4. PendingTimes'
    BY <1>0, <2>1, <2>2, <2>3 DEF TimesInv, PendingTimes, Waiting, Creating
  <2> QED
    BY <1>1, <2>2, <2>4 DEF TimesInv
<1>7. ASSUME NEW t \in Threads, Read(t) PROVE TimesInv'
  <2>1. opened[t]
    BY <1>7 DEF Read, Inv, EntryWhileCalling
  <2> QED
    BY <1>1, <1>7, <2>1 DEF Inv, TypeOK, Read, TimesInv, PendingTimes, Waiting, Creating
<1>8. ASSUME NEW t \in Threads, Write(t) PROVE TimesInv'
  BY <1>1, <1>8 DEF Inv, TypeOK, Write, TimesInv, PendingTimes, Waiting, Creating
<1>9. ASSUME NEW t \in Threads, ReadFails(t) \/ WriteFails(t) \/ ReplaceFails(t)
      PROVE  TimesInv'
  BY <1>1, <1>2, <1>9 DEF ReadFails, WriteFails, ReplaceFails, TimesInv
<1>10. ASSUME NEW t \in Threads, Replace(t) PROVE TimesInv'
  BY <1>2, <1>10, ReplaceKeepsTimes DEF Replace, TimesInv
<1>11. CASE Crash
  BY <1>1, <1>11 DEF Crash, TimesInv, PendingTimes, Waiting, Creating
<1>12. CASE Tamper
  <2>1. PendingTimes'
    BY <1>12 DEF Tamper, TimesInv, PendingTimes, Waiting, Creating
  <2>2. now' = now /\ file \in Logs
    BY <1>12 DEF Tamper, Inv, TypeOK
  <2>3. CASE file' = Missing
    BY <2>1, <2>3 DEF TimesInv, TimesNearlyOrdered, PastTimes
  <2>4. ASSUME NEW h \in Header, file' = [file EXCEPT !.bad = @ \cup {h}]
        PROVE  TimesInv'
    <3>1. /\ file'.lines = file.lines /\ file'.created = file.created
          /\ file'.modified = file.modified /\ file.bad \subseteq file'.bad
      BY <2>2, <2>4 DEF Logs
    <3>2. TimesOf(file') = TimesOf(file)
      BY <3>1 DEF TimesOf
    <3>3. file # Missing
      BY <2>2, DistinctValues
    <3> QED
      BY <2>1, <2>2, <3>1, <3>2, <3>3 DEF TimesInv, TimesNearlyOrdered, PastTimes
  <2> QED
    BY <1>12, <2>3, <2>4 DEF Tamper
<1>13. CASE Tick
  <2>1. /\ UNCHANGED <<file, entry, draft, opened, pc>> /\ now' = now + 1
        /\ \A t \in Threads : /\ Waiting(t) => now < entry[t].at + MaxDelay
                              /\ Creating(t) => now < draft[t].created + MaxDelay
    BY <1>13 DEF Tick
  <2>2. \A t \in Threads : Waiting(t) => entry[t].at \in Int
    BY TimesAreNatural DEF Waiting, Inv, TypeOK, Entries, Times
  <2>3. \A t \in Threads : Creating(t) => draft[t].created \in Int
    <3> SUFFICES ASSUME NEW t \in Threads, Creating(t) PROVE draft[t].created \in Int
      OBVIOUS
    <3>1. pc[t] \in Active
      BY DEF Creating, Inv, TypeOK, EntryWhileCalling, Active
    <3> QED
      BY <3>1, DraftIsLog, TimesType
  <2>4. PendingTimes'
    BY <1>0, <2>1, <2>2, <2>3 DEF TimesInv, PendingTimes, Waiting, Creating
  <2>5. PastTimes'
    <3> SUFFICES ASSUME file # Missing, NEW i \in DOMAIN TimesOf(file)
                 PROVE  TimesOf(file)[i] <= now + 1
      BY <2>1 DEF PastTimes, TimesOf
    <3>1. file \in Logs
      BY DEF Inv, TypeOK
    <3>2. TimesOf(file)[i] \in Int /\ TimesOf(file)[i] <= now
      BY <3>1, TimesType DEF TimesInv, PastTimes
    <3> QED
      BY <1>0, <3>2
  <2>6. TimesNearlyOrdered'
    BY <2>1 DEF TimesInv, TimesNearlyOrdered, TimesOf
  <2> QED
    BY <2>4, <2>5, <2>6 DEF TimesInv
<1> QED
  BY <1>3, <1>4, <1>5, <1>6, <1>7, <1>8, <1>9, <1>10, <1>11, <1>12, <1>13 DEF Next, Step

(* Lines are in the order of their times but for MaxDelay, and the header  *)
(* has the time of the last one.                                           *)
THEOREM TimesAreNearlyOrdered == Spec => []TimesNearlyOrdered
<1>1. Init => TimesInv
  BY DEF Init, TimesInv, TimesNearlyOrdered, PastTimes, PendingTimes, Waiting, Creating
<1> QED
  BY <1>1, TimesStep, InvAlways, PTL DEF Spec, TimesInv
=============================================================================
