-------------------------- MODULE ThreadPoolProofs --------------------------
(***************************************************************************)
(* Proofs about ThreadPool, for any number of callers and jobs.            *)
(***************************************************************************)
EXTENDS ThreadPool, TLAPS

(* The flag is up while anyone is inside, so that only one ever is.        *)
Exclusive ==
    /\ \A c \in Callers : Inside(c) => running
    /\ OneRunAtATime

(* What the state of the barrier says about where the workers are.         *)
BarrierTells ==
    /\ barrier = "filling" => \A j \in Jobs : job[j] \in {"none", "started", "barrier"}
    /\ barrier = "open" => \A j \in Jobs : job[j] \in {"barrier", "work", "ended", "raised"}
    /\ barrier = "broken" => \A j \in Jobs : ~Passed(j)

(* Without Ctrl+C the finally block is reached when every worker is over.  *)
OverAtTheEnd ==
    /\ \A c \in Callers : pc[c] = "finish" /\ interrupts = 0 => \A j \in Jobs : Over(j)
    /\ NoWorkerOutlivesRun

-----------------------------------------------------------------------------
(* run() keeps its variables in their types.                               *)
THEOREM TypeCorrect == Spec => []TypeOK
<1>1. Init => TypeOK
  <2>1. 0 \in 0..MaxInterrupts
    BY InterruptsAreCounted
  <2> QED  BY <2>1, Zenon DEF Init, TypeOK
<1>2. TypeOK /\ [Next]_vars => TypeOK'
  <2> SUFFICES ASSUME TypeOK, [Next]_vars
               PROVE  TypeOK'
    OBVIOUS
  <2> USE DEF TypeOK, Goto, Stage
  <2>1. CASE UNCHANGED vars
    BY <2>1 DEF vars
  <2>2. ASSUME NEW c \in Callers, Enter(c) \/ Caller(c) \/ SubmitFails(c) \/ Interrupt(c)
        PROVE  TypeOK'
    <3>1. CASE Enter(c)  BY <3>1 DEF Enter
    <3>2. CASE Clear(c)  BY <3>2 DEF Clear
    <3>3. CASE SubmitDone(c)  BY <3>3 DEF SubmitDone
    <3>4. CASE Collect(c)  BY <3>4 DEF Collect
    <3>5. CASE Shutdown(c)  BY <3>5 DEF Shutdown
    <3>6. CASE Finish(c)  BY <3>6 DEF Finish
    <3>7. CASE Handle(c)  BY <3>7 DEF Handle
    <3>8. CASE \E j \in Jobs : Submit(c, j)  BY <3>8 DEF Submit
    <3>9. CASE SubmitFails(c)  BY <3>9 DEF SubmitFails
    <3>10. CASE Interrupt(c)  BY <3>10, InterruptsAreCounted DEF Interrupt
    <3> QED  BY <2>2, <3>1, <3>2, <3>3, <3>4, <3>5, <3>6, <3>7, <3>8, <3>9, <3>10 DEF Caller
  <2>3. ASSUME NEW j \in Jobs, Worker(j) \/ WorkRaises(j)
        PROVE  TypeOK'
    <3>1. CASE Arrive(j)  BY <3>1 DEF Arrive
    <3>2. CASE BarrierTimesOut(j)  BY <3>2 DEF BarrierTimesOut
    <3>3. CASE LeaveBarrier(j)  BY <3>3 DEF LeaveBarrier
    <3>4. CASE WorkEnds(j)  BY <3>4 DEF WorkEnds
    <3>5. CASE WorkRaises(j)  BY <3>5 DEF WorkRaises
    <3> QED  BY <2>3, <3>1, <3>2, <3>3, <3>4, <3>5 DEF Worker
  <2>4. CASE Stop
    BY <2>4 DEF Stop
  <2> QED  BY <2>1, <2>2, <2>3, <2>4 DEF Next
<1> QED  BY <1>1, <1>2, PTL DEF Spec

-----------------------------------------------------------------------------
(* The lock around _running lets one caller in.                            *)
LEMMA ExclusiveStep == TypeOK /\ Exclusive /\ [Next]_vars => Exclusive'
<1> SUFFICES ASSUME TypeOK, Exclusive, [Next]_vars
             PROVE  Exclusive'
  OBVIOUS
<1> USE DEF TypeOK, Exclusive, OneRunAtATime, Inside, Goto
<1>1. CASE UNCHANGED vars
  BY <1>1 DEF vars
<1>2. ASSUME NEW c \in Callers, Enter(c) \/ Caller(c) \/ SubmitFails(c) \/ Interrupt(c)
      PROVE  Exclusive'
  <2>1. CASE Enter(c)  BY <2>1 DEF Enter
  <2>2. CASE Clear(c)  BY <2>2 DEF Clear
  <2>3. CASE SubmitDone(c)  BY <2>3 DEF SubmitDone
  <2>4. CASE Collect(c)  BY <2>4 DEF Collect
  <2>5. CASE Shutdown(c)  BY <2>5 DEF Shutdown
  <2>6. CASE Finish(c)  BY <2>6 DEF Finish
  <2>7. CASE Handle(c)  BY <2>7 DEF Handle
  <2>8. CASE \E j \in Jobs : Submit(c, j)  BY <2>8 DEF Submit
  <2>9. CASE SubmitFails(c)  BY <2>9 DEF SubmitFails
  <2>10. CASE Interrupt(c)  BY <2>10 DEF Interrupt
  <2> QED  BY <1>2, <2>1, <2>2, <2>3, <2>4, <2>5, <2>6, <2>7, <2>8, <2>9, <2>10 DEF Caller
<1>3. ASSUME NEW j \in Jobs, Worker(j) \/ WorkRaises(j)
      PROVE  Exclusive'
  BY <1>3 DEF Worker, Arrive, BarrierTimesOut, LeaveBarrier, WorkEnds, WorkRaises
<1>4. CASE Stop
  BY <1>4 DEF Stop
<1> QED  BY <1>1, <1>2, <1>3, <1>4 DEF Next

(* Two threads are never inside run() together.                            *)
THEOREM RunsExclude == Spec => []OneRunAtATime
<1>1. Init => Exclusive
  BY DEF Init, Exclusive, OneRunAtATime, Inside
<1>2. Exclusive => OneRunAtATime
  BY DEF Exclusive
<1> QED  BY <1>1, <1>2, ExclusiveStep, TypeCorrect, PTL DEF Spec

-----------------------------------------------------------------------------
(* Nobody passes a barrier that breaks, nobody breaks one that opened.     *)
LEMMA BarrierStep == TypeOK /\ BarrierTells /\ [Next]_vars => BarrierTells'
<1> SUFFICES ASSUME TypeOK, BarrierTells, [Next]_vars
             PROVE  BarrierTells'
  OBVIOUS
<1> USE DEF TypeOK, BarrierTells, Passed
<1>1. CASE UNCHANGED vars
  BY <1>1 DEF vars
<1>2. ASSUME NEW c \in Callers, Enter(c) \/ Caller(c) \/ SubmitFails(c) \/ Interrupt(c)
      PROVE  BarrierTells'
  <2>1. CASE Clear(c)  BY <2>1 DEF Clear
  <2>2. CASE \E j \in Jobs : Submit(c, j)  BY <2>2 DEF Submit, Stage
  <2>3. CASE UNCHANGED <<barrier, job>>  BY <2>3
  <2> QED  BY <1>2, <2>1, <2>2, <2>3
           DEF Caller, Enter, SubmitDone, Collect, Shutdown, Finish, Handle, SubmitFails, Interrupt
<1>3. ASSUME NEW j \in Jobs, Worker(j) \/ WorkRaises(j)
      PROVE  BarrierTells'
  <2>1. CASE Arrive(j)  BY <2>1 DEF Arrive, Stage
  <2>2. CASE BarrierTimesOut(j)  BY <2>2 DEF BarrierTimesOut, Stage
  <2>3. CASE LeaveBarrier(j)  BY <2>3 DEF LeaveBarrier, Stage
  <2>4. CASE WorkEnds(j)  BY <2>4 DEF WorkEnds, Stage
  <2>5. CASE WorkRaises(j)  BY <2>5 DEF WorkRaises, Stage
  <2> QED  BY <1>3, <2>1, <2>2, <2>3, <2>4, <2>5 DEF Worker
<1>4. CASE Stop
  BY <1>4 DEF Stop
<1> QED  BY <1>1, <1>2, <1>3, <1>4 DEF Next

(* The workers of a run start together or not at all.                      *)
THEOREM StartTogether == Spec => []BarrierAllOrNone
<1>1. Init => BarrierTells
  BY DEF Init, BarrierTells, Passed
<1>2. TypeOK /\ BarrierTells => BarrierAllOrNone
  BY DEF TypeOK, BarrierTells, BarrierAllOrNone, Passed
<1> QED  BY <1>1, <1>2, BarrierStep, TypeCorrect, PTL DEF Spec

-----------------------------------------------------------------------------
(* Without Ctrl+C, the executor's exit waits for every worker.             *)
LEMMA OverStep == TypeOK /\ Exclusive /\ OverAtTheEnd /\ [Next]_vars => OverAtTheEnd'
<1> SUFFICES ASSUME TypeOK, Exclusive, OverAtTheEnd, [Next]_vars
             PROVE  OverAtTheEnd'
  OBVIOUS
<1> USE DEF TypeOK, Exclusive, OneRunAtATime, Inside, OverAtTheEnd, NoWorkerOutlivesRun, Over, Goto
<1>1. CASE UNCHANGED vars
  BY <1>1 DEF vars
<1>2. ASSUME NEW c \in Callers, Enter(c) \/ Caller(c) \/ SubmitFails(c) \/ Interrupt(c)
      PROVE  OverAtTheEnd'
  <2>1. CASE Enter(c)  BY <2>1 DEF Enter
  <2>2. CASE Clear(c)  BY <2>2 DEF Clear
  <2>3. CASE SubmitDone(c)  BY <2>3 DEF SubmitDone
  <2>4. CASE Collect(c)  BY <2>4 DEF Collect
  <2>5. CASE Shutdown(c)  BY <2>5 DEF Shutdown
  <2>6. CASE Finish(c)  BY <2>6 DEF Finish
  <2>7. CASE Handle(c)  BY <2>7 DEF Handle
  <2>8. CASE \E j \in Jobs : Submit(c, j)  BY <2>8 DEF Submit, Stage
  <2>9. CASE SubmitFails(c)  BY <2>9 DEF SubmitFails
  <2>10. CASE Interrupt(c)  BY <2>10 DEF Interrupt
  <2> QED  BY <1>2, <2>1, <2>2, <2>3, <2>4, <2>5, <2>6, <2>7, <2>8, <2>9, <2>10 DEF Caller
<1>3. ASSUME NEW j \in Jobs, Worker(j) \/ WorkRaises(j)
      PROVE  OverAtTheEnd'
  <2>1. UNCHANGED <<pc, running, interrupts>> /\ ~Over(j)
    BY <1>3 DEF Worker, Arrive, BarrierTimesOut, LeaveBarrier, WorkEnds, WorkRaises
  <2> QED  BY <2>1
<1>4. CASE Stop
  BY <1>4 DEF Stop
<1> QED  BY <1>1, <1>2, <1>3, <1>4 DEF Next

(* run() leaves no worker behind, however it ends, if no Ctrl+C breaks the *)
(* wait for them.                                                          *)
THEOREM RunWaitsForWorkers == Spec => []NoWorkerOutlivesRun
<1>1. Init => Exclusive /\ OverAtTheEnd
  BY DEF Init, Exclusive, OneRunAtATime, Inside, OverAtTheEnd, NoWorkerOutlivesRun, Over
<1>2. OverAtTheEnd => NoWorkerOutlivesRun
  BY DEF OverAtTheEnd
<1> QED  BY <1>1, <1>2, OverStep, ExclusiveStep, TypeCorrect, PTL DEF Spec
=============================================================================
