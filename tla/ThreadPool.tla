----------------------------- MODULE ThreadPool -----------------------------
(***************************************************************************)
(* peer/torrent_worker.py, TorrentThreadPool: callers of run(), the worker *)
(* threads behind their start barrier, the shared stop event, and peer.py, *)
(* whose main() turns Ctrl+C into pool.stop().  What a worker does between *)
(* the barrier and its end is TorrentWorker; here it only ends.            *)
(***************************************************************************)
EXTENDS Naturals, FiniteSets

CONSTANTS Callers,        \* threads that call run() (peer.py: one)
          Jobs,           \* the torrent jobs, one worker thread each
          Endless,        \* jobs that end only when they see the stop event
          MaxInterrupts,  \* bound: how often Ctrl+C is pressed
          Faults          \* the faults that may occur

ASSUME EndlessAreJobs == Endless \subseteq Jobs /\ Jobs # {}
ASSUME InterruptsAreCounted == MaxInterrupts \in Nat
ASSUME KnownFaults == Faults \subseteq {"submit", "raise"}

VARIABLES
    pc,         \* [caller |-> its place in run(), or in main()'s handler]
    failed,     \* [caller |-> an exception is on its way out of run()]
    running,    \* _running
    stopEvent,  \* stop_event
    barrier,    \* start barrier of the run: "filling", "open", "broken"
    job,        \* [job |-> stage of its worker thread]
    asked,      \* history: "early" or "late" if stop() was called in this run,
                \*   before or after run() cleared the event; else "no"
    interrupts  \* number of KeyboardInterrupts so far

vars == <<pc, failed, running, stopEvent, barrier, job, asked, interrupts>>

Inside(c) == pc[c] \in {"entered", "submit", "wait", "shutdown", "finish"}
Over(j)   == job[j] \in {"none", "broken", "ended", "raised"}
Passed(j) == job[j] \in {"work", "ended", "raised"}

TypeOK ==
    /\ pc \in [Callers -> {"out", "entered", "submit", "wait", "shutdown", "finish", "handler", "exited"}]
    /\ failed \in [Callers -> {"no", "error", "interrupt"}]
    /\ running \in BOOLEAN /\ stopEvent \in BOOLEAN
    /\ barrier \in {"filling", "open", "broken"}
    /\ job \in [Jobs -> {"none", "started", "barrier", "broken", "work", "ended", "raised"}]
    /\ asked \in {"no", "early", "late"}
    /\ interrupts \in 0..MaxInterrupts

Init ==
    /\ pc = [c \in Callers |-> "out"]
    /\ failed = [c \in Callers |-> "no"]
    /\ running = FALSE /\ stopEvent = FALSE
    /\ barrier = "filling"
    /\ job = [j \in Jobs |-> "none"]
    /\ asked = "no"
    /\ interrupts = 0

Goto(c, point) == pc' = [pc EXCEPT ![c] = point]
Stage(j, s)    == job' = [job EXCEPT ![j] = s]

-----------------------------------------------------------------------------
(* run().                                                                  *)

(* A second caller gets a RuntimeError, and stays out.  Once Ctrl+C has    *)
(* left run() main() returns, and nobody calls run() any more.             *)
Enter(c) ==
    /\ pc[c] = "out"
    /\ ~running
    /\ \A d \in Callers : pc[d] \notin {"handler", "exited"}
    /\ running' = TRUE
    /\ Goto(c, "entered")
    /\ UNCHANGED <<failed, stopEvent, barrier, job, asked, interrupts>>

(* The stop event is cleared, the barrier is made, the executor opened.    *)
Clear(c) ==
    /\ pc[c] = "entered"
    /\ stopEvent' = FALSE
    /\ barrier' = "filling"
    /\ job' = [j \in Jobs |-> "none"]
    /\ Goto(c, "submit")
    /\ UNCHANGED <<failed, running, asked, interrupts>>

Submit(c, j) ==
    /\ pc[c] = "submit"
    /\ job[j] = "none"
    /\ Stage(j, "started")
    /\ UNCHANGED <<pc, failed, running, stopEvent, barrier, asked, interrupts>>

(* The worker's EventLogger cannot be made: the executor is left by an     *)
(* exception, with only some of the workers submitted.                     *)
SubmitFails(c) ==
    /\ "submit" \in Faults
    /\ pc[c] = "submit"
    /\ \E j \in Jobs : job[j] = "none"
    /\ failed' = [failed EXCEPT ![c] = "error"]
    /\ Goto(c, "shutdown")
    /\ UNCHANGED <<running, stopEvent, barrier, job, asked, interrupts>>

SubmitDone(c) ==
    /\ pc[c] = "submit"
    /\ \A j \in Jobs : job[j] # "none"
    /\ Goto(c, "wait")
    /\ UNCHANGED <<failed, running, stopEvent, barrier, job, asked, interrupts>>

(* as_completed: every result is there, or one of them is an exception.    *)
Collect(c) ==
    /\ pc[c] = "wait"
    /\ \/ /\ \A j \in Jobs : Over(j) /\ job[j] # "raised"
          /\ UNCHANGED failed
       \/ /\ \E j \in Jobs : job[j] = "raised"
          /\ failed' = [failed EXCEPT ![c] = "error"]
    /\ Goto(c, "shutdown")
    /\ UNCHANGED <<running, stopEvent, barrier, job, asked, interrupts>>

(* Mutant of Shutdown: the executor is shut down without waiting.          *)
Shutdown_nowait(c) ==
    /\ pc[c] = "shutdown"
    /\ Goto(c, "finish")
    /\ UNCHANGED <<failed, running, stopEvent, barrier, job, asked, interrupts>>

(* Leaving the executor waits for all its threads, exception or not.       *)
Shutdown(c) ==
    /\ pc[c] = "shutdown"
    /\ \A j \in Jobs : Over(j)
    /\ Goto(c, "finish")
    /\ UNCHANGED <<failed, running, stopEvent, barrier, job, asked, interrupts>>

(* The finally block; a KeyboardInterrupt reaches main()'s handler.        *)
Finish(c) ==
    /\ pc[c] = "finish"
    /\ running' = FALSE
    /\ asked' = "no"
    /\ Goto(c, IF failed[c] = "interrupt" THEN "handler" ELSE "out")
    /\ failed' = [failed EXCEPT ![c] = "no"]
    /\ UNCHANGED <<stopEvent, barrier, job, interrupts>>

(* main(): pool.stop(); return 130.  The process lives on until its worker *)
(* threads have ended.                                                     *)
Handle(c) ==
    /\ pc[c] = "handler"
    /\ stopEvent' = TRUE
    /\ Goto(c, "exited")
    /\ UNCHANGED <<failed, running, barrier, job, asked, interrupts>>

(* Ctrl+C in the main thread.  Before the try nothing resets _running; in  *)
(* the executor's block, leaving it waits for the workers; and a Ctrl+C    *)
(* during that wait breaks it off.                                         *)
Interrupt(c) ==
    /\ interrupts < MaxInterrupts
    /\ pc[c] \in {"entered", "submit", "wait", "shutdown"}
    /\ interrupts' = interrupts + 1
    /\ failed' = [failed EXCEPT ![c] = IF pc[c] = "entered" THEN @ ELSE "interrupt"]
    /\ Goto(c, CASE pc[c] = "entered" -> "handler"
                 [] pc[c] = "shutdown" -> "finish"
                 [] OTHER -> "shutdown")
    /\ UNCHANGED <<running, stopEvent, barrier, job, asked>>

(* stop(), called by another thread.                                       *)
Stop ==
    /\ running
    /\ stopEvent' = TRUE
    /\ asked' = IF \E c \in Callers : pc[c] = "entered" THEN "early" ELSE "late"
    /\ UNCHANGED <<pc, failed, running, barrier, job, interrupts>>

-----------------------------------------------------------------------------
(* The worker threads.                                                     *)

(* start_barrier.wait: the last one to arrive opens it.                    *)
Arrive(j) ==
    /\ job[j] = "started"
    /\ IF barrier = "broken"
       THEN Stage(j, "broken") /\ UNCHANGED barrier
       ELSE /\ Stage(j, "barrier")
            /\ barrier' = IF \A k \in Jobs : job'[k] = "barrier" THEN "open" ELSE barrier
    /\ UNCHANGED <<pc, failed, running, stopEvent, asked, interrupts>>

(* Mutant of BarrierTimesOut: the barrier breaks though it had opened.     *)
BarrierTimesOut_late(j) ==
    /\ job[j] = "barrier"
    /\ barrier' = "broken"
    /\ Stage(j, "broken")
    /\ UNCHANGED <<pc, failed, running, stopEvent, asked, interrupts>>

(* Ten seconds pass: the barrier breaks, for everyone.                     *)
BarrierTimesOut(j) ==
    /\ job[j] = "barrier"
    /\ barrier = "filling"
    /\ barrier' = "broken"
    /\ Stage(j, "broken")
    /\ UNCHANGED <<pc, failed, running, stopEvent, asked, interrupts>>

LeaveBarrier(j) ==
    /\ job[j] = "barrier"
    /\ \/ barrier = "open" /\ Stage(j, "work")
       \/ barrier = "broken" /\ Stage(j, "broken")
    /\ UNCHANGED <<pc, failed, running, stopEvent, barrier, asked, interrupts>>

(* Mutant of WorkEnds: the worker has a stop event of its own.             *)
WorkEnds_deaf(j) ==
    /\ job[j] = "work"
    /\ j \notin Endless
    /\ Stage(j, "ended")
    /\ UNCHANGED <<pc, failed, running, stopEvent, barrier, asked, interrupts>>

WorkEnds(j) ==
    /\ job[j] = "work"
    /\ j \notin Endless \/ stopEvent
    /\ Stage(j, "ended")
    /\ UNCHANGED <<pc, failed, running, stopEvent, barrier, asked, interrupts>>

(* TorrentWorker.run raises; see ConnectionReset there.                    *)
WorkRaises(j) ==
    /\ "raise" \in Faults
    /\ job[j] = "work"
    /\ Stage(j, "raised")
    /\ UNCHANGED <<pc, failed, running, stopEvent, barrier, asked, interrupts>>

Caller(c) == \/ Clear(c) \/ SubmitDone(c) \/ Collect(c)
             \/ Shutdown(c) \/ Finish(c) \/ Handle(c)
             \/ \E j \in Jobs : Submit(c, j)
Worker(j) == Arrive(j) \/ BarrierTimesOut(j) \/ LeaveBarrier(j) \/ WorkEnds(j)

Next ==
    \/ \E c \in Callers : Enter(c) \/ Caller(c) \/ SubmitFails(c) \/ Interrupt(c)
    \/ \E j \in Jobs : Worker(j) \/ WorkRaises(j)
    \/ Stop
    \/ (\E c \in Callers : pc[c] = "exited") /\ UNCHANGED vars

Spec == Init /\ [][Next]_vars

(* Threads run, and a wait on the barrier ends by its timeout at the       *)
(* latest; nobody has to call run() or stop() or press Ctrl+C, and no      *)
(* fault has to occur.                                                     *)
FairSpec == /\ Spec
            /\ \A c \in Callers : WF_vars(Caller(c))
            /\ \A j \in Jobs : WF_vars(Worker(j))

-----------------------------------------------------------------------------
(* Two threads are never inside run() at the same time, whose barrier,     *)
(* results and stop event would be mixed up.                               *)
OneRunAtATime == \A c, d \in Callers : Inside(c) /\ Inside(d) => c = d

(* run() does not give the pool free, by whatever way it ends, while one   *)
(* of its workers still runs and uses its torrent's storage.               *)
(* (Unless a Ctrl+C breaks the wait for the workers; see Interrupt.)       *)
NoWorkerOutlivesRun == ~running /\ interrupts = 0 => \A j \in Jobs : Over(j)

(* The workers start together or not at all: none works while another was  *)
(* turned away at the barrier.                                             *)
BarrierAllOrNone ==
    \A j, k \in Jobs : ~(Passed(j) /\ job[k] = "broken")

(* Every run() ends, also when not all of its workers could be submitted   *)
(* and the others wait for them at the barrier, unless a worker that works *)
(* until it is stopped is at work and no stop() came after the event was   *)
(* cleared.  (One that came before is lost.)                               *)
RunEnds ==
    \A c \in Callers :
        Inside(c) ~> \/ ~Inside(c)
                     \/ asked # "late" /\ \E j \in Endless : job[j] = "work"

(* "Press Ctrl+C to stop gracefully."                                      *)
InterruptIsGraceful == interrupts > 0 ~> \A j \in Jobs : Over(j)
=============================================================================
