------------------------------ MODULE Scheduler ------------------------------
(***************************************************************************)
(* CScheduler (scheduler.cpp): threads that share a queue of tasks ordered *)
(* by time. An action is one critical section of newTaskMutex; a           *)
(* notification that follows it is part of it. Waiting threads may wake    *)
(* up without cause. An exception other than an interruption ends the      *)
(* process (TraceThread) and is left out.                                  *)
(*                                                                         *)
(* Some definitions have a variant just before them that nothing uses      *)
(* (TakeKeeps before Take): the definition with a plausible programming    *)
(* error, kept to confirm that the properties notice it.                   *)
(***************************************************************************)
EXTENDS Integers, FiniteSets

CONSTANTS
    Threads,        \* threads that may call serviceQueue
    Tasks,
    Repeating,      \* tasks that run under Repeat (scheduleEvery)
    Delta,          \* deltaSeconds of the repeating tasks
    MaxTime         \* bound on the clock

VARIABLES
    now,            \* the clock
    taskQueue,      \* pairs <<time, task>>
    scheduled,      \* tasks passed to schedule so far
    runs,           \* how often a task was started
    pc,             \* where each thread is (see TypeOK)
    deadline,       \* the time a thread waits for
    current,        \* the task a thread runs
    overtaken,      \* history: another thread started a task while this one waited for a time
    nThreadsServicingQueue,
    stopRequested, stopWhenEmpty,
    interrupted     \* threadGroup.interrupt_all() was called

clock == <<now, interrupted>>
stops == <<stopRequested, stopWhenEmpty>>
vars == <<clock, taskQueue, scheduled, runs, pc, deadline, current, overtaken, nThreadsServicingQueue, stops>>

Times == 0..MaxTime

ASSUME SchedulerAssumption ==
    /\ IsFiniteSet(Threads) /\ Tasks # {} /\ Repeating \subseteq Tasks
    /\ Delta \in Nat \ {0} /\ MaxTime \in Nat

shouldStopAtOnce == stopRequested \/ stopWhenEmpty

shouldStop == stopRequested \/ (stopWhenEmpty /\ taskQueue = {})

\* the entries taskQueue.begin() may be; order within a time does not matter
First == {e \in taskQueue : \A f \in taskQueue : e[1] <= f[1]}

-----------------------------------------------------------------------------
(* Notifications *)

Waiting(at) == {t \in Threads : at[t] \in {"wait", "timed"}}

notify_one(at) ==
    IF Waiting(at) = {} THEN {at} ELSE {[at EXCEPT ![t] = "woken"] : t \in Waiting(at)}

notify_all(at) == [t \in Threads |-> IF t \in Waiting(at) THEN "woken" ELSE at[t]]

\* A waiting thread wakes up without cause. A wait whose time is over times out.
Spurious(t) ==
    /\ pc[t] = "wait" \/ (pc[t] = "timed" /\ now < deadline[t])
    /\ pc' = [pc EXCEPT ![t] = "woken"]
    /\ UNCHANGED <<clock, taskQueue, scheduled, runs, deadline, current, overtaken, nThreadsServicingQueue, stops>>

-----------------------------------------------------------------------------
(* serviceQueue *)

\* The thread leaves and passes the news on.
Leave(t, n) ==
    /\ shouldStop
    /\ pc' \in notify_one([pc EXCEPT ![t] = "gone"])
    /\ nThreadsServicingQueue' = n - 1
    /\ UNCHANGED deadline

\* The loop from its head to the next wait, with n threads counted: the thread
\* leaves, waits for a task, or waits for the time of the first one.
Loop(t, n) ==
    /\ \/ Leave(t, n)
       \/ /\ ~shouldStop /\ taskQueue = {}
          /\ pc' = [pc EXCEPT ![t] = "wait"]
          /\ nThreadsServicingQueue' = n
          /\ UNCHANGED deadline
       \/ /\ ~shouldStop
          /\ \E e \in First : deadline' = [deadline EXCEPT ![t] = e[1]]
          /\ pc' = [pc EXCEPT ![t] = "timed"]
          /\ nThreadsServicingQueue' = n
    /\ overtaken' = overtaken \ {t}
    /\ UNCHANGED <<clock, taskQueue, scheduled, runs, current, stops>>

Enter(t) == pc[t] = "out" /\ Loop(t, nThreadsServicingQueue + 1)

\* A wait ended before its time. Both waits lead back to the head of the loop.
Resume(t) == pc[t] = "woken" /\ Loop(t, nThreadsServicingQueue)

ExpireAnytime(t) ==
    /\ pc[t] = "timed"
    /\ pc' = [pc EXCEPT ![t] = "expired"]
    /\ UNCHANGED <<clock, taskQueue, scheduled, runs, deadline, current, overtaken, nThreadsServicingQueue, stops>>

\* The time is up; the thread does not hold the mutex yet.
Expire(t) ==
    /\ pc[t] = "timed" /\ now >= deadline[t]
    /\ pc' = [pc EXCEPT ![t] = "expired"]
    /\ UNCHANGED <<clock, taskQueue, scheduled, runs, deadline, current, overtaken, nThreadsServicingQueue, stops>>

\* threads that wait for a time, or did and have not taken the mutex yet
Awaiting == {t \in Threads : pc[t] \in {"timed", "expired"}}

TakeKeeps(t) ==
    /\ pc[t] = "expired" /\ ~shouldStop /\ taskQueue # {}
    /\ \E e \in First :
        /\ current' = [current EXCEPT ![t] = e[2]]
        /\ runs' = [runs EXCEPT ![e[2]] = @ + 1]
    /\ pc' = [pc EXCEPT ![t] = "run"] /\ overtaken' = (overtaken \cup Awaiting) \ {t}
    /\ UNCHANGED <<clock, taskQueue, scheduled, deadline, nThreadsServicingQueue, stops>>

\* The thread takes the first task, whichever it is by now.
Take(t) ==
    /\ pc[t] = "expired" /\ ~shouldStop /\ taskQueue # {}
    /\ \E e \in First :
        /\ taskQueue' = taskQueue \ {e}
        /\ current' = [current EXCEPT ![t] = e[2]]
        /\ runs' = [runs EXCEPT ![e[2]] = @ + 1]
    /\ pc' = [pc EXCEPT ![t] = "run"] /\ overtaken' = (overtaken \cup Awaiting) \ {t}
    /\ UNCHANGED <<clock, scheduled, deadline, nThreadsServicingQueue, stops>>

\* Another thread took the last task meanwhile, or the threads are to stop.
Missed(t) ==
    /\ pc[t] = "expired" /\ (shouldStop \/ taskQueue = {})
    /\ Loop(t, nThreadsServicingQueue)

\* f() returns.
Return(t) ==
    /\ pc[t] = "run" /\ current[t] \notin Repeating
    /\ Loop(t, nThreadsServicingQueue)

\* Repeat: after f() the task schedules itself again, then returns.
Repeat(t) ==
    /\ pc[t] = "run" /\ current[t] \in Repeating
    /\ taskQueue' = taskQueue \cup {e \in {<<now + Delta, current[t]>>} : now + Delta <= MaxTime}
    /\ pc' \in notify_one([pc EXCEPT ![t] = "woken"])
    /\ UNCHANGED <<clock, scheduled, runs, deadline, current, overtaken, nThreadsServicingQueue, stops>>

\* The interruption point of a wait, or one in f(): the exception leaves serviceQueue.
Interrupted(t) ==
    /\ interrupted /\ pc[t] \in {"wait", "timed", "woken", "expired", "run"}
    /\ pc' = [pc EXCEPT ![t] = "gone"]
    /\ nThreadsServicingQueue' = nThreadsServicingQueue - 1
    /\ UNCHANGED <<clock, taskQueue, scheduled, runs, deadline, current, overtaken, stops>>

-----------------------------------------------------------------------------
(* Callers *)

\* by any thread, a task among them
schedule(k, time) ==
    /\ k \notin scheduled
    /\ scheduled' = scheduled \cup {k}
    /\ taskQueue' = taskQueue \cup {<<time, k>>}
    /\ pc' \in notify_one(pc)
    /\ UNCHANGED <<clock, runs, deadline, current, overtaken, nThreadsServicingQueue, stops>>

stopSilently(drain) ==
    /\ IF drain THEN ~stopWhenEmpty ELSE ~stopRequested
    /\ stopWhenEmpty' = (stopWhenEmpty \/ drain) /\ stopRequested' = (stopRequested \/ ~drain)
    /\ UNCHANGED <<clock, taskQueue, scheduled, runs, pc, deadline, current, overtaken, nThreadsServicingQueue>>

\* Each of the two flags may be set, in either order. A call that sets no flag
\* only wakes threads up, as Spurious does.
stop(drain) ==
    /\ IF drain THEN ~stopWhenEmpty ELSE ~stopRequested
    /\ stopWhenEmpty' = (stopWhenEmpty \/ drain) /\ stopRequested' = (stopRequested \/ ~drain)
    /\ pc' = notify_all(pc)
    /\ UNCHANGED <<clock, taskQueue, scheduled, runs, deadline, current, overtaken, nThreadsServicingQueue>>

Interrupt ==
    /\ ~interrupted
    /\ interrupted' = TRUE
    /\ UNCHANGED <<now, taskQueue, scheduled, runs, pc, deadline, current, overtaken, nThreadsServicingQueue, stops>>

Tick ==
    /\ now < MaxTime
    /\ now' = now + 1
    /\ UNCHANGED <<interrupted, taskQueue, scheduled, runs, pc, deadline, current, overtaken, nThreadsServicingQueue, stops>>

-----------------------------------------------------------------------------

Init ==
    /\ now = 0 /\ interrupted = FALSE
    /\ taskQueue = {} /\ scheduled = {}
    /\ runs = [k \in Tasks |-> 0]
    /\ pc = [t \in Threads |-> "out"]
    /\ deadline = [t \in Threads |-> 0]
    /\ current = [t \in Threads |-> CHOOSE k \in Tasks : TRUE]
    /\ overtaken = {}
    /\ nThreadsServicingQueue = 0
    /\ stopRequested = FALSE /\ stopWhenEmpty = FALSE

Service(t) == Resume(t) \/ Expire(t) \/ Take(t) \/ Missed(t) \/ Return(t) \/ Repeat(t) \/ Interrupted(t)

Next ==
    \/ \E t \in Threads : Enter(t) \/ Service(t) \/ Spurious(t)
    \/ \E k \in Tasks, time \in Times : schedule(k, time)
    \/ \E drain \in BOOLEAN : stop(drain)
    \/ Interrupt
    \/ Tick

Spec == Init /\ [][Next]_vars

\* Tasks return, a runnable thread gets the mutex in the end, and time passes.
FairSpec == Spec /\ WF_vars(Tick) /\ \A t \in Threads : WF_vars(Service(t))

-----------------------------------------------------------------------------
(* Properties *)

Servicing == {t \in Threads : pc[t] \notin {"out", "gone"}}

TypeOK ==
    /\ now \in Times
    /\ taskQueue \subseteq Times \X Tasks /\ scheduled \subseteq Tasks
    /\ runs \in [Tasks -> Nat]
    \* "wait" and "timed": in wait and wait_until; "woken" and "expired": the wait
    \* is over and the mutex not taken yet; "run": in f(); "gone": left serviceQueue
    /\ pc \in [Threads -> {"out", "wait", "timed", "woken", "expired", "run", "gone"}]
    /\ deadline \in [Threads -> Times] /\ current \in [Threads -> Tasks]
    /\ overtaken \subseteq Threads
    /\ nThreadsServicingQueue \in Nat
    /\ interrupted \in BOOLEAN /\ stopRequested \in BOOLEAN /\ stopWhenEmpty \in BOOLEAN

\* ~CScheduler asserts nThreadsServicingQueue == 0 once the threads are joined:
\* the count is right however they leave.
ThreadsCounted == nThreadsServicingQueue = Cardinality(Servicing)

\* No task is lost or runs twice, however many threads wait for the same one: a
\* task that was scheduled once is in the queue or was started, never both.
RunOnce ==
    \A k \in Tasks \ Repeating :
        runs[k] + Cardinality({time \in Times : <<time, k>> \in taskQueue})
            = IF k \in scheduled THEN 1 ELSE 0

\* The queue and the count of threads are right after every step.
QueueConsistent == TypeOK /\ ThreadsCounted /\ RunOnce

\* "Call func at/after time t" (scheduler.h:42), as far as it is so: the first task
\* when a wait is over need not be the one that was waited for, but a thread starts
\* one that is not due only if another thread started one during its wait. A
\* thread that services the queue alone, as in the node, never does.
AtOrAfter ==
    [][\A t \in Threads \ overtaken : pc[t] = "expired" /\ pc'[t] = "run"
            => \A e \in taskQueue \ taskQueue' : e[1] <= now]_vars

\* stop() and "when there is no work left to be done (drain=true)"
\* (scheduler.h:63): every thread leaves in the end, waiting without a time limit
\* or not; after stop(true) alone, unless a repeating task keeps the queue from
\* getting empty.
StopEnds ==
    (stopRequested \/ stopWhenEmpty)
        ~> (Servicing = {} \/ (~stopRequested /\ scheduled \cap Repeating # {}))

\* A task that is in the queue while some thread services it is started in the
\* end, whichever thread the notification woke up and whichever leaves, unless the
\* threads are told not to: stop(true) waits for it.
TasksRun ==
    \A k \in Tasks : (Servicing # {} /\ \E time \in Times : <<time, k>> \in taskQueue)
        ~> (runs[k] > 0 \/ stopRequested \/ interrupted)
=============================================================================
