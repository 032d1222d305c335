----------------------------- MODULE CheckQueue -----------------------------
(***************************************************************************)
(* CCheckQueue and CCheckQueueControl (src/checkqueue.h): the pool that    *)
(* verifies a block's scripts in parallel.  The thread that connects the   *)
(* block (Master) adds checks and then joins the pool until none is left;  *)
(* the worker threads never leave it.                                      *)
(*                                                                         *)
(* One action is one critical section of CCheckQueue::mutex, which is the  *)
(* granularity at which threads interleave; evaluating a batch happens     *)
(* outside the mutex and is an action of its own.  The queue is a set: the *)
(* source notes that the order of booleans does not matter.                *)
(*                                                                         *)
(* RemainingKept, ResumeStillIdle, NotifyNobody, AccountedFullBatch and    *)
(* PassesIfAnyGood are not used: each is the definition after it with a    *)
(* plausible programming error, to confirm that the properties notice it.  *)
(***************************************************************************)
EXTENDS Integers, FiniteSets

CONSTANTS
  Workers,      \* the threads running ThreadScriptCheck
  Master,       \* the thread that connects blocks
  Checks,       \* the CScriptCheck elements
  nBatchSize    \* most checks a thread takes at once (128 in the source)

ASSUME CheckQueueAssumption ==
  /\ Master \notin Workers
  /\ IsFiniteSet(Checks)
  /\ IsFiniteSet(Workers)
  /\ nBatchSize \in Nat \ {0}

Threads == Workers \cup {Master}

VARIABLES
  queue,        \* checks nobody has taken yet
  nIdle,        \* threads counted as idle
  nTotal,       \* threads counted as in the pool
  nTodo,        \* checks not yet accounted for
  fAllOk,       \* the evaluation so far
  pc,           \* where each thread is (see TypeOK)
  batch,        \* vChecks: the checks a thread has taken
  fOk,          \* each thread's local result
  interrupted,  \* threads whose one interruption has been delivered
  control,      \* the CCheckQueueControl: "none", "open", "closing"
  added, bad,   \* the session's checks, and those that evaluate to false
  verdict       \* the last value Wait returned

counters == <<nIdle, nTotal, nTodo, fAllOk>>
session == <<control, added, bad, verdict>>
vars == <<queue, counters, pc, batch, fOk, interrupted, session>>

TypeOK ==
  /\ queue \in SUBSET Checks
  /\ nIdle \in Int /\ nTotal \in Int /\ nTodo \in Nat
  /\ fAllOk \in BOOLEAN
  \* "out": outside Loop; "wait": blocked in cond.wait; "woken": notified but
  \* not yet holding the mutex; "work": evaluating its batch; "done": batch
  \* evaluated, mutex not yet taken; "dead": ended by an interruption.
  /\ pc \in [Threads -> {"out", "wait", "woken", "work", "done", "dead"}]
  /\ batch \in [Threads -> SUBSET Checks]
  /\ fOk \in [Threads -> BOOLEAN]
  /\ interrupted \in SUBSET Threads
  /\ control \in {"none", "open", "closing"}
  /\ added \in SUBSET Checks /\ bad \in SUBSET Checks
  /\ verdict \in BOOLEAN

Init ==
  /\ queue = {}
  /\ nIdle = 0 /\ nTotal = 0 /\ nTodo = 0
  /\ fAllOk = TRUE
  /\ pc = [t \in Threads |-> "out"]
  /\ batch = [t \in Threads |-> {}]
  /\ fOk = [t \in Threads |-> TRUE]
  /\ interrupted = {}
  /\ control = "none"
  /\ added = {} /\ bad = {}
  /\ verdict = TRUE

(* The condition the constructor of CCheckQueueControl asserts. *)
IsIdle == nTotal = nIdle /\ nTodo = 0 /\ fAllOk

-----------------------------------------------------------------------------
(* The critical section of Loop.                                           *)

(* max(1, min(nBatchSize, queue.size() / (nTotal + nIdle + 1))) *)
BatchLength(size, total, idle) ==
  LET share == size \div (total + idle + 1)
      capped == IF share < nBatchSize THEN share ELSE nBatchSize
  IN  IF capped < 1 THEN 1 ELSE capped

(* queue.empty() and the caller may leave: only the master does, because    *)
(* fQuit is never set.                                                      *)
Leave(t, at, total, todo, allOk, idle) ==
  /\ queue = {} /\ t = Master /\ todo = 0
  /\ pc' = [at EXCEPT ![t] = "out"]
  /\ nTotal' = total - 1
  /\ nIdle' = idle
  /\ verdict' = allOk
  /\ fAllOk' = TRUE
  /\ control' = "none"
  /\ UNCHANGED <<queue, fOk>>
  /\ batch' = [batch EXCEPT ![t] = {}]

Block(t, at, total, todo, allOk, idle) ==
  /\ queue = {} /\ ~(t = Master /\ todo = 0)
  /\ pc' = [at EXCEPT ![t] = "wait"]
  /\ nTotal' = total
  /\ nIdle' = idle + 1
  /\ fAllOk' = allOk
  /\ control' = IF t = Master THEN "closing" ELSE control
  /\ batch' = [batch EXCEPT ![t] = {}]
  /\ UNCHANGED <<queue, fOk, verdict>>

(* The back of the queue stays for the other threads. *)
RemainingKept(S) == queue
Remaining(S) == queue \ S

Take(t, at, total, todo, allOk, idle) ==
  /\ queue # {}
  /\ \E S \in SUBSET queue :
       /\ Cardinality(S) = BatchLength(Cardinality(queue), total, idle)
       /\ batch' = [batch EXCEPT ![t] = S]
       /\ queue' = Remaining(S)
  /\ pc' = [at EXCEPT ![t] = "work"]
  /\ fOk' = [fOk EXCEPT ![t] = allOk]
  /\ nTotal' = total
  /\ nIdle' = idle
  /\ fAllOk' = allOk
  /\ control' = IF t = Master THEN "closing" ELSE control
  /\ UNCHANGED verdict

Proceed(t, at, total, todo, allOk, idle) ==
  /\ nTodo' = todo
  /\ \/ Leave(t, at, total, todo, allOk, idle)
     \/ Block(t, at, total, todo, allOk, idle)
     \/ Take(t, at, total, todo, allOk, idle)
  /\ UNCHANGED <<interrupted, added, bad>>

(* First iteration: a worker starts, or the master calls Wait (from the    *)
(* session or from the control's destructor).                              *)
EnterLoop(t) ==
  /\ pc[t] = "out"
  /\ t = Master => control \in {"open", "closing"}
  /\ Proceed(t, pc, nTotal + 1, nTodo, fAllOk, nIdle)

(* cond.wait returns with the mutex held. *)
ResumeStillIdle(t) ==
  /\ pc[t] = "woken"
  /\ Proceed(t, pc, nTotal, nTodo, fAllOk, nIdle)

Resume(t) ==
  /\ pc[t] = "woken"
  /\ Proceed(t, pc, nTotal, nTodo, fAllOk, nIdle - 1)

(* The clean-up of the previous run: merge the result, and tell the master *)
(* when a worker has accounted for the last check.                         *)
NotifyNobody(t, todo) == pc

NotifyMaster(t, todo) ==
  IF todo = 0 /\ t # Master /\ pc[Master] = "wait"
  THEN [pc EXCEPT ![Master] = "woken"]
  ELSE pc

AccountedFullBatch(t) == nBatchSize
Accounted(t) == Cardinality(batch[t])

FinishBatch(t) ==
  LET todo == nTodo - Accounted(t)
  IN  /\ pc[t] = "done"
      /\ Proceed(t, NotifyMaster(t, todo), nTotal, todo, fAllOk /\ fOk[t], nIdle)

(* Outside the mutex: every check runs as long as all before it were good. *)
PassesIfAnyGood(t) == batch[t] = {} \/ batch[t] \ bad # {}
Passes(t) == batch[t] \cap bad = {}

Evaluate(t) ==
  /\ pc[t] = "work"
  /\ fOk' = [fOk EXCEPT ![t] = @ /\ Passes(t)]
  /\ pc' = [pc EXCEPT ![t] = "done"]
  /\ UNCHANGED <<queue, counters, batch, interrupted, session>>

-----------------------------------------------------------------------------
(* The master's calls.                                                     *)

OpenControl ==
  /\ control = "none" /\ pc[Master] = "out"
  /\ control' = "open"
  /\ added' = {}
  /\ bad' \in SUBSET Checks
  /\ UNCHANGED <<queue, counters, pc, batch, fOk, interrupted, verdict>>

Waiting == {w \in Workers : pc[w] = "wait"}

(* notify_one for a single check, notify_all for more. *)
NotifyWorkers(S) ==
  IF Cardinality(S) = 1 /\ Waiting # {}
  THEN \E w \in Waiting : pc' = [pc EXCEPT ![w] = "woken"]
  ELSE pc' = [t \in Threads |->
                IF Cardinality(S) > 1 /\ t \in Waiting THEN "woken" ELSE pc[t]]

Add(S) ==
  /\ control = "open" /\ pc[Master] = "out"
  /\ S # {} /\ S \subseteq Checks \ added
  /\ queue' = queue \cup S
  /\ nTodo' = nTodo + Cardinality(S)
  /\ added' = added \cup S
  /\ NotifyWorkers(S)
  /\ UNCHANGED <<nIdle, nTotal, fAllOk, batch, fOk, interrupted, control, bad, verdict>>

-----------------------------------------------------------------------------
(* The threads library.                                                    *)

(* A condition variable may return without having been notified. *)
SpuriousWakeup(t) ==
  /\ pc[t] = "wait"
  /\ pc' = [pc EXCEPT ![t] = "woken"]
  /\ UNCHANGED <<queue, counters, batch, fOk, interrupted, session>>

(* threadGroup.interrupt_all() at shutdown: cond.wait throws, nIdle and      *)
(* nTotal keep counting the thread.  A worker ends; the master unwinds into *)
(* the control's destructor, which calls Wait again.                        *)
Interrupt(t) ==
  /\ pc[t] \in {"wait", "woken"}
  /\ t \notin interrupted
  /\ interrupted' = interrupted \cup {t}
  /\ pc' = [pc EXCEPT ![t] = IF t = Master THEN "out" ELSE "dead"]
  /\ UNCHANGED <<queue, counters, batch, fOk, session>>

Next ==
  \/ OpenControl
  \/ \E S \in SUBSET Checks : Add(S)
  \/ \E t \in Threads :
       \/ EnterLoop(t) \/ Resume(t) \/ FinishBatch(t) \/ Evaluate(t)
       \/ SpuriousWakeup(t) \/ Interrupt(t)

Spec == Init /\ [][Next]_vars

(* Every thread that can take the mutex eventually does, every batch ends,  *)
(* and the master does not abandon an open session: its control is a local  *)
(* object, whose destructor waits.                                          *)
FairSpec ==
  /\ Spec
  /\ \A t \in Threads : WF_vars(EnterLoop(t) \/ Resume(t) \/ FinishBatch(t) \/ Evaluate(t))
-----------------------------------------------------------------------------
(* Properties.                                                             *)

Taken == {c \in Checks : \E t \in Threads : c \in batch[t]}
Busy == {t \in Threads : pc[t] \in {"work", "done"}}

(* No check is held twice: a check is in the queue or in exactly one batch,  *)
(* and only checks of the session in progress are anywhere.                 *)
NoCheckTwice ==
  /\ queue \cup Taken \subseteq added
  /\ queue \cap Taken = {}
  /\ \A t, u \in Threads : t # u => batch[t] \cap batch[u] = {}

(* nTodo is exactly the number of checks still queued or in some thread's   *)
(* batch, so that it reaches zero when, and only when, none is left.        *)
TodoAccounting == nTodo = Cardinality(queue \cup Taken)

(* CCheckQueueControl's constructor asserts IsIdle(): between two sessions   *)
(* the counters agree, whatever wakeups were spurious and whichever threads *)
(* were interrupted, and no failure of the last block is left behind.       *)
IdleBetweenSessions == control = "none" => IsIdle

(* Wait returns true exactly when every check of its session is good.       *)
VerdictCorrect == control = "none" => (verdict <=> added \cap bad = {})

(* Closing a session always ends it, spurious wakeups and interruptions     *)
(* included: no notification the master depends on is lost.                 *)
SessionEnds == control = "closing" ~> control = "none"

(* The pool implements the abstract verdict service. *)
Abstract == INSTANCE ScriptVerdict
ImplementsVerdict == Abstract!AbstractSpec
=============================================================================
