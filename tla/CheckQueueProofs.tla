-------------------------- MODULE CheckQueueProofs --------------------------
(***************************************************************************)
(* For any number of workers and checks: the script-check pool keeps its   *)
(* books (TodoAccounting), is idle between sessions, and reports the right *)
(* verdict; it implements ScriptVerdict.                                   *)
(*                                                                         *)
(* The inductive invariant IInv adds to the properties what ties them      *)
(* together: which threads hold a batch, that nTotal exceeds nIdle by the  *)
(* busy threads, and what fAllOk and each thread's fOk say about the       *)
(* checks that are already accounted for.  Loop's critical section is      *)
(* entered in three ways; Halfway describes the values it works on after   *)
(* its first part, and ProceedStep shows once that its second part         *)
(* re-establishes IInv from there.                                         *)
(***************************************************************************)
EXTENDS CheckQueue, FiniteSetTheorems, TLAPS

BatchInv == \A t \in Threads : batch[t] # {} <=> pc[t] \in {"work", "done"}

IdleInv == nTotal = nIdle + Cardinality(Busy)

SessionInv ==
  /\ control = "none" => nTodo = 0 /\ fAllOk
  /\ control \in {"none", "open"} => pc[Master] = "out"
  /\ pc[Master] # "dead"

ResultInv ==
  /\ control # "none" /\ fAllOk => (added \ (queue \cup Taken)) \cap bad = {}
  /\ ~fAllOk => added \cap bad # {}
  /\ \A t \in Threads :
       /\ pc[t] = "done" /\ fOk[t] => batch[t] \cap bad = {}
       /\ pc[t] \in {"work", "done"} /\ ~fOk[t] => added \cap bad # {}

IInv ==
  /\ TypeOK /\ NoCheckTwice /\ TodoAccounting /\ BatchInv /\ IdleInv
  /\ SessionInv /\ ResultInv /\ VerdictCorrect

(* The checks other threads hold, and the other busy threads. *)
Others(t) == {c \in Checks : \E u \in Threads \ {t} : c \in batch[u]}
OtherBusy(t) == Busy \ {t}

Halfway(t, at, total, todo, allOk, idle) ==
  /\ at \in [Threads -> {"out", "wait", "woken", "work", "done", "dead"}]
  /\ total \in Int /\ todo \in Nat /\ idle \in Int /\ allOk \in BOOLEAN
  /\ \A u \in Threads \ {t} :
       \/ at[u] = pc[u]
       \/ u = Master /\ pc[u] = "wait" /\ at[u] = "woken"
  /\ todo = Cardinality(queue \cup Others(t))
  /\ total = idle + Cardinality(OtherBusy(t)) + 1
  /\ control # "none" /\ allOk => (added \ (queue \cup Others(t))) \cap bad = {}
  /\ ~allOk => added \cap bad # {}
  /\ t = Master => control \in {"open", "closing"}
  /\ (control = "none" => queue = {} /\ todo = 0 /\ allOk)

(* Sets of checks and of threads are finite: the cardinalities the         *)
(* counters are compared with are numbers.                                 *)
LEMMA FiniteSubsets ==
  /\ \A S \in SUBSET Checks : IsFiniteSet(S) /\ Cardinality(S) \in Nat
  /\ \A T \in SUBSET Threads : IsFiniteSet(T) /\ Cardinality(T) \in Nat
<1>1. IsFiniteSet(Threads)
  BY FS_AddElement, CheckQueueAssumption DEF Threads
<1>2. QED
  BY <1>1, FS_Subset, FS_CardinalityType, CheckQueueAssumption

(* A batch is never empty: BatchLength is at least one. *)
LEMMA BatchNotEmpty ==
  ASSUME NEW S, NEW size, NEW total, NEW idle,
         Cardinality(S) = BatchLength(size, total, idle)
  PROVE  S # {}
<1>1. BatchLength(size, total, idle) # 0
  <2>1. CASE size \div (total + idle + 1) < nBatchSize
    BY <2>1 DEF BatchLength
  <2>2. CASE ~(size \div (total + idle + 1) < nBatchSize)
    BY <2>2, CheckQueueAssumption DEF BatchLength
  <2>3. QED BY <2>1, <2>2
<1>2. QED BY <1>1, FS_EmptySet

(* The second part of Loop's critical section re-establishes IInv. *)
LEMMA ProceedStep ==
  ASSUME IInv, NEW t \in Threads, pc[t] \in {"out", "woken", "done"},
         NEW at, NEW total, NEW todo, NEW allOk, NEW idle,
         Halfway(t, at, total, todo, allOk, idle),
         Proceed(t, at, total, todo, allOk, idle)
  PROVE  IInv'
<1> USE DEF Halfway
<1>0. TypeOK /\ NoCheckTwice /\ BatchInv /\ Master \in Threads
  BY DEF IInv, Threads
<1>1. CASE Leave(t, at, total, todo, allOk, idle)
  <2> USE <1>1 DEF Leave, Proceed
  <2>1. Others(t) = {} /\ OtherBusy(t) = {}
    <3>1. Cardinality(queue \cup Others(t)) = 0 /\ queue \cup Others(t) \in SUBSET Checks
      BY <1>0 DEF Others, TypeOK
    <3>2. Others(t) = {}
      BY <3>1, FiniteSubsets, FS_EmptySet
    <3>3. QED BY <3>2, <1>0 DEF Others, OtherBusy, Busy, BatchInv, TypeOK
  <2>2. TypeOK'
    BY <1>0 DEF TypeOK
  <2>3. \A u \in Threads : batch'[u] = {}
    BY <2>1, <1>0 DEF Others, TypeOK
  <2>4. Taken' = {} /\ Busy' = {}
    <3>1. Taken' = {}
      BY <2>3 DEF Taken
    <3>2. \A u \in Threads : pc'[u] \notin {"work", "done"}
      BY <2>1, <1>0 DEF OtherBusy, Busy, TypeOK
    <3>3. QED BY <3>1, <3>2 DEF Busy
  <2>5. NoCheckTwice'
    BY <2>3, <2>4, <1>0 DEF NoCheckTwice
  <2>6. TodoAccounting'
    BY <2>4, FS_EmptySet DEF TodoAccounting
  <2>7. BatchInv'
    BY <2>3, <2>4 DEF BatchInv, Busy
  <2>8. IdleInv'
    <3>1. Cardinality(OtherBusy(t)) = 0 /\ Cardinality(Busy') = 0
      BY <2>1, <2>4, FS_EmptySet
    <3>2. QED BY <3>1 DEF IdleInv
  <2>9. SessionInv'
    BY <1>0 DEF SessionInv, TypeOK
  <2>10. ResultInv' /\ VerdictCorrect'
    <3>1. allOk <=> added \cap bad = {}
      BY <2>1
    <3>2. \A u \in Threads : pc'[u] \notin {"work", "done"}
      BY <2>4 DEF Busy
    <3>3. (verdict' <=> added \cap bad = {}) /\ verdict' \in BOOLEAN
      BY <3>1
    <3>4. VerdictCorrect'
      BY <3>3, Zenon DEF VerdictCorrect
    <3>5. QED BY <3>1, <3>2, <3>4 DEF ResultInv
  <2>11. QED BY <2>2, <2>5, <2>6, <2>7, <2>8, <2>9, <2>10 DEF IInv
<1>2. CASE Block(t, at, total, todo, allOk, idle)
  <2> USE <1>2 DEF Block, Proceed
  <2>1. TypeOK'
    BY <1>0 DEF TypeOK
  <2>2. Taken' = Others(t)
    BY <1>0 DEF Taken, Others, TypeOK
  <2>3. Busy' = OtherBusy(t)
    BY <1>0 DEF Busy, OtherBusy, TypeOK
  <2>4. NoCheckTwice'
    BY <1>0, <2>2 DEF NoCheckTwice, Taken, Others, TypeOK
  <2>5. TodoAccounting'
    BY <2>2 DEF TodoAccounting
  <2>6. BatchInv'
    BY <1>0 DEF BatchInv, TypeOK
  <2>7. IdleInv'
    <3>1. Cardinality(OtherBusy(t)) \in Nat
      BY FiniteSubsets DEF OtherBusy, Busy
    <3>2. QED BY <2>3, <3>1 DEF IdleInv
  <2>8. SessionInv'
    BY <1>0 DEF SessionInv, TypeOK, IInv
  <2>9. ResultInv'
    <3>1. \A u \in Threads \ {t} : batch'[u] = batch[u] /\ fOk'[u] = fOk[u]
                                   /\ (pc'[u] \in {"work", "done"} => pc'[u] = pc[u])
      BY <1>0 DEF TypeOK
    <3>2. pc'[t] = "wait"
      BY <1>0 DEF TypeOK
    <3>3. QED BY <1>0, <2>2, <3>1, <3>2 DEF ResultInv, IInv
  <2>10. VerdictCorrect'
    BY <1>0 DEF VerdictCorrect, IInv
  <2>11. QED BY <2>1, <2>4, <2>5, <2>6, <2>7, <2>8, <2>9, <2>10 DEF IInv
<1>3. CASE Take(t, at, total, todo, allOk, idle)
  <2> USE DEF Proceed
  <2>0. PICK S \in SUBSET queue :
          /\ Cardinality(S) = BatchLength(Cardinality(queue), total, idle)
          /\ batch' = [batch EXCEPT ![t] = S]
          /\ queue' = queue \ S
    BY <1>3 DEF Take, Remaining
  <2> USE <2>0
  <2>1. S # {}
    BY BatchNotEmpty
  <2>2. TypeOK'
    BY <1>0, <1>3 DEF TypeOK, Take
  <2>3. queue' \cup Taken' = queue \cup Others(t)
    BY <1>0 DEF Taken, Others, TypeOK
  <2>4. Busy' = OtherBusy(t) \cup {t}
    BY <1>0, <1>3 DEF Busy, OtherBusy, TypeOK, Take
  <2>5. NoCheckTwice'
    <3>1. \A u \in Threads \ {t} : batch'[u] = batch[u] /\ batch[u] \cap queue = {}
      BY <1>0 DEF NoCheckTwice, Taken, TypeOK
    <3>2. batch'[t] = S /\ queue' \cap S = {}
      BY <1>0 DEF TypeOK
    <3>3. queue' \cap Taken' = {}
      BY <3>1, <3>2 DEF Taken
    <3>4. \A u, v \in Threads : u # v => batch'[u] \cap batch'[v] = {}
      BY <3>1, <3>2, <1>0 DEF NoCheckTwice
    <3>5. queue' \cup Taken' \subseteq added'
      BY <2>3, <1>0 DEF NoCheckTwice, Taken, Others
    <3>6. QED BY <3>3, <3>4, <3>5 DEF NoCheckTwice
  <2>6. TodoAccounting'
    BY <2>3 DEF TodoAccounting
  <2>7. BatchInv'
    BY <2>1, <1>0, <1>3 DEF BatchInv, TypeOK, Take
  <2>8. IdleInv'
    <3>1. Cardinality(Busy') = Cardinality(OtherBusy(t)) + 1
      BY <2>4, FiniteSubsets, FS_AddElement, <1>0 DEF OtherBusy, Busy
    <3>2. QED BY <3>1, <1>3, FiniteSubsets DEF IdleInv, Take, OtherBusy, Busy
  <2>9. SessionInv'
    BY <1>0, <1>3 DEF SessionInv, TypeOK, IInv, Take
  <2>10. ResultInv'
    <3>1. \A u \in Threads \ {t} : batch'[u] = batch[u] /\ fOk'[u] = fOk[u]
                                   /\ (pc'[u] \in {"work", "done"} => pc'[u] = pc[u])
      BY <1>0, <1>3 DEF TypeOK, Take
    <3>2. pc'[t] = "work" /\ fOk'[t] = allOk
      BY <1>0, <1>3 DEF TypeOK, Take
    <3>3. fAllOk' = allOk
      BY <1>3 DEF Take
    <3>4. control' = "none" <=> control = "none"
      BY <1>3 DEF Take
    <3>5. control' # "none" /\ fAllOk' => (added' \ (queue' \cup Taken')) \cap bad' = {}
      BY <2>3, <3>3, <3>4
    <3>6. ~fAllOk' => added' \cap bad' # {}
      BY <3>3
    <3>7. ASSUME NEW u \in Threads
          PROVE  /\ pc'[u] = "done" /\ fOk'[u] => batch'[u] \cap bad' = {}
                 /\ pc'[u] \in {"work", "done"} /\ ~fOk'[u] => added' \cap bad' # {}
      <4>1. CASE u = t
        BY <4>1, <3>2
      <4>2. CASE u # t
        BY <4>2, <3>1 DEF ResultInv, IInv
      <4>3. QED BY <4>1, <4>2
    <3>8. QED BY <3>5, <3>6, <3>7 DEF ResultInv
  <2>11. VerdictCorrect'
    BY <1>0, <1>3 DEF VerdictCorrect, IInv, Take
  <2>12. QED BY <2>2, <2>5, <2>6, <2>7, <2>8, <2>9, <2>10, <2>11 DEF IInv
<1>4. QED BY <1>1, <1>2, <1>3 DEF Proceed

LEMMA InitInv == Init => IInv
<1> SUFFICES ASSUME Init PROVE IInv
  OBVIOUS
<1>1. Taken = {} /\ Busy = {}
  BY DEF Init, Taken, Busy
<1>2. QED
  BY <1>1, FS_EmptySet
     DEF Init, IInv, TypeOK, NoCheckTwice, TodoAccounting, BatchInv, IdleInv,
         SessionInv, ResultInv, VerdictCorrect, Threads

(* A thread entering Loop, coming back from cond.wait, or bringing back a  *)
(* batch reaches the second part of the critical section halfway.          *)
LEMMA EnterLoopStep ==
  ASSUME IInv, NEW t \in Threads, EnterLoop(t)
  PROVE  IInv'
<1>1. Others(t) = Taken /\ OtherBusy(t) = Busy
  BY DEF IInv, EnterLoop, Others, Taken, OtherBusy, Busy, BatchInv, TypeOK
<1>2. Halfway(t, pc, nTotal + 1, nTodo, fAllOk, nIdle)
  <2>1. Cardinality(Busy) \in Nat
    BY FiniteSubsets DEF Busy
  <2>2. control = "none" => queue = {} /\ nTodo = 0 /\ fAllOk
    <3>1. Cardinality(queue \cup Taken) = 0 => queue = {}
      BY FiniteSubsets, FS_EmptySet DEF IInv, TypeOK, Taken
    <3>2. QED BY <3>1 DEF IInv, SessionInv, TodoAccounting
  <2>3. QED
    BY <1>1, <2>1, <2>2
       DEF Halfway, IInv, EnterLoop, TypeOK, TodoAccounting, IdleInv, ResultInv
<1>3. QED BY <1>2, ProceedStep DEF EnterLoop

LEMMA ResumeStep ==
  ASSUME IInv, NEW t \in Threads, Resume(t)
  PROVE  IInv'
<1>1. Others(t) = Taken /\ OtherBusy(t) = Busy
  BY DEF IInv, Resume, Others, Taken, OtherBusy, Busy, BatchInv, TypeOK
<1>2. Halfway(t, pc, nTotal, nTodo, fAllOk, nIdle - 1)
  <2>1. Cardinality(Busy) \in Nat
    BY FiniteSubsets DEF Busy
  <2>2. control = "none" => queue = {} /\ nTodo = 0 /\ fAllOk
    <3>1. Cardinality(queue \cup Taken) = 0 => queue = {}
      BY FiniteSubsets, FS_EmptySet DEF IInv, TypeOK, Taken
    <3>2. QED BY <3>1 DEF IInv, SessionInv, TodoAccounting
  <2>3. t = Master => control \in {"open", "closing"}
    BY DEF IInv, SessionInv, TypeOK, Resume
  <2>4. QED
    BY <1>1, <2>1, <2>2, <2>3
       DEF Halfway, IInv, TypeOK, TodoAccounting, IdleInv, ResultInv
<1>3. QED BY <1>2, ProceedStep DEF Resume

LEMMA FinishBatchStep ==
  ASSUME IInv, NEW t \in Threads, FinishBatch(t)
  PROVE  IInv'
<1> DEFINE todo == nTodo - Cardinality(batch[t])
<1>0. pc[t] = "done" /\ batch[t] \in SUBSET Checks /\ batch[t] # {} /\ Master \in Threads
  BY DEF IInv, FinishBatch, TypeOK, BatchInv, Threads
<1>1. Taken = Others(t) \cup batch[t] /\ (queue \cup Others(t)) \cap batch[t] = {}
  BY <1>0 DEF IInv, Others, Taken, NoCheckTwice, TypeOK
<1>2. todo = Cardinality(queue \cup Others(t)) /\ todo \in Nat
  <2>1. queue \cup Others(t) \in SUBSET Checks
    BY DEF IInv, TypeOK, Others
  <2>2. Cardinality((queue \cup Others(t)) \cup batch[t])
          = Cardinality(queue \cup Others(t)) + Cardinality(batch[t])
            - Cardinality((queue \cup Others(t)) \cap batch[t])
    BY <1>0, <2>1, FS_Union, FiniteSubsets
  <2>3. Cardinality((queue \cup Others(t)) \cap batch[t]) = 0
    BY <1>1, FS_EmptySet
  <2>4. queue \cup Taken = (queue \cup Others(t)) \cup batch[t]
    BY <1>1
  <2>5. Cardinality(queue \cup Others(t)) \in Nat /\ Cardinality(batch[t]) \in Nat
    BY <1>0, <2>1, FiniteSubsets
  <2>6. nTodo = Cardinality((queue \cup Others(t)) \cup batch[t])
    BY <2>4 DEF IInv, TodoAccounting
  <2>7. QED BY <2>2, <2>3, <2>5, <2>6
<1>3. nTotal = nIdle + Cardinality(OtherBusy(t)) + 1 /\ Cardinality(OtherBusy(t)) \in Nat
  <2>1. Busy = OtherBusy(t) \cup {t} /\ t \notin OtherBusy(t) /\ OtherBusy(t) \in SUBSET Threads
    BY <1>0 DEF Busy, OtherBusy
  <2>2. Cardinality(Busy) = Cardinality(OtherBusy(t)) + 1
    BY <2>1, FS_AddElement, FiniteSubsets
  <2>3. QED BY <2>1, <2>2, FiniteSubsets DEF IInv, IdleInv, TypeOK
<1>4. control # "none"
  <2>1. Cardinality(queue \cup Taken) # 0
    BY <1>0, <1>1, FiniteSubsets, FS_EmptySet DEF IInv, TypeOK, Taken
  <2>2. QED BY <2>1 DEF IInv, SessionInv, TodoAccounting
<1>5. t = Master => control \in {"open", "closing"}
  BY <1>4 DEF IInv, TypeOK
<1>6. fAllOk /\ fOk[t] => (added \ (queue \cup Others(t))) \cap bad = {}
  <2>1. added \ (queue \cup Others(t)) \subseteq (added \ (queue \cup Taken)) \cup batch[t]
    BY <1>1
  <2>2. fAllOk => (added \ (queue \cup Taken)) \cap bad = {}
    BY <1>4 DEF IInv, ResultInv
  <2>3. fOk[t] => batch[t] \cap bad = {}
    BY <1>0 DEF IInv, ResultInv
  <2>4. QED BY <2>1, <2>2, <2>3
<1>7. ~(fAllOk /\ fOk[t]) => added \cap bad # {}
  BY <1>0 DEF IInv, ResultInv
<1>8. Halfway(t, NotifyMaster(t, todo), nTotal, todo, fAllOk /\ fOk[t], nIdle)
  <2>1. NotifyMaster(t, todo) \in [Threads -> {"out", "wait", "woken", "work", "done", "dead"}]
    BY DEF IInv, TypeOK, NotifyMaster
  <2>2. \A u \in Threads \ {t} :
          \/ NotifyMaster(t, todo)[u] = pc[u]
          \/ u = Master /\ pc[u] = "wait" /\ NotifyMaster(t, todo)[u] = "woken"
    BY <1>0 DEF IInv, TypeOK, NotifyMaster
  <2>3. QED
    BY <1>2, <1>3, <1>4, <1>5, <1>6, <1>7, <2>1, <2>2 DEF Halfway, IInv, TypeOK
<1>9. QED BY <1>0, <1>8, ProceedStep DEF FinishBatch, Accounted

LEMMA EvaluateStep ==
  ASSUME IInv, NEW t \in Threads, Evaluate(t)
  PROVE  IInv'
<1> USE DEF Evaluate, Passes, counters, session
<1>0. TypeOK /\ Taken' = Taken /\ Busy' = Busy
  BY DEF IInv, TypeOK, Taken, Busy
<1>1. TypeOK'
  BY <1>0 DEF TypeOK
<1>2. NoCheckTwice' /\ TodoAccounting' /\ IdleInv'
  BY <1>0 DEF IInv, NoCheckTwice, TodoAccounting, IdleInv
<1>3. BatchInv' /\ SessionInv'
  BY <1>0 DEF IInv, BatchInv, SessionInv, TypeOK
<1>4. ResultInv'
  <2>1. batch[t] \subseteq added
    BY <1>0 DEF IInv, NoCheckTwice, Taken, TypeOK
  <2>2. fOk'[t] => batch[t] \cap bad = {}
    BY <1>0 DEF TypeOK
  <2>3. ~fOk'[t] => ~fOk[t] \/ batch[t] \cap bad # {}
    BY <1>0 DEF TypeOK
  <2>4. ~fOk'[t] => added \cap bad # {}
    BY <2>1, <2>3 DEF IInv, ResultInv
  <2>5. \A u \in Threads \ {t} : fOk'[u] = fOk[u] /\ pc'[u] = pc[u]
    BY <1>0 DEF TypeOK
  <2>6. QED BY <1>0, <2>2, <2>4, <2>5 DEF IInv, ResultInv
<1>5. VerdictCorrect'
  BY DEF IInv, VerdictCorrect
<1>6. QED BY <1>1, <1>2, <1>3, <1>4, <1>5 DEF IInv

LEMMA OpenControlStep ==
  ASSUME IInv, OpenControl
  PROVE  IInv'
<1> USE DEF OpenControl, counters
<1>0. TypeOK /\ Taken' = Taken /\ Busy' = Busy
  BY DEF IInv, TypeOK, Taken, Busy
<1>1. queue = {} /\ Taken = {}
  BY FiniteSubsets, FS_EmptySet
     DEF IInv, SessionInv, TodoAccounting, TypeOK, Taken
<1>2. \A u \in Threads : batch[u] = {}
  BY <1>0, <1>1 DEF Taken, TypeOK
<1>3. TypeOK' /\ NoCheckTwice' /\ TodoAccounting' /\ IdleInv'
  BY <1>0, <1>1, <1>2 DEF IInv, TypeOK, NoCheckTwice, TodoAccounting, IdleInv
<1>4. BatchInv' /\ SessionInv' /\ VerdictCorrect'
  BY <1>0 DEF IInv, BatchInv, SessionInv, VerdictCorrect
<1>5. ResultInv'
  BY <1>2 DEF IInv, BatchInv, ResultInv, SessionInv
<1>6. QED BY <1>3, <1>4, <1>5 DEF IInv

LEMMA AddStep ==
  ASSUME IInv, NEW S \in SUBSET Checks, Add(S)
  PROVE  IInv'
<1> USE DEF Add
<1>0. TypeOK /\ Taken' = Taken
  BY DEF IInv, TypeOK, Taken
<1>1. /\ pc' \in [Threads -> {"out", "wait", "woken", "work", "done", "dead"}]
      /\ \A u \in Threads : pc'[u] = pc[u] \/ (u \in Waiting /\ pc'[u] = "woken")
  <2>1. CASE \E w \in Waiting : pc' = [pc EXCEPT ![w] = "woken"]
    BY <1>0, <2>1 DEF TypeOK, Waiting, Threads
  <2>2. CASE pc' = [u \in Threads |->
                      IF Cardinality(S) > 1 /\ u \in Waiting THEN "woken" ELSE pc[u]]
    <3>1. \A u \in Threads :
            pc'[u] = IF Cardinality(S) > 1 /\ u \in Waiting THEN "woken" ELSE pc[u]
      BY <2>2
    <3>2. \A u \in Threads : pc'[u] = pc[u] \/ (u \in Waiting /\ pc'[u] = "woken")
      BY <3>1
    <3>3. \A u \in Threads : pc'[u] \in {"out", "wait", "woken", "work", "done", "dead"}
      BY <1>0, <3>2 DEF TypeOK
    <3>4. QED BY <2>2, <3>2, <3>3
  <2>3. QED BY <2>1, <2>2 DEF NotifyWorkers
<1>2. Busy' = Busy
  BY <1>1 DEF Busy, Waiting
<1>3. TypeOK'
  <2>1. Cardinality(S) \in Nat
    BY FiniteSubsets
  <2>2. QED BY <1>0, <1>1, <2>1 DEF TypeOK
<1>4. S \cap (queue \cup Taken) = {}
  BY DEF IInv, NoCheckTwice
<1>5. NoCheckTwice'
  BY <1>0, <1>4 DEF IInv, NoCheckTwice
<1>6. TodoAccounting'
  <2>1. queue \cup Taken \in SUBSET Checks
    BY <1>0 DEF TypeOK, Taken
  <2>2. Cardinality((queue \cup Taken) \cup S)
          = Cardinality(queue \cup Taken) + Cardinality(S)
            - Cardinality((queue \cup Taken) \cap S)
    BY <2>1, FiniteSubsets, FS_Union
  <2>3. Cardinality((queue \cup Taken) \cap S) = 0
    BY <1>4, FS_EmptySet
  <2>4. Cardinality(queue \cup Taken) \in Nat /\ Cardinality(S) \in Nat
    BY <2>1, FiniteSubsets
  <2>5. queue' \cup Taken' = (queue \cup Taken) \cup S
    BY <1>0
  <2>6. nTodo = Cardinality(queue \cup Taken)
    BY DEF IInv, TodoAccounting
  <2>7. nTodo' = Cardinality((queue \cup Taken) \cup S)
    BY <2>2, <2>3, <2>4, <2>6
  <2>8. QED BY <2>5, <2>7 DEF TodoAccounting
<1>7. BatchInv'
  BY <1>1 DEF IInv, BatchInv, Waiting
<1>8. IdleInv'
  BY <1>2 DEF IInv, IdleInv
<1>9. SessionInv'
  BY <1>0, <1>1, CheckQueueAssumption DEF IInv, SessionInv, Waiting, TypeOK, Threads
<1>10. ResultInv'
  <2>1. added' \ (queue' \cup Taken') \subseteq added \ (queue \cup Taken)
    BY <1>0
  <2>2. \A u \in Threads : pc'[u] \in {"work", "done"} => pc'[u] = pc[u]
    BY <1>1
  <2>3. fAllOk' => (added' \ (queue' \cup Taken')) \cap bad' = {}
    BY <2>1 DEF IInv, ResultInv
  <2>4. QED BY <1>0, <2>2, <2>3 DEF IInv, ResultInv
<1>11. VerdictCorrect'
  BY DEF VerdictCorrect
<1>12. QED BY <1>3, <1>5, <1>6, <1>7, <1>8, <1>9, <1>10, <1>11 DEF IInv

(* The threads library touches neither the batches nor the busy threads. *)
LEMMA WakeStep ==
  ASSUME IInv, NEW t \in Threads, SpuriousWakeup(t) \/ Interrupt(t)
  PROVE  IInv'
<1> USE DEF SpuriousWakeup, Interrupt, counters, session
<1>0. TypeOK /\ Taken' = Taken
  BY DEF IInv, Taken
<1>1. pc[t] \in {"wait", "woken"} /\ pc'[t] \in {"woken", "out", "dead"}
      /\ (t = Master => pc'[t] # "dead")
      /\ \A u \in Threads \ {t} : pc'[u] = pc[u]
  BY <1>0 DEF TypeOK
<1>2. Busy' = Busy
  BY <1>1 DEF Busy
<1>3. TypeOK'
  BY <1>0 DEF TypeOK
<1>4. NoCheckTwice' /\ TodoAccounting' /\ IdleInv' /\ VerdictCorrect'
  <2>1. NoCheckTwice' /\ TodoAccounting'
    BY <1>0 DEF IInv, NoCheckTwice, TodoAccounting
  <2>2. IdleInv'
    BY <1>2 DEF IInv, IdleInv
  <2>3. VerdictCorrect'
    BY DEF IInv, VerdictCorrect
  <2>4. QED BY <2>1, <2>2, <2>3
<1>5. BatchInv'
  BY <1>0, <1>1 DEF IInv, BatchInv
<1>6. SessionInv'
  BY <1>1 DEF IInv, SessionInv, Threads
<1>7. ResultInv'
  BY <1>0, <1>1 DEF IInv, ResultInv
<1>8. QED BY <1>3, <1>4, <1>5, <1>6, <1>7 DEF IInv

(* IInv is inductive. *)
THEOREM Inductive == Spec => []IInv
<1>1. IInv /\ [Next]_vars => IInv'
  <2> SUFFICES ASSUME IInv, [Next]_vars PROVE IInv'
    OBVIOUS
  <2>1. CASE OpenControl
    BY <2>1, OpenControlStep
  <2>2. CASE \E S \in SUBSET Checks : Add(S)
    BY <2>2, AddStep
  <2>3. ASSUME NEW t \in Threads,
               \/ EnterLoop(t) \/ Resume(t) \/ FinishBatch(t) \/ Evaluate(t)
               \/ SpuriousWakeup(t) \/ Interrupt(t)
        PROVE  IInv'
    BY <2>3, EnterLoopStep, ResumeStep, FinishBatchStep, EvaluateStep, WakeStep
  <2>4. CASE UNCHANGED vars
    BY <2>4 DEF vars, counters, session, IInv, TypeOK, NoCheckTwice, TodoAccounting,
                BatchInv, IdleInv, SessionInv, ResultInv, VerdictCorrect, Taken, Busy
  <2>5. QED BY <2>1, <2>2, <2>3, <2>4 DEF Next
<1>2. QED BY <1>1, InitInv, PTL DEF Spec

(* Every reachable state is well typed. *)
THEOREM TypeCorrect == Spec => []TypeOK
<1>1. IInv => TypeOK
  BY DEF IInv
<1>2. QED BY <1>1, Inductive, PTL

(* No check is evaluated twice or lost: the queue and the batches are      *)
(* disjoint, and nTodo counts what is in them.                             *)
THEOREM Accounting == Spec => [](NoCheckTwice /\ TodoAccounting)
<1>1. IInv => NoCheckTwice /\ TodoAccounting
  BY DEF IInv
<1>2. QED BY <1>1, Inductive, PTL

(* The assertion of CCheckQueueControl's constructor never fails. *)
THEOREM ConstructorAssertion == Spec => []IdleBetweenSessions
<1>1. IInv => IdleBetweenSessions
  <2> SUFFICES ASSUME IInv, control = "none" PROVE IsIdle
    BY DEF IdleBetweenSessions
  <2>1. queue \cup Taken = {}
    BY FiniteSubsets, FS_EmptySet DEF IInv, SessionInv, TodoAccounting, TypeOK, Taken
  <2>2. Busy = {}
    BY <2>1 DEF IInv, BatchInv, Busy, Taken, TypeOK
  <2>3. Cardinality(Busy) = 0
    BY <2>2, FS_EmptySet
  <2>4. QED BY <2>3 DEF IsIdle, IInv, IdleInv, SessionInv, TypeOK
<1>2. QED BY <1>1, Inductive, PTL

(* Wait's answer is right, for every number of checks and of workers, and  *)
(* however their steps, wakeups and interruptions interleave.              *)
THEOREM VerdictTheorem == Spec => []VerdictCorrect
<1>1. IInv => VerdictCorrect
  BY DEF IInv
<1>2. QED BY <1>1, Inductive, PTL

(* Where the pool moves the session on, the abstract service does too.     *)
LEMMA ProceedRefines ==
  ASSUME IInv', NEW t \in Threads, t = Master => control \in {"open", "closing"},
         control \in {"none", "open", "closing"},
         NEW at, NEW total, NEW todo, NEW allOk, NEW idle,
         Proceed(t, at, total, todo, allOk, idle)
  PROVE  [Abstract!AbstractNext]_Abstract!abstractVars
<1>1. UNCHANGED <<added, bad>>
  BY DEF Proceed
<1>2. CASE Leave(t, at, total, todo, allOk, idle)
  <2>1. control \in {"open", "closing"} /\ control' = "none"
    BY <1>2 DEF Leave
  <2>2. (verdict' <=> added \cap bad = {}) /\ verdict' \in BOOLEAN
    BY <1>1, <2>1 DEF IInv, VerdictCorrect, TypeOK
  <2>3. verdict' = (added \cap bad = {})
    BY <2>2, Zenon
  <2>4. QED BY <1>1, <2>1, <2>3 DEF Abstract!AbstractNext, Abstract!Report
<1>3. CASE Block(t, at, total, todo, allOk, idle) \/ Take(t, at, total, todo, allOk, idle)
  <2>1. verdict' = verdict
    BY <1>3 DEF Block, Take
  <2>2. control' = IF t = Master THEN "closing" ELSE control
    BY <1>3 DEF Block, Take
  <2>3. CASE control = "open" /\ t = Master
    BY <1>1, <2>1, <2>2, <2>3 DEF Abstract!AbstractNext, Abstract!CloseSession
  <2>4. CASE ~(control = "open" /\ t = Master)
    BY <1>1, <2>1, <2>2, <2>4 DEF Abstract!abstractVars
  <2>5. QED BY <2>3, <2>4
<1>4. QED BY <1>2, <1>3 DEF Proceed

(* The pool, threads, counters, wakeups and interruptions included,        *)
(* implements the verdict service.                                         *)
THEOREM Refinement == Spec => ImplementsVerdict
<1>1. Init => Abstract!AbstractInit
  BY DEF Init, Abstract!AbstractInit
<1>2. IInv /\ IInv' /\ [Next]_vars => [Abstract!AbstractNext]_Abstract!abstractVars
  <2> SUFFICES ASSUME IInv, IInv', [Next]_vars
               PROVE  [Abstract!AbstractNext]_Abstract!abstractVars
    OBVIOUS
  <2>0. TypeOK /\ SessionInv
    BY DEF IInv
  <2>1. CASE OpenControl
    BY <2>1 DEF OpenControl, Abstract!AbstractNext, Abstract!OpenSession
  <2>2. ASSUME NEW S \in SUBSET Checks, Add(S)
        PROVE  Abstract!AbstractNext
    BY <2>2 DEF Add, Abstract!AbstractNext, Abstract!HandIn
  <2>3. ASSUME NEW t \in Threads, EnterLoop(t) \/ Resume(t) \/ FinishBatch(t)
        PROVE  [Abstract!AbstractNext]_Abstract!abstractVars
    <3>1. t = Master => control \in {"open", "closing"}
      BY <2>0, <2>3 DEF EnterLoop, Resume, FinishBatch, SessionInv, TypeOK
    <3>2. control \in {"none", "open", "closing"}
      BY <2>0 DEF TypeOK
    <3>3. QED BY <2>3, <3>1, <3>2, ProceedRefines DEF EnterLoop, Resume, FinishBatch
  <2>4. ASSUME NEW t \in Threads, Evaluate(t) \/ SpuriousWakeup(t) \/ Interrupt(t)
        PROVE  UNCHANGED Abstract!abstractVars
    BY <2>4 DEF Evaluate, SpuriousWakeup, Interrupt, session, Abstract!abstractVars
  <2>5. CASE UNCHANGED vars
    BY <2>5 DEF vars, session, Abstract!abstractVars
  <2>6. QED BY <2>1, <2>2, <2>3, <2>4, <2>5 DEF Next
<1>3. QED
  BY <1>1, <1>2, Inductive, PTL DEF Spec, ImplementsVerdict, Abstract!AbstractSpec
=============================================================================
