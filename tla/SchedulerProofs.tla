--------------------------- MODULE SchedulerProofs ---------------------------
(***************************************************************************)
(* QueueConsistent and AtOrAfter of Scheduler for any number of threads    *)
(* and tasks. QueueConsistent is inductive. AtOrAfter needs more: while a  *)
(* thread waits for a time and no other one starts a task, the task it     *)
(* waits for or an earlier one is in the queue (Kept), because only a      *)
(* start takes tasks out; so the first task is due when that time is over. *)
(***************************************************************************)
EXTENDS Scheduler, FiniteSetTheorems, TLAPS

Places == {"out", "wait", "timed", "woken", "expired", "run", "gone"}

Kept ==
  \A t \in Threads :
    /\ pc[t] \in {"timed", "expired"} /\ t \notin overtaken => \E e \in taskQueue : e[1] <= deadline[t]
    /\ pc[t] = "expired" => deadline[t] <= now

IInv == TypeOK /\ ThreadsCounted /\ RunOnce /\ Kept

LEMMA ServicingFinite == IsFiniteSet(Servicing) /\ Cardinality(Servicing) \in Nat
BY SchedulerAssumption, FS_Subset, FS_CardinalityType DEF Servicing

LEMMA TimesFinite ==
  \A S \in SUBSET Times : IsFiniteSet(S) /\ Cardinality(S) \in Nat
<1>1. IsFiniteSet(Times)
  BY SchedulerAssumption, FS_Interval DEF Times
<1>2. QED
  BY <1>1, FS_Subset, FS_CardinalityType

(* A notification moves waiting threads only, and to "woken". *)
Notified(at) ==
  /\ pc' \in [Threads -> Places]
  /\ \A u \in Threads : pc'[u] = at[u] \/ (at[u] \in {"wait", "timed"} /\ pc'[u] = "woken")

LEMMA NotifyOne ==
  ASSUME NEW at \in [Threads -> Places], pc' \in notify_one(at)
  PROVE  Notified(at)
<1>1. CASE Waiting(at) = {}
  BY <1>1 DEF notify_one, Notified
<1>2. CASE Waiting(at) # {}
  <2>1. PICK t \in Waiting(at) : pc' = [at EXCEPT ![t] = "woken"]
    BY <1>2 DEF notify_one
  <2>2. t \in Threads /\ at[t] \in {"wait", "timed"}
    BY <2>1 DEF Waiting
  <2>3. QED
    BY <2>1, <2>2 DEF Notified, Places
<1>3. QED
  BY <1>1, <1>2

LEMMA NotifyAll ==
  ASSUME NEW at \in [Threads -> Places], pc' = notify_all(at)
  PROVE  Notified(at)
BY DEF notify_all, Waiting, Notified, Places

-----------------------------------------------------------------------------
(* What a turn of the loop does to the count, the places and the deadline. *)

LEMMA LoopStep ==
  ASSUME IInv, NEW t \in Threads, NEW n, Loop(t, n), n = Cardinality(Servicing \cup {t})
  PROVE  /\ ThreadsCounted' /\ nThreadsServicingQueue' \in Nat
         /\ pc' \in [Threads -> Places] /\ deadline' \in [Threads -> Times]
         /\ overtaken' \subseteq Threads /\ Kept'
<1> USE DEF Places
<1>1. pc \in [Threads -> Places] /\ deadline \in [Threads -> Times] /\ taskQueue \subseteq Times \X Tasks
      /\ overtaken \subseteq Threads
  BY DEF IInv, TypeOK
<1>2. IsFiniteSet(Servicing \cup {t}) /\ n \in Nat
  BY ServicingFinite, FS_AddElement, FS_CardinalityType
<1>3. UNCHANGED <<taskQueue, now>> /\ overtaken' = overtaken \ {t}
  BY DEF Loop, clock
<1>4. overtaken' \subseteq Threads
  BY <1>1, <1>3
<1>5. CASE Leave(t, n)
  <2>1. Notified([pc EXCEPT ![t] = "gone"])
    BY <1>1, <1>5, NotifyOne DEF Leave
  <2>2. /\ pc' \in [Threads -> Places] /\ pc'[t] = "gone"
        /\ \A u \in Threads \ {t} : pc'[u] = pc[u] \/ (pc[u] \in {"wait", "timed"} /\ pc'[u] = "woken")
    BY <1>1, <2>1 DEF Notified
  <2>3. Servicing' = (Servicing \cup {t}) \ {t}
    BY <1>1, <2>2 DEF Servicing
  <2>4. Cardinality(Servicing') = n - 1 /\ n - 1 \in Nat
    <3> DEFINE S == Servicing \cup {t}
    <3>1. IsFiniteSet(S \ {t}) /\ Cardinality(S \ {t}) = Cardinality(S) - 1
      BY <1>2, FS_RemoveElement
    <3>2. QED
      BY <2>3, <3>1, FS_CardinalityType
  <2>5. ThreadsCounted' /\ nThreadsServicingQueue' \in Nat
    BY <1>5, <2>4 DEF Leave, ThreadsCounted
  <2>6. deadline' = deadline
    BY <1>5 DEF Leave
  <2>7. Kept'
    BY <1>1, <1>3, <2>2, <2>6 DEF IInv, Kept
  <2>8. QED
    BY <1>1, <1>4, <2>2, <2>5, <2>6, <2>7
<1>6. CASE /\ nThreadsServicingQueue' = n
           /\ \/ pc' = [pc EXCEPT ![t] = "wait"] /\ UNCHANGED deadline
              \/ /\ \E e \in First : deadline' = [deadline EXCEPT ![t] = e[1]]
                 /\ pc' = [pc EXCEPT ![t] = "timed"]
  <2>1. /\ pc' \in [Threads -> Places] /\ pc'[t] \in {"wait", "timed"}
        /\ \A u \in Threads \ {t} : pc'[u] = pc[u]
    BY <1>1, <1>6
  <2>2. Servicing' = Servicing \cup {t}
    BY <1>1, <2>1 DEF Servicing
  <2>3. ThreadsCounted' /\ nThreadsServicingQueue' \in Nat
    BY <1>2, <1>6, <2>2 DEF ThreadsCounted
  <2>4. CASE pc' = [pc EXCEPT ![t] = "wait"] /\ UNCHANGED deadline
    <3>1. Kept'
      BY <1>1, <1>3, <2>1, <2>4 DEF IInv, Kept
    <3>2. QED
      BY <1>1, <1>4, <2>1, <2>3, <2>4, <3>1
  <2>5. ASSUME NEW e \in First, deadline' = [deadline EXCEPT ![t] = e[1]],
               pc' = [pc EXCEPT ![t] = "timed"]
        PROVE  deadline' \in [Threads -> Times] /\ Kept'
    <3>1. e \in taskQueue /\ e[1] \in Times
      BY <1>1 DEF First
    <3>2. deadline' \in [Threads -> Times] /\ deadline'[t] = e[1]
      BY <1>1, <2>5, <3>1
    <3>3. \A u \in Threads \ {t} : pc'[u] = pc[u] /\ deadline'[u] = deadline[u]
      BY <1>1, <2>5
    <3>4. e[1] <= deadline'[t]
      BY <3>1, <3>2, SchedulerAssumption DEF Times
    <3>5. pc'[t] = "timed"
      BY <1>1, <2>5
    <3>6. Kept'
      BY <1>3, <3>1, <3>3, <3>4, <3>5 DEF IInv, Kept
    <3>7. QED
      BY <3>2, <3>6
  <2>6. QED
    BY <1>4, <1>6, <2>1, <2>3, <2>4, <2>5
<1>7. QED
  BY <1>5, <1>6 DEF Loop

(* The rest of the invariant is about variables that Loop leaves alone. *)
LEMMA LoopKeeps ==
  ASSUME IInv, NEW t \in Threads, NEW n, Loop(t, n), n = Cardinality(Servicing \cup {t})
  PROVE  IInv'
<1>1. UNCHANGED <<now, interrupted, taskQueue, scheduled, runs, current, stopRequested, stopWhenEmpty>>
  BY DEF Loop, clock, stops
<1>2. TypeOK'
  BY <1>1, LoopStep DEF IInv, TypeOK, Places
<1>3. RunOnce'
  BY <1>1 DEF IInv, RunOnce
<1>4. QED
  BY <1>2, <1>3, LoopStep DEF IInv

(* A step that neither takes nor gives a service thread. *)
LEMMA SameServicing ==
  ASSUME IInv, UNCHANGED nThreadsServicingQueue, pc' \in [Threads -> Places],
         \A u \in Threads : pc[u] \in {"out", "gone"} <=> pc'[u] \in {"out", "gone"}
  PROVE  ThreadsCounted'
<1>1. Servicing' = Servicing
  BY DEF Servicing
<1>2. QED
  BY <1>1 DEF IInv, ThreadsCounted

-----------------------------------------------------------------------------
(* The steps *)

LEMMA LoopersKeep ==
  ASSUME IInv, NEW t \in Threads, Enter(t) \/ Resume(t) \/ Missed(t) \/ Return(t)
  PROVE  IInv'
<1>1. pc \in [Threads -> Places] /\ IsFiniteSet(Servicing) /\ nThreadsServicingQueue = Cardinality(Servicing)
  BY ServicingFinite DEF IInv, TypeOK, ThreadsCounted, Places
<1>2. CASE Enter(t)
  <2>1. t \notin Servicing
    BY <1>2 DEF Enter, Servicing
  <2>2. nThreadsServicingQueue + 1 = Cardinality(Servicing \cup {t})
    BY <1>1, <2>1, FS_AddElement
  <2>3. QED
    BY <1>2, <2>2, LoopKeeps DEF Enter
<1>3. CASE Resume(t) \/ Missed(t) \/ Return(t)
  <2>1. t \in Servicing /\ Loop(t, nThreadsServicingQueue)
    BY <1>3 DEF Resume, Missed, Return, Servicing
  <2>2. Servicing \cup {t} = Servicing
    BY <2>1
  <2>3. QED
    BY <1>1, <2>1, <2>2, LoopKeeps
<1>4. QED
  BY <1>2, <1>3

LEMMA WaitsEndKeep ==
  ASSUME IInv, NEW t \in Threads, Spurious(t) \/ Expire(t)
  PROVE  IInv'
<1>1. /\ UNCHANGED <<now, interrupted, taskQueue, scheduled, runs, deadline, current, overtaken,
                     nThreadsServicingQueue, stopRequested, stopWhenEmpty>>
      /\ pc[t] \in {"wait", "timed"}
      /\ \/ pc' = [pc EXCEPT ![t] = "woken"]
         \/ pc' = [pc EXCEPT ![t] = "expired"] /\ pc[t] = "timed" /\ now >= deadline[t]
  BY DEF Spurious, Expire, clock, stops
<1>2. pc \in [Threads -> Places] /\ now \in Times /\ deadline \in [Threads -> Times]
  BY DEF IInv, TypeOK, Places
<1>3. /\ pc' \in [Threads -> Places]
      /\ pc'[t] \in {"woken", "expired"}
      /\ \A u \in Threads \ {t} : pc'[u] = pc[u]
  BY <1>1, <1>2 DEF Places
<1>4. TypeOK'
  BY <1>1, <1>3 DEF IInv, TypeOK, Places
<1>5. ThreadsCounted'
  BY <1>1, <1>3, SameServicing
<1>6. RunOnce'
  BY <1>1 DEF IInv, RunOnce
<1>7. Kept'
  <2>1. pc'[t] = "expired" => pc[t] = "timed" /\ deadline[t] <= now
    BY <1>1, <1>2, SchedulerAssumption DEF Times
  <2>2. QED
    BY <1>1, <1>3, <2>1 DEF IInv, Kept
<1>8. QED
  BY <1>4, <1>5, <1>6, <1>7 DEF IInv

(* One entry leaves the queue and one run is counted. *)
LEMMA TakeStep ==
  ASSUME IInv, NEW t \in Threads, Take(t)
  PROVE  IInv'
<1>1. PICK e \in First : /\ taskQueue' = taskQueue \ {e}
                         /\ current' = [current EXCEPT ![t] = e[2]]
                         /\ runs' = [runs EXCEPT ![e[2]] = @ + 1]
  BY DEF Take
<1>2. /\ UNCHANGED <<now, interrupted, scheduled, deadline, nThreadsServicingQueue,
                     stopRequested, stopWhenEmpty>>
      /\ pc[t] = "expired" /\ pc' = [pc EXCEPT ![t] = "run"]
  BY DEF Take, clock, stops
<1>3. e \in taskQueue /\ e \in Times \X Tasks /\ e[1] \in Times /\ e[2] \in Tasks /\ e = <<e[1], e[2]>>
  BY DEF First, IInv, TypeOK
<1>4. /\ pc' \in [Threads -> Places] /\ pc'[t] = "run"
      /\ \A u \in Threads \ {t} : pc'[u] = pc[u]
  BY <1>2 DEF IInv, TypeOK, Places
<1>5. TypeOK'
  <2>1. overtaken' \subseteq Threads
    BY DEF IInv, TypeOK, Take, Awaiting
  <2>2. QED
    BY <1>1, <1>2, <1>3, <1>4, <2>1 DEF IInv, TypeOK, Places
<1>6. ThreadsCounted'
  BY <1>2, <1>4, SameServicing
<1>7. RunOnce'
  <2> SUFFICES ASSUME NEW k \in Tasks \ Repeating
               PROVE  runs'[k] + Cardinality({time \in Times : <<time, k>> \in taskQueue'})
                        = IF k \in scheduled' THEN 1 ELSE 0
    BY DEF RunOnce
  <2> DEFINE at == {time \in Times : <<time, k>> \in taskQueue}
             at1 == {time \in Times : <<time, k>> \in taskQueue'}
  <2>1. runs[k] \in Nat /\ runs[k] + Cardinality(at) = IF k \in scheduled THEN 1 ELSE 0
    BY DEF IInv, RunOnce, TypeOK
  <2>2. IsFiniteSet(at) /\ Cardinality(at) \in Nat
    BY TimesFinite
  <2>3. CASE k = e[2]
    <3>1. at1 = at \ {e[1]} /\ e[1] \in at
      BY <1>1, <1>3, <2>3
    <3>2. Cardinality(at1) = Cardinality(at) - 1
      <4> HIDE DEF at, at1
      <4> QED
        BY <2>2, <3>1, FS_RemoveElement
    <3>3. runs'[k] = runs[k] + 1
      BY <1>1, <1>3, <2>3 DEF IInv, TypeOK
    <3>4. QED
      BY <1>2, <2>1, <2>2, <3>2, <3>3
  <2>4. CASE k # e[2]
    <3>1. at1 = at
      BY <1>1, <1>3, <2>4
    <3>2. runs'[k] = runs[k]
      BY <1>1, <1>3, <2>4 DEF IInv, TypeOK
    <3>3. QED
      BY <1>2, <2>1, <3>1, <3>2
  <2>5. QED
    BY <2>3, <2>4
<1>8. Kept'
  <2>1. \A u \in Threads : pc'[u] \in {"timed", "expired"} => u \in overtaken'
    BY <1>2, <1>4 DEF Take, Awaiting
  <2>2. QED
    BY <1>2, <1>4, <2>1 DEF IInv, Kept
<1>9. QED
  BY <1>5, <1>6, <1>7, <1>8 DEF IInv

LEMMA RepeatKeeps ==
  ASSUME IInv, NEW t \in Threads, Repeat(t)
  PROVE  IInv'
<1>1. UNCHANGED <<now, interrupted, scheduled, runs, deadline, current, overtaken, nThreadsServicingQueue,
                  stopRequested, stopWhenEmpty>>
  BY DEF Repeat, clock, stops
<1>2. /\ pc \in [Threads -> Places] /\ pc[t] = "run" /\ current[t] \in Repeating
      /\ current[t] \in Tasks /\ now \in Times
  BY DEF Repeat, IInv, TypeOK, Places
<1>3. [pc EXCEPT ![t] = "woken"] \in [Threads -> Places]
  BY <1>2 DEF Places
<1>4. Notified([pc EXCEPT ![t] = "woken"])
  BY <1>3, NotifyOne DEF Repeat
<1>5. /\ pc' \in [Threads -> Places] /\ pc'[t] = "woken"
      /\ \A u \in Threads \ {t} : pc'[u] = pc[u] \/ (pc[u] \in {"wait", "timed"} /\ pc'[u] = "woken")
  BY <1>2, <1>4 DEF Notified
<1>6. /\ taskQueue \subseteq taskQueue' /\ taskQueue' \subseteq Times \X Tasks
      /\ \A k \in Tasks \ Repeating, time \in Times : <<time, k>> \in taskQueue' => <<time, k>> \in taskQueue
  <2>1. taskQueue' = taskQueue \cup {e \in {<<now + Delta, current[t]>>} : now + Delta <= MaxTime}
    BY DEF Repeat
  <2>2. now + Delta <= MaxTime => now + Delta \in Times
    BY <1>2, SchedulerAssumption DEF Times
  <2>3. QED
    BY <1>2, <2>1, <2>2 DEF IInv, TypeOK
<1>7. TypeOK'
  BY <1>1, <1>5, <1>6 DEF IInv, TypeOK, Places
<1>8. ThreadsCounted'
  BY <1>1, <1>2, <1>5, SameServicing
<1>9. RunOnce'
  <2> SUFFICES ASSUME NEW k \in Tasks \ Repeating
               PROVE  runs'[k] + Cardinality({time \in Times : <<time, k>> \in taskQueue'})
                        = IF k \in scheduled' THEN 1 ELSE 0
    BY DEF RunOnce
  <2>1. {time \in Times : <<time, k>> \in taskQueue'} = {time \in Times : <<time, k>> \in taskQueue}
    BY <1>6
  <2>2. QED
    BY <1>1, <2>1 DEF IInv, RunOnce
<1>10. Kept'
  BY <1>1, <1>5, <1>6 DEF IInv, Kept
<1>11. QED
  BY <1>7, <1>8, <1>9, <1>10 DEF IInv

LEMMA InterruptedKeeps ==
  ASSUME IInv, NEW t \in Threads, Interrupted(t)
  PROVE  IInv'
<1>1. /\ UNCHANGED <<now, interrupted, taskQueue, scheduled, runs, deadline, current, overtaken,
                     stopRequested, stopWhenEmpty>>
      /\ pc[t] \notin {"out", "gone"} /\ pc' = [pc EXCEPT ![t] = "gone"]
      /\ nThreadsServicingQueue' = nThreadsServicingQueue - 1
  BY DEF Interrupted, clock, stops
<1>2. /\ pc' \in [Threads -> Places] /\ pc'[t] = "gone"
      /\ \A u \in Threads \ {t} : pc'[u] = pc[u]
  BY <1>1 DEF IInv, TypeOK, Places
<1>3. Servicing' = Servicing \ {t} /\ t \in Servicing
  BY <1>1, <1>2 DEF Servicing
<1>4. Cardinality(Servicing') = Cardinality(Servicing) - 1 /\ Cardinality(Servicing') \in Nat
  BY <1>3, ServicingFinite, FS_RemoveElement, FS_CardinalityType
<1>5. ThreadsCounted' /\ nThreadsServicingQueue' \in Nat
  BY <1>1, <1>4 DEF IInv, ThreadsCounted
<1>6. TypeOK'
  BY <1>1, <1>2, <1>5 DEF IInv, TypeOK, Places
<1>7. RunOnce'
  BY <1>1 DEF IInv, RunOnce
<1>8. Kept'
  BY <1>1, <1>2 DEF IInv, Kept
<1>9. QED
  BY <1>5, <1>6, <1>7, <1>8 DEF IInv

(* A task is scheduled once: until then it has not run and is not queued. *)
LEMMA ScheduleKeeps ==
  ASSUME IInv, NEW k \in Tasks, NEW time \in Times, schedule(k, time)
  PROVE  IInv'
<1>1. /\ UNCHANGED <<now, interrupted, runs, deadline, current, overtaken, nThreadsServicingQueue,
                     stopRequested, stopWhenEmpty>>
      /\ k \notin scheduled /\ scheduled' = scheduled \cup {k}
      /\ taskQueue' = taskQueue \cup {<<time, k>>}
  BY DEF schedule, clock, stops
<1>2. pc \in [Threads -> Places]
  BY DEF IInv, TypeOK, Places
<1>3. Notified(pc)
  BY <1>2, NotifyOne DEF schedule
<1>4. TypeOK'
  BY <1>1, <1>3 DEF IInv, TypeOK, Notified, Places
<1>5. ThreadsCounted'
  BY <1>1, <1>3, SameServicing DEF Notified
<1>6. RunOnce'
  <2> SUFFICES ASSUME NEW l \in Tasks \ Repeating
               PROVE  runs'[l] + Cardinality({s \in Times : <<s, l>> \in taskQueue'})
                        = IF l \in scheduled' THEN 1 ELSE 0
    BY DEF RunOnce
  <2> DEFINE at == {s \in Times : <<s, l>> \in taskQueue}
             at1 == {s \in Times : <<s, l>> \in taskQueue'}
  <2>1. runs[l] \in Nat /\ runs[l] + Cardinality(at) = IF l \in scheduled THEN 1 ELSE 0
    BY DEF IInv, RunOnce, TypeOK
  <2>2. IsFiniteSet(at) /\ Cardinality(at) \in Nat
    BY TimesFinite
  <2>3. CASE l = k
    <3>1. runs[l] = 0 /\ Cardinality(at) = 0
      BY <1>1, <2>1, <2>2, <2>3
    <3>2. at = {}
      BY <2>2, <3>1, FS_EmptySet
    <3>3. at1 = {time}
      BY <1>1, <2>3, <3>2
    <3>4. Cardinality(at1) = 1
      BY <3>3, FS_Singleton
    <3>5. QED
      BY <1>1, <2>3, <3>1, <3>4
  <2>4. CASE l # k
    <3>1. at1 = at
      BY <1>1, <2>4
    <3>2. QED
      BY <1>1, <2>1, <2>4, <3>1
  <2>5. QED
    BY <2>3, <2>4
<1>7. Kept'
  BY <1>1, <1>3 DEF IInv, Kept, Notified
<1>8. QED
  BY <1>4, <1>5, <1>6, <1>7 DEF IInv

LEMMA OthersKeep ==
  ASSUME IInv, (\E drain \in BOOLEAN : stop(drain)) \/ Interrupt \/ Tick
  PROVE  IInv'
<1>1. UNCHANGED <<taskQueue, scheduled, runs, deadline, current, overtaken, nThreadsServicingQueue>>
  BY DEF stop, Interrupt, Tick
<1>2. pc \in [Threads -> Places] /\ now \in Times
  BY DEF IInv, TypeOK, Places
<1>3. Notified(pc)
  BY <1>2, NotifyAll DEF stop, Interrupt, Tick, Notified
<1>4. now' \in Times /\ now <= now'
  BY <1>2, SchedulerAssumption DEF stop, Interrupt, Tick, clock, Times
<1>5. interrupted' \in BOOLEAN /\ stopRequested' \in BOOLEAN /\ stopWhenEmpty' \in BOOLEAN
  BY Zenon DEF stop, Interrupt, Tick, clock, stops, IInv, TypeOK
<1>6. TypeOK'
  BY <1>1, <1>3, <1>4, <1>5 DEF IInv, TypeOK, Notified, Places
<1>7. ThreadsCounted'
  BY <1>1, <1>3, SameServicing DEF Notified
<1>8. RunOnce'
  BY <1>1 DEF IInv, RunOnce
<1>9. Kept'
  <2>1. \A t \in Threads : deadline[t] <= now => deadline'[t] <= now'
    BY <1>1, <1>2, <1>4, SchedulerAssumption DEF IInv, TypeOK, Times
  <2>2. QED
    BY <1>1, <1>3, <2>1 DEF IInv, Kept, Notified
<1>10. QED
  BY <1>6, <1>7, <1>8, <1>9 DEF IInv

LEMMA Keeps == IInv /\ [Next]_vars => IInv'
<1> SUFFICES ASSUME IInv, [Next]_vars PROVE IInv'
  OBVIOUS
<1>1. ASSUME NEW t \in Threads, Enter(t) \/ Service(t) \/ Spurious(t) PROVE IInv'
  BY <1>1, LoopersKeep, WaitsEndKeep, TakeStep, RepeatKeeps, InterruptedKeeps DEF Service
<1>2. ASSUME NEW k \in Tasks, NEW time \in Times, schedule(k, time) PROVE IInv'
  BY <1>2, ScheduleKeeps
<1>3. CASE (\E drain \in BOOLEAN : stop(drain)) \/ Interrupt \/ Tick
  BY <1>3, OthersKeep
<1>4. CASE UNCHANGED vars
  BY <1>4 DEF vars, clock, stops, IInv, TypeOK, ThreadsCounted, Servicing, RunOnce, Kept
<1>5. QED
  BY <1>1, <1>2, <1>3, <1>4 DEF Next

LEMMA InitHolds == Init => IInv
<1> SUFFICES ASSUME Init PROVE IInv
  OBVIOUS
<1>1. (CHOOSE k \in Tasks : TRUE) \in Tasks
  BY SchedulerAssumption
<1>2. TypeOK
  <2>1. now \in Times /\ deadline \in [Threads -> Times] /\ nThreadsServicingQueue \in Nat
    BY SchedulerAssumption DEF Init, Times
  <2>2. interrupted \in BOOLEAN /\ stopRequested \in BOOLEAN /\ stopWhenEmpty \in BOOLEAN
    BY Zenon DEF Init
  <2>3. runs \in [Tasks -> Nat] /\ current \in [Threads -> Tasks] /\ pc \in [Threads -> Places]
    BY <1>1 DEF Init, Places
  <2>4. QED
    BY <2>1, <2>2, <2>3 DEF Init, TypeOK, Places
<1>3. Servicing = {}
  BY DEF Init, Servicing
<1>4. ThreadsCounted
  BY <1>3, FS_EmptySet DEF Init, ThreadsCounted
<1>5. RunOnce
  <2> SUFFICES ASSUME NEW k \in Tasks \ Repeating
               PROVE  runs[k] + Cardinality({time \in Times : <<time, k>> \in taskQueue})
                        = IF k \in scheduled THEN 1 ELSE 0
    BY DEF RunOnce
  <2>1. runs[k] = 0 /\ k \notin scheduled
    BY DEF Init
  <2>2. {time \in Times : <<time, k>> \in taskQueue} = {}
    BY DEF Init
  <2>3. Cardinality({time \in Times : <<time, k>> \in taskQueue}) = 0
    BY <2>2, FS_EmptySet
  <2> HIDE DEF Times
  <2>4. QED
    BY <2>1, <2>3
<1>6. Kept
  BY DEF Init, Kept
<1>7. QED
  BY <1>2, <1>4, <1>5, <1>6 DEF IInv

THEOREM Inductive == Spec => []IInv
BY InitHolds, Keeps, PTL DEF Spec

(* However many threads wait for the same task, wake up without cause, are   *)
(* interrupted or told to stop: the destructor's count of threads is right,  *)
(* and no task is lost or started twice.                                     *)
THEOREM QueueTheorem == Spec => []QueueConsistent
<1>1. IInv => QueueConsistent
  BY DEF IInv, QueueConsistent
<1>2. QED
  BY <1>1, Inductive, PTL

(* A thread starts a task that is not due only if another thread started one *)
(* while it waited, whatever else happened meanwhile: tasks that were added,  *)
(* wakeups, stops. So a thread that services the queue alone never does,      *)
(* although the task it takes need not be the one it waited for.              *)
THEOREM AtOrAfterTheorem == Spec => AtOrAfter
<1>1. ASSUME IInv, [Next]_vars, NEW t \in Threads, pc[t] = "expired", pc'[t] = "run",
             t \notin overtaken, NEW e \in taskQueue \ taskQueue'
      PROVE  e[1] <= now
  <2>1. PICK u \in Threads : Take(u)
    BY <1>1 DEF Next, Service, Enter, Resume, Missed, Return, Loop, Expire, Spurious, Repeat,
                Interrupted, schedule, stop, Interrupt, Tick, vars
  <2>2. PICK f \in First : taskQueue' = taskQueue \ {f}
    BY <2>1 DEF Take
  <2>3. e = f
    BY <2>2
  <2>4. PICK g \in taskQueue : g[1] <= deadline[t]
    BY <1>1 DEF IInv, Kept
  <2>5. deadline[t] <= now
    BY <1>1 DEF IInv, Kept
  <2>6. f[1] <= g[1] /\ f[1] \in Times /\ g[1] \in Times /\ deadline[t] \in Times /\ now \in Times
    <3>1. taskQueue \subseteq Times \X Tasks /\ deadline \in [Threads -> Times] /\ now \in Times
      BY <1>1 DEF IInv, TypeOK
    <3>2. f \in taskQueue /\ f[1] <= g[1]
      BY <2>2, <2>4 DEF First
    <3>3. QED
      BY <2>4, <3>1, <3>2
  <2>7. QED
    BY <2>3, <2>4, <2>5, <2>6, SchedulerAssumption DEF Times
<1>2. IInv /\ [Next]_vars =>
        [\A t \in Threads \ overtaken : pc[t] = "expired" /\ pc'[t] = "run"
            => \A e \in taskQueue \ taskQueue' : e[1] <= now]_vars
  BY <1>1
<1>3. QED
  BY <1>2, Inductive, PTL DEF Spec, AtOrAfter
=============================================================================
