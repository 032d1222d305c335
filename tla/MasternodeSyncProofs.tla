------------------------ MODULE MasternodeSyncProofs ------------------------
(***************************************************************************)
(* SyncConsistent is an invariant of MasternodeSync for any set of peers   *)
(* and items, any threshold and any number of resets. It is inductive: the *)
(* stages after the masternode list are reached only through the loop of   *)
(* Process, which runs only when the chain is synchronised (GoAhead), and  *)
(* every call that may clear fBlockchainSynced also resets the object.     *)
(***************************************************************************)
EXTENDS MasternodeSync, TLAPS

Stages == Running \cup {"failed", "finished"}

SyncObject == [stage : Stages, attempt : 0..(3 * THRESHOLD), last : [Received -> Moments],
               started : Moments, failure : Moments, seen : [Items -> 0..THRESHOLD]]

(* The stages that SyncedAfterChain is about. *)
Beyond(s) == s.stage \in {"winners", "budget", "failed", "finished"}

(* The object's own steps keep its type. *)
LEMMA ResetType == Reset \in SyncObject /\ ~Beyond(Reset)
BY SyncAssumption DEF Reset, SyncObject, Stages, Running, Requests, Received, Moments, Beyond

LEMMA ZeroAttempts == 0 \in 0..(3 * THRESHOLD)
BY SyncAssumption

LEMMA GetNextAssetType ==
  ASSUME NEW s \in SyncObject
  PROVE  /\ GetNextAsset(s) \in SyncObject
         /\ GetNextAsset(s).attempt = 0
         /\ GetNextAsset(s).stage = NextStage[s.stage]
         /\ s.stage \in {"initial", "failed", "sporks"} => ~Beyond(GetNextAsset(s))
<1>1. NextStage[s.stage] \in Stages
  BY DEF NextStage, SyncObject, Stages, Running, Requests, Received
<1>2. /\ GetNextAsset(s) \in SyncObject
      /\ GetNextAsset(s).attempt = 0
      /\ GetNextAsset(s).stage = NextStage[s.stage]
  BY <1>1, ZeroAttempts DEF GetNextAsset, SyncObject, Moments
<1>3. s.stage \in {"initial", "failed", "sporks"} => NextStage[s.stage] \in {"sporks", "list"}
  BY DEF NextStage
<1>4. QED
  BY <1>2, <1>3 DEF Beyond

LEMMA AskedType ==
  ASSUME NEW s \in SyncObject, s.attempt < 3 * THRESHOLD
  PROVE  Asked(s) \in SyncObject /\ Asked(s).stage = s.stage
BY SyncAssumption DEF Asked, SyncObject

LEMMA FailType == ASSUME NEW s \in SyncObject PROVE Fail(s) \in SyncObject
BY ZeroAttempts DEF Fail, SyncObject, Stages, Moments

LEMMA AddedType ==
  ASSUME NEW s \in SyncObject, NEW i \in Items
  PROVE  Added(s, i) \in SyncObject /\ Added(s, i).stage = s.stage
<1>1. CASE s.seen[i] < THRESHOLD
  <2>1. s.seen[i] + 1 \in 0..THRESHOLD /\ Kind[i] \in Received
    BY <1>1, SyncAssumption DEF SyncObject
  <2>2. QED
    BY <1>1, <2>1 DEF Added, SyncObject, Moments
<1>2. CASE ~(s.seen[i] < THRESHOLD)
  BY <1>2 DEF Added
<1>3. QED
  BY <1>1, <1>2

LEMMA RequestedType ==
  ASSUME NEW s \in SyncObject
  PROVE  Requested(s) \subseteq SyncObject
<1>1. CASE TimedOut(s)
  BY <1>1, FailType, GetNextAssetType DEF Requested
<1>2. CASE ~TimedOut(s) /\ s.attempt >= 3 * THRESHOLD
  BY <1>2 DEF Requested
<1>3. CASE ~TimedOut(s) /\ ~(s.attempt >= 3 * THRESHOLD)
  <2>1. s.attempt < 3 * THRESHOLD
    BY <1>3, SyncAssumption DEF SyncObject
  <2>2. Requested(s) = {Asked(s)}
    BY <1>3 DEF Requested
  <2>3. QED
    BY <2>1, <2>2, AskedType
<1>4. QED
  BY <1>1, <1>2, <1>3

-----------------------------------------------------------------------------
(* The loop over the peers: it goes beyond the list only from a stage in     *)
(* Received.                                                                 *)
LEMMA LoopStep ==
  ASSUME NEW s \in SyncObject, NEW f \in [Peers -> SUBSET Requests], Loop(s, f)
  PROVE  /\ sync' \in SyncObject
         /\ fulfilled' \in [Peers -> SUBSET Requests]
         /\ s.stage \notin Received /\ ~Beyond(s) => ~Beyond(sync')
<1>1. CASE sync' = s /\ fulfilled' = f
  BY <1>1
<1>2. ASSUME NEW p \in Peers, AskSporks(s, f, p)
      PROVE  /\ sync' \in SyncObject /\ ~Beyond(sync')
             /\ fulfilled' \in [Peers -> SUBSET Requests]
  <2>1. fulfilled' \in [Peers -> SUBSET Requests]
    BY <1>2 DEF AskSporks, Requests
  <2>2. CASE s.attempt >= 2
    BY <1>2, <2>1, <2>2, GetNextAssetType, AskedType, SyncAssumption DEF AskSporks, Beyond
  <2>3. CASE ~(s.attempt >= 2)
    <3>1. s.attempt < 3 * THRESHOLD
      BY <2>3, SyncAssumption DEF SyncObject
    <3>2. QED
      BY <1>2, <2>1, <2>3, <3>1, AskedType DEF AskSporks, Beyond
  <2>4. QED
    BY <2>2, <2>3
<1>3. ASSUME NEW p \in Peers, MoveOn(s, f, p)
      PROVE  /\ sync' \in SyncObject /\ s.stage \in Received
             /\ fulfilled' \in [Peers -> SUBSET Requests]
  BY <1>3, GetNextAssetType DEF MoveOn
<1>4. ASSUME NEW p \in Peers, Ask(s, f, p)
      PROVE  /\ sync' \in SyncObject /\ s.stage \in Received
             /\ fulfilled' \in [Peers -> SUBSET Requests]
  BY <1>4, RequestedType DEF Ask, Requests
<1>5. QED
  BY <1>1, <1>2, <1>3, <1>4 DEF Loop

-----------------------------------------------------------------------------
(* The invariant in parts, so that the object and the flags that are         *)
(* Booleans are handled one at a time.                                       *)
Flags ==
  /\ fBlockchainSynced \in BOOLEAN /\ tipRecent \in BOOLEAN /\ asleep \in BOOLEAN
  /\ enabled \in BOOLEAN

IInv ==
  /\ sync \in SyncObject
  /\ fulfilled \in [Peers -> SUBSET Requests]
  /\ known \in SUBSET Items
  /\ Flags
  /\ resets \in 0..MaxResets
  /\ Beyond(sync) => fBlockchainSynced

LEMMA IInvIsSyncConsistent == IInv <=> SyncConsistent
<1>1. Flags <=> {fBlockchainSynced, tipRecent, asleep, enabled} \subseteq BOOLEAN
  BY Zenon DEF Flags
<1>2. TypeOK <=> /\ sync \in SyncObject
                 /\ fulfilled \in [Peers -> SUBSET Requests]
                 /\ known \in SUBSET Items
                 /\ Flags
                 /\ resets \in 0..MaxResets
  BY <1>1, Zenon DEF TypeOK, SyncObject, Stages
<1>3. QED
  BY <1>2, Zenon DEF IInv, SyncConsistent, SyncedAfterChain, Beyond

LEMMA ProcessStep ==
  ASSUME IInv, NEW cleared \in BOOLEAN, NEW locked \in BOOLEAN, Process(cleared, locked)
  PROVE  IInv'
<1> DEFINE s1 == Retry(sync)
           first == s1.stage = "initial"
           s2 == IF first THEN GetNextAsset(s1) ELSE s1
           f == IF first /\ cleared THEN [p \in Peers |-> {}] ELSE fulfilled
           s3 == IF asleep THEN Reset ELSE s2
<1>1. s1 \in SyncObject /\ (Beyond(s1) => fBlockchainSynced)
  BY ResetType DEF Retry, IInv
<1>2. s2 \in SyncObject /\ (Beyond(s2) => fBlockchainSynced)
  BY <1>1, GetNextAssetType
<1>3. s3 \in SyncObject /\ (Beyond(s3) => fBlockchainSynced /\ ~asleep)
  BY <1>2, ResetType
<1>4. f \in [Peers -> SUBSET Requests]
  BY DEF IInv
<1>5. /\ fBlockchainSynced' = ChainSynced /\ asleep' = FALSE
      /\ IF locked /\ GoAhead(s3) /\ s3.stage # "initial" THEN Loop(s3, f)
         ELSE sync' = s3 /\ fulfilled' = f
      /\ UNCHANGED <<known, inputs, resets>>
  BY Zenon DEF Process
<1>6. ChainSynced \in BOOLEAN /\ (Beyond(s3) => ChainSynced)
  BY <1>3, Zenon DEF ChainSynced, IInv, Flags
<1>7. Flags'
  BY <1>5, <1>6, Zenon DEF Flags, IInv, inputs
<1>8. sync' \in SyncObject /\ fulfilled' \in [Peers -> SUBSET Requests]
  <2>1. CASE locked /\ GoAhead(s3) /\ s3.stage # "initial"
    BY <2>1, <1>3, <1>4, <1>5, LoopStep
  <2>2. CASE ~(locked /\ GoAhead(s3) /\ s3.stage # "initial")
    BY <2>2, <1>3, <1>4, <1>5
  <2>3. QED
    BY <2>1, <2>2
<1>9. Beyond(sync') => fBlockchainSynced'
  <2>1. CASE ChainSynced
    BY <2>1, <1>5
  <2>2. CASE ~ChainSynced /\ locked /\ GoAhead(s3) /\ s3.stage # "initial"
    <3>1. s3.stage \notin Received /\ ~Beyond(s3)
      BY <2>2, <1>6 DEF GoAhead
    <3>2. QED
      BY <2>2, <3>1, <1>3, <1>4, <1>5, LoopStep
  <2>3. CASE ~ChainSynced /\ ~(locked /\ GoAhead(s3) /\ s3.stage # "initial")
    BY <2>3, <1>5, <1>6
  <2>4. QED
    BY <2>1, <2>2, <2>3
<1>10. QED
  BY <1>5, <1>7, <1>8, <1>9 DEF IInv

LEMMA OlderType == \A m \in Moments : Older(m) \in Moments
BY DEF Older, Moments

LEMMA ElapseStep == ASSUME IInv, NEW a \in Timers, Elapse(a) PROVE IInv'
<1>1. sync' \in SyncObject /\ sync'.stage = sync.stage
  <2>1. CASE a \in Received /\ sync' = [sync EXCEPT !.last[a] = Older(@)]
    BY <2>1, OlderType DEF IInv, SyncObject
  <2>2. CASE sync' = [sync EXCEPT !.started = Older(@)]
    BY <2>2, OlderType DEF IInv, SyncObject
  <2>3. CASE sync' = [sync EXCEPT !.failure = Older(@)]
    BY <2>3, OlderType DEF IInv, SyncObject
  <2>4. QED
    BY <2>1, <2>2, <2>3 DEF Elapse
<1>2. Flags' /\ UNCHANGED <<fulfilled, known, fBlockchainSynced, resets>>
  BY Zenon DEF Elapse, IInv, Flags, inputs
<1>3. QED
  BY <1>1, <1>2 DEF IInv, Beyond

LEMMA SleepStep == ASSUME IInv, Sleep PROVE IInv'
<1>1. sync' \in SyncObject /\ sync'.stage = sync.stage
  BY OlderType DEF Sleep, IInv, SyncObject
<1>2. Flags' /\ UNCHANGED <<fulfilled, known, fBlockchainSynced>>
  BY Zenon DEF Sleep, IInv, Flags, inputs
<1>3. resets' \in 0..MaxResets
  BY SyncAssumption DEF Sleep, IInv
<1>4. QED
  BY <1>1, <1>2, <1>3 DEF IInv, Beyond

LEMMA ItemStep ==
  ASSUME IInv, NEW i \in Items, Accept(i) \/ Announced(i) \/ Forget(i) \/ Expire(i)
  PROVE  IInv'
<1>1. sync' \in SyncObject /\ sync'.stage = sync.stage
  <2>1. CASE sync' \in {sync, Added(sync, i)}
    BY <2>1, AddedType DEF IInv
  <2>2. CASE Forget(i)
    BY <2>2, SyncAssumption DEF Forget, IInv, SyncObject
  <2>3. CASE Expire(i)
    <3>1. \A j \in Items : [sync EXCEPT !.seen[j] = 0] \in SyncObject
      BY SyncAssumption DEF IInv, SyncObject
    <3>2. QED
      BY <2>3, <3>1 DEF Expire, IInv, SyncObject
  <2>4. QED
    BY <2>1, <2>2, <2>3 DEF Accept, Announced
<1>2. Flags' /\ (fBlockchainSynced => fBlockchainSynced') /\ UNCHANGED fulfilled
  BY Zenon DEF Accept, Announced, Forget, Expire, IInv, Flags, inputs
<1>3. known' \in SUBSET Items /\ resets' \in 0..MaxResets
  BY SyncAssumption DEF Accept, Announced, Forget, Expire, IInv
<1>4. QED
  BY <1>1, <1>2, <1>3 DEF IInv, Beyond

LEMMA ResetStep == ASSUME IInv, IsBlockchainSynced \/ RpcReset PROVE IInv'
<1>1. CASE IsBlockchainSynced
  <2>1. sync' \in SyncObject /\ (Beyond(sync') => Beyond(sync) /\ ~asleep)
    BY <1>1, ResetType DEF IsBlockchainSynced, IInv
  <2>2. Flags' /\ UNCHANGED <<fulfilled, known, resets>>
    BY <1>1, Zenon DEF IsBlockchainSynced, ChainSynced, IInv, Flags, inputs
  <2>3. fBlockchainSynced /\ ~asleep => fBlockchainSynced'
    BY <1>1, Zenon DEF IsBlockchainSynced, ChainSynced
  <2>4. QED
    BY <2>1, <2>2, <2>3 DEF IInv
<1>2. CASE RpcReset
  <2>1. sync' \in SyncObject /\ ~Beyond(sync')
    BY <1>2, ResetType DEF RpcReset
  <2>2. Flags' /\ UNCHANGED <<fulfilled, known>>
    BY <1>2, Zenon DEF RpcReset, IInv, Flags, inputs
  <2>3. resets' \in 0..MaxResets
    BY <1>2, SyncAssumption DEF RpcReset, IInv
  <2>4. QED
    BY <2>1, <2>2, <2>3 DEF IInv
<1>3. QED
  BY <1>1, <1>2

LEMMA InputStep == ASSUME IInv, Inputs \/ \E p \in Peers : Replace(p) PROVE IInv'
<1>1. CASE Inputs
  <2>1. Flags' /\ UNCHANGED <<sync, fulfilled, known, fBlockchainSynced, resets>>
    BY <1>1, Zenon DEF Inputs, IInv, Flags
  <2>2. QED
    BY <2>1 DEF IInv, Beyond
<1>2. ASSUME NEW p \in Peers, Replace(p) PROVE IInv'
  <2>1. Flags' /\ UNCHANGED <<sync, known, fBlockchainSynced, resets>>
    BY <1>2, Zenon DEF Replace, IInv, Flags, inputs
  <2>2. fulfilled' \in [Peers -> SUBSET Requests]
    BY <1>2 DEF Replace, IInv
  <2>3. QED
    BY <2>1, <2>2 DEF IInv, Beyond
<1>3. QED
  BY <1>1, <1>2

LEMMA SyncInvStep == IInv /\ [Next]_vars => IInv'
<1> SUFFICES ASSUME IInv, [Next]_vars PROVE IInv'
  OBVIOUS
<1>1. ASSUME NEW cleared \in BOOLEAN, NEW locked \in BOOLEAN, Process(cleared, locked) PROVE IInv'
  BY <1>1, ProcessStep
<1>2. ASSUME NEW i \in Items, Accept(i) \/ Announced(i) \/ Forget(i) \/ Expire(i)
      PROVE  IInv'
  BY <1>2, ItemStep
<1>3. CASE IsBlockchainSynced \/ RpcReset
  BY <1>3, ResetStep
<1>4. CASE Sleep
  BY <1>4, SleepStep
<1>5. ASSUME NEW a \in Timers, Elapse(a) PROVE IInv'
  BY <1>5, ElapseStep
<1>6. CASE Inputs \/ \E p \in Peers : Replace(p)
  BY <1>6, InputStep
<1>7. CASE UNCHANGED vars
  BY <1>7 DEF vars, inputs, IInv, Flags, Beyond
<1>8. QED
  BY <1>1, <1>2, <1>3, <1>4, <1>5, <1>6, <1>7, Zenon DEF Next

(* The node takes itself for synchronised, or gives up, only while the block *)
(* chain is synchronised, and no counter of the object leaves its range,     *)
(* for every number of peers, every threshold and every order of calls.      *)
THEOREM SyncConsistentTheorem == Spec => []SyncConsistent
<1>1. Init => IInv
  <2> SUFFICES ASSUME Init PROVE IInv
    OBVIOUS
  <2>1. sync \in SyncObject /\ ~Beyond(sync)
    BY ResetType DEF Init
  <2>2. Flags
    BY Zenon DEF Init, Flags
  <2>3. QED
    BY <2>1, <2>2, SyncAssumption DEF Init, IInv
<1>2. IInv => SyncConsistent
  BY IInvIsSyncConsistent
<1>3. QED
  BY <1>1, <1>2, SyncInvStep, PTL DEF Spec
=============================================================================
