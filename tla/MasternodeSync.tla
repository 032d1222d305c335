--------------------------- MODULE MasternodeSync ---------------------------
(***************************************************************************)
(* CMasternodeSync (masternode-sync.cpp): the node asks its peers for      *)
(* sporks, the masternode list, the payment winners and the budget, one    *)
(* asset after the other, and moves on when enough peers were asked and    *)
(* nothing new has come for a while, or when time is up. The Obfuscation   *)
(* thread calls Process, messages from peers and an RPC change the same    *)
(* object, and none of it is under a lock; here each call is one step. The *)
(* networks other than regtest are modelled. Time is abstract: a moment    *)
(* that the code remembers is recent until Elapse makes it old. The counts *)
(* of "ssc" messages are only shown by an RPC and are left out.            *)
(*                                                                         *)
(* Some definitions have a variant just before them that nothing uses      *)
(* (AddedAlways before Added): the definition with a plausible programming *)
(* error, kept to confirm that the properties notice it.                   *)
(***************************************************************************)
EXTENDS Integers, FiniteSets

CONSTANTS
    Peers,
    Paying,         \* peers that GetMinMasternodePaymentsProto lets through
    Current,        \* and those that ActiveProtocol does
    Items,          \* hashes of masternode broadcasts, winners and budget items
    Kind,           \* Kind[i]: the asset that i belongs to
    THRESHOLD,      \* MASTERNODE_SYNC_THRESHOLD
    MaxResets       \* bound on RPC resets and on times the machine sleeps

Received == {"list", "winners", "budget"}
Requests == {"sporks"} \cup Received
Running == {"initial"} \cup Requests

ASSUME SyncAssumption ==
    /\ Current \subseteq Paying /\ Paying \subseteq Peers
    /\ Kind \in [Items -> Received]
    /\ THRESHOLD \in Nat \ {0}
    /\ MaxResets \in Nat

VARIABLES
    sync,               \* the object masternodeSync (see Reset)
    fulfilled,          \* vecRequestsFulfilled of each peer
    known,              \* items in the maps of the components they belong to
    fBlockchainSynced,
    tipRecent,          \* chainActive.Tip() is less than an hour old
    asleep,             \* IsBlockchainSynced was last called over an hour ago
    enabled,            \* mnodeman.CountEnabled() > 0
    resets

inputs == <<tipRecent, enabled>>
vars == <<sync, fulfilled, known, fBlockchainSynced, asleep, inputs, resets>>

Moments == {"never", "recent", "old"}

TypeOK ==
    /\ sync \in [stage : Running \cup {"failed", "finished"},  \* RequestedMasternodeAssets
                 attempt : 0..(3 * THRESHOLD),                 \* RequestedMasternodeAttempt
                 last : [Received -> Moments],                 \* lastMasternodeList, ...
                 started : Moments,                            \* nAssetSyncStarted
                 failure : Moments,                            \* lastFailure
                 seen : [Items -> 0..THRESHOLD]]               \* mapSeenSyncMNB, ...
    /\ fulfilled \in [Peers -> SUBSET Requests]
    /\ known \in SUBSET Items
    /\ {fBlockchainSynced, tipRecent, asleep, enabled} \subseteq BOOLEAN
    /\ resets \in 0..MaxResets

Reset ==
    [stage |-> "initial", attempt |-> 0, last |-> [a \in Received |-> "never"],
     started |-> "recent", failure |-> "never", seen |-> [i \in Items |-> 0]]

Init ==
    /\ sync = Reset
    /\ fulfilled = [p \in Peers |-> {}]
    /\ known \in SUBSET Items       \* read from the caches on disk
    /\ fBlockchainSynced = FALSE /\ asleep = FALSE
    /\ tipRecent \in BOOLEAN /\ enabled \in BOOLEAN
    /\ resets = 0

-----------------------------------------------------------------------------
(* Steps of the object, as functions of its state.                         *)

NextStage == [initial |-> "sporks", failed |-> "sporks", sporks |-> "list",
              list |-> "winners", winners |-> "budget", budget |-> "finished",
              finished |-> "finished"]

GetNextAsset(s) ==
    [s EXCEPT !.stage = NextStage[@], !.attempt = 0, !.started = "recent"]

Fail(s) ==
    [s EXCEPT !.stage = "failed", !.attempt = 0, !.failure = "recent"]

Asked(s) == [s EXCEPT !.attempt = @ + 1]

(* AddedMasternodeList, AddedMasternodeWinner and AddedBudgetItem of an     *)
(* item that is in its component's map: callers have put it there.          *)
AddedAlways(s, i) == [s EXCEPT !.last[Kind[i]] = "recent",
                               !.seen[i] = IF @ < THRESHOLD THEN @ + 1 ELSE @]
Added(s, i) ==
    IF s.seen[i] < THRESHOLD
    THEN [s EXCEPT !.last[Kind[i]] = "recent", !.seen[i] = @ + 1]
    ELSE s

(* Nothing new has come since a while, and enough peers were asked. *)
Quiet(s) == s.last[s.stage] = "old" /\ s.attempt >= THRESHOLD

(* Nothing has come at all, and many peers were asked or time is up. *)
TimedOut(s) ==
    /\ s.last[s.stage] = "never"
    /\ s.attempt >= 3 * THRESHOLD \/ s.started = "old"

(* The tests that come before a peer's own state: the time limit is one of  *)
(* them for the budget only.                                                *)
Settled(s) == Quiet(s) \/ (s.stage = "budget" /\ TimedOut(s))

-----------------------------------------------------------------------------
(* The calls.                                                               *)

(* static fBlockchainSynced, and what a call returns: the same value. *)
ChainSynced == (fBlockchainSynced /\ ~asleep) \/ tipRecent

(* Resync when all masternodes are lost, try again a minute after a         *)
(* failure.                                                                 *)
RetryFailed(s) == IF s.stage = "failed" /\ s.failure = "old" THEN Reset ELSE s
Retry(s) ==
    IF \/ s.stage = "finished" /\ ~enabled
       \/ s.stage = "failed" /\ s.failure = "old"
    THEN Reset ELSE s

(* One peer of the loop over vNodes; sync is s before it, and the requests  *)
(* fulfilled are f. Peers that have answered already are passed over, but   *)
(* for the tests made before that.                                          *)
AskSporks(s, f, p) ==
    /\ s.stage = "sporks" /\ "sporks" \notin f[p]
    /\ fulfilled' = [f EXCEPT ![p] = @ \cup {"sporks"}]
    /\ sync' = Asked(IF s.attempt >= 2 THEN GetNextAsset(s) ELSE s)

(* The peers that a stage asks, by their protocol version. *)
Asking(stage) == IF stage = "budget" THEN Current ELSE Paying

MoveOn(s, f, p) ==
    /\ s.stage \in Received /\ p \in Asking(s.stage)
    /\ Settled(s)
    /\ sync' = GetNextAsset(s)
    /\ fulfilled' = f

(* A peer that has not been asked for this asset: give up, or ask it. The   *)
(* spork for payment enforcement (SPORK_8), which the network may switch at *)
(* any time, decides whether to give up is to fail or to do without.        *)
Requested(s) ==
    CASE TimedOut(s) -> {Fail(s), GetNextAsset(s)}
      [] ~TimedOut(s) /\ s.attempt >= 3 * THRESHOLD -> {s}
      [] OTHER -> {Asked(s)}

Ask(s, f, p) ==
    /\ s.stage \in Received /\ p \in Asking(s.stage)
    /\ ~Settled(s)
    /\ s.stage \notin f[p]
    /\ fulfilled' = [f EXCEPT ![p] = @ \cup {s.stage}]
    /\ sync' \in Requested(s)

Passed(s, f, p) ==
    \/ s.stage = "sporks" /\ "sporks" \in f[p]
    \/ s.stage \in Received /\ p \notin Asking(s.stage)
    \/ s.stage \in Received /\ ~Settled(s) /\ s.stage \in f[p]

(* The order of vNodes is not modelled: any peer that is not passed over.   *)
Loop(s, f) ==
    \/ \E p \in Peers : AskSporks(s, f, p) \/ MoveOn(s, f, p) \/ Ask(s, f, p)
    \/ /\ \A p \in Peers : Passed(s, f, p)
       /\ sync' = s /\ fulfilled' = f

(* Either TRY_LOCK of cs_vNodes may fail: the one of ClearFulfilledRequest  *)
(* (cleared) and the one before the loop. A failed TRY_LOCK of cs_main in   *)
(* IsBlockchainSynced is the same as a tip that is not recent.              *)
GoAheadAlways(s) == TRUE
GoAhead(s) == ChainSynced \/ s.stage \notin Received

Process(cleared, locked) ==
    LET s1 == Retry(sync)
        first == s1.stage = "initial"
        s2 == IF first THEN GetNextAsset(s1) ELSE s1
        f == IF first /\ cleared THEN [p \in Peers |-> {}] ELSE fulfilled
        s3 == IF asleep THEN Reset ELSE s2
    IN  /\ s1.stage \in Running
        /\ fBlockchainSynced' = ChainSynced
        /\ asleep' = FALSE
        /\ IF locked /\ GoAhead(s3) /\ s3.stage # "initial"
           THEN Loop(s3, f)
           ELSE sync' = s3 /\ fulfilled' = f
        /\ UNCHANGED <<known, inputs, resets>>

(* IsBlockchainSynced from the thread's loop or from a message handler. *)
IsBlockchainSynced ==
    /\ fBlockchainSynced' = ChainSynced
    /\ asleep' = FALSE
    /\ sync' = IF asleep THEN Reset ELSE sync
    /\ UNCHANGED <<fulfilled, known, inputs, resets>>

(* "mnb", "mnw", "mvote", "mprop", "fbs", "fbvote": a new item is recorded   *)
(* as seen, and then accepted or refused.                                   *)
Accept(i) ==
    /\ ~asleep /\ ChainSynced /\ i \notin known
    /\ known' = known \cup {i}
    /\ sync' \in {sync, Added(sync, i)}
    /\ fBlockchainSynced' = TRUE
    /\ UNCHANGED <<fulfilled, asleep, inputs, resets>>

(* AlreadyHave: a peer announces an item the node has. *)
Announced(i) ==
    /\ i \in known
    /\ sync' = Added(sync, i)
    /\ UNCHANGED <<fulfilled, known, fBlockchainSynced, asleep, inputs, resets>>

(* A masternode is removed, a broadcast is to be checked again later, or a  *)
(* vote for an old block is dropped: the count goes with the item.          *)
Forget(i) ==
    /\ i \in known /\ Kind[i] # "budget" /\ resets < MaxResets
    /\ known' = known \ {i}
    /\ sync' = [sync EXCEPT !.seen[i] = 0]
    /\ resets' = resets + 1
    /\ UNCHANGED <<fulfilled, fBlockchainSynced, asleep, inputs>>

(* An expired broadcast is erased, and then the count of the one that       *)
(* follows it in the map: the iterator has moved on. After the last one it  *)
(* reads what is not there, and any count may go, or none. The order of the *)
(* hashes is not modelled, so either may happen to every broadcast.         *)
Expire(i) ==
    /\ i \in known /\ Kind[i] = "list" /\ resets < MaxResets
    /\ known' = known \ {i}
    /\ \/ sync' = sync
       \/ \E j \in Items : /\ Kind[j] = "list"
                          /\ sync' = [sync EXCEPT !.seen[j] = 0]
    /\ resets' = resets + 1
    /\ UNCHANGED <<fulfilled, fBlockchainSynced, asleep, inputs>>

(* mnsync reset *)
RpcReset ==
    /\ resets < MaxResets
    /\ sync' = Reset
    /\ resets' = resets + 1
    /\ UNCHANGED <<fulfilled, known, fBlockchainSynced, asleep, inputs>>

-----------------------------------------------------------------------------
(* Time, peers and what other components decide.                            *)

Older(m) == IF m = "recent" THEN "old" ELSE m

Elapse(a) ==
    /\ \/ a \in Received /\ sync' = [sync EXCEPT !.last[a] = Older(@)]
       \/ a = "started" /\ sync' = [sync EXCEPT !.started = Older(@)]
       \/ a = "failure" /\ sync' = [sync EXCEPT !.failure = Older(@)]
    /\ UNCHANGED <<fulfilled, known, fBlockchainSynced, asleep, inputs, resets>>

(* The machine sleeps for more than an hour. *)
Sleep ==
    /\ ~asleep /\ resets < MaxResets
    /\ asleep' = TRUE
    /\ sync' = [sync EXCEPT !.last = [a \in Received |-> Older(@[a])],
                            !.started = Older(@), !.failure = Older(@)]
    /\ resets' = resets + 1
    /\ UNCHANGED <<fulfilled, known, fBlockchainSynced, inputs>>

(* A peer leaves and another takes its place: a new CNode. *)
Replace(p) ==
    /\ fulfilled' = [fulfilled EXCEPT ![p] = {}]
    /\ UNCHANGED <<sync, known, fBlockchainSynced, asleep, inputs, resets>>

Inputs ==
    /\ \/ tipRecent' = ~tipRecent /\ UNCHANGED enabled
       \/ enabled' = ~enabled /\ UNCHANGED tipRecent
    /\ UNCHANGED <<sync, fulfilled, known, fBlockchainSynced, asleep, resets>>

Timers == Received \cup {"started", "failure"}

Next ==
    \/ \E cleared, locked \in BOOLEAN : Process(cleared, locked)
    \/ IsBlockchainSynced
    \/ \E i \in Items : Accept(i) \/ Announced(i) \/ Forget(i) \/ Expire(i)
    \/ RpcReset \/ Sleep \/ Inputs
    \/ \E a \in Timers : Elapse(a)
    \/ \E p \in Peers : Replace(p)

Spec == Init /\ [][Next]_vars

(* The thread runs on and finds the lock free in the end, time passes, and  *)
(* no connection lasts for ever.                                            *)
FairSpec ==
    /\ Spec
    /\ WF_vars(\E cleared \in BOOLEAN : Process(cleared, TRUE))
    /\ WF_vars(IsBlockchainSynced)
    /\ \A a \in Timers : WF_vars(Elapse(a))
    /\ \A p \in Peers : WF_vars(Replace(p))

-----------------------------------------------------------------------------
(* Properties.                                                              *)

(* The node takes itself for synchronised, or gives up, only once the block *)
(* chain is: staking and the payee checks of blocks go by it.               *)
SyncedAfterChain ==
    sync.stage \in {"winners", "budget", "failed", "finished"} => fBlockchainSynced

(* Types, among them that the attempts stay within their limit, and that    *)
(* synchronisation does not run ahead of the chain.                         *)
SyncConsistent == TypeOK /\ SyncedAfterChain

(* With the chain synchronised a synchronisation ends, whatever the peers   *)
(* announce again and again, however few they are and whichever locks were  *)
(* busy.                                                                    *)
SyncEnds ==
    (fBlockchainSynced /\ sync.stage \in Running)
        ~> (sync.stage \notin Running \/ ~fBlockchainSynced)

(* "Resync if we lose all masternodes from sleep/wake or failure to sync    *)
(* originally".                                                             *)
Lost == sync.stage = "failed" \/ (sync.stage = "finished" /\ ~enabled)
SyncAgain == Lost ~> ~Lost
=============================================================================
