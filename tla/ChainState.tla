------------------------------ MODULE ChainState ------------------------------
(***************************************************************************)
(* The block index, the active chain and their copy on disk                *)
(* (src/main.cpp: ProcessNewBlock, AcceptBlock, ReceivedBlockTransactions, *)
(* FindMostWorkChain, ActivateBestChain, ConnectTip, DisconnectTip,        *)
(* InvalidateBlock, ReconsiderBlock, FlushStateToDisk, LoadBlockIndexDB).  *)
(*                                                                         *)
(* Everything happens under cs_main, so operations do not interleave       *)
(* except where the code releases the lock: between the steps of an        *)
(* ActivateBestChain whose caller does not hold it, and between            *)
(* InvalidateBlock, ReconsiderBlock or DisconnectBlocksAndReprocess and    *)
(* the activation that follows.  A crash can come anywhere, and the        *)
(* database writes of FlushStateToDisk are separate steps because of it.   *)
(*                                                                         *)
(* Some definitions have a variant just before them that nothing uses:     *)
(* Kept has KeptIfBetter, LoadedTip goes with LoadedCandidates.  Each is   *)
(* the definition with a plausible programming error, kept to confirm that *)
(* the properties notice the error when it takes the definition's place.   *)
(***************************************************************************)
EXTENDS Integers, FiniteSets

CONSTANTS
  Blocks, Genesis,
  Parent,          \* pprev
  Path,            \* a block and all its ancestors
  ChainWork,       \* nChainWork
  Invalid,         \* blocks ConnectBlock always rejects
  Doubtful,        \* blocks it may reject (payee and budget rules depend on
                   \* what the node knows when it connects the block)
  Malformed,       \* blocks ContextualCheckBlock rejects
  Invalidatable,   \* blocks invalidateblock is called on
  Reconsiderable,  \* blocks ReconsiderBlock is called on
  Rewinds,         \* arguments of DisconnectBlocksAndReprocess
  Addresses,       \* the orders the index entries may have in memory
  MaxCrashes       \* bound on crashes

ASSUME TreeAssumption ==
  /\ IsFiniteSet(Blocks) /\ Genesis \in Blocks
  /\ Parent \in [Blocks \ {Genesis} -> Blocks]
  /\ Path \in [Blocks -> SUBSET Blocks]
  /\ Path[Genesis] = {Genesis}
  /\ \A b \in Blocks \ {Genesis} : b \notin Path[Parent[b]] /\ Path[b] = Path[Parent[b]] \cup {b}
  /\ \A b \in Blocks : \A a \in Path[b] : Path[a] \subseteq Path[b]
  /\ \A b \in Blocks : \A a, c \in Path[b] : a \in Path[c] \/ c \in Path[a]
  /\ ChainWork \in [Blocks -> Nat]
  /\ \A b \in Blocks \ {Genesis} : ChainWork[Parent[b]] < ChainWork[b]

ASSUME InputAssumption ==
  /\ Invalid \cup Doubtful \cup Malformed \cup Invalidatable \subseteq Blocks \ {Genesis}
  /\ Reconsiderable \subseteq Blocks
  /\ Rewinds \subseteq Nat
  /\ Addresses \subseteq [Blocks -> Nat] /\ Addresses # {}
  /\ \A order \in Addresses : \A a, b \in Blocks : order[a] = order[b] => a = b
  /\ MaxCrashes \in Nat

VARIABLES
  \* In memory.
  nStatus,      \* flags of each index entry; {} for a block not in mapBlockIndex
  linked,       \* entries with nChainTx # 0
  seq,          \* nSequenceId
  nextSeq,      \* nBlockSequenceId
  candidates,   \* setBlockIndexCandidates
  unlinked,     \* the blocks mapBlocksUnlinked lists under their parent
  dirty,        \* setDirtyBlockIndex
  tip,          \* chainActive.Tip()
  coins,        \* pcoinsTip->GetBestBlock()
  address,      \* the order of the index entries' addresses
  \* On disk.
  diskStatus,   \* the entries of the block tree database
  diskCoins,    \* the best block of the coins database
  \* Control.
  job, phase,   \* what the holder of cs_main is doing
  target,       \* pindexMostWork, or the block being invalidated
  oldTip,       \* pindexOldTip of ActivateBestChainStep
  held,         \* the activation keeps cs_main between its steps
  left,         \* disconnections DisconnectBlocksAndReprocess still makes
  pending,      \* a thread without cs_main has an ActivateBestChain to do
  crashes

memory == <<nStatus, linked, seq, nextSeq, candidates, unlinked, dirty, tip, coins, address>>
disk == <<diskStatus, diskCoins>>
control == <<job, phase, target, oldTip, held, left, pending>>
vars == <<memory, disk, control, crashes>>

\* BLOCK_VALID_TREE, BLOCK_HAVE_DATA (with BLOCK_VALID_TRANSACTIONS and nTx),
\* BLOCK_HAVE_UNDO (with BLOCK_VALID_SCRIPTS) and the two failure flags.
Flags == {"tree", "data", "undo", "failedValid", "failedChild"}

TypeOK ==
  /\ nStatus \in [Blocks -> SUBSET Flags] /\ diskStatus \in [Blocks -> SUBSET Flags]
  /\ linked \subseteq Blocks /\ candidates \subseteq Blocks
  /\ unlinked \subseteq Blocks /\ dirty \subseteq Blocks
  /\ seq \in [Blocks -> Nat] /\ nextSeq \in Nat \ {0}
  /\ tip \in Blocks /\ coins \in Blocks /\ diskCoins \in Blocks
  /\ address \in Addresses
  /\ job \in {"none", "activate", "invalidate", "rewind", "flush", "aborted", "corrupt"}
  /\ phase \in {"run", "accepted", "find", "step", "finish", "flush"}
  /\ target \in Blocks /\ oldTip \in Blocks
  /\ held \in BOOLEAN /\ pending \in BOOLEAN
  /\ left \in Nat /\ crashes \in 0..MaxCrashes

Known(b) == "tree" \in nStatus[b]
Failed(b) == nStatus[b] \cap {"failedValid", "failedChild"} # {}
HasData(b) == "data" \in nStatus[b]
Active(b) == b \in Path[tip]
Height(b) == Cardinality(Path[b]) - 1

(* InitBlockIndex has stored the genesis block; step 9 of AppInit2 is still *)
(* to look for better chains.                                               *)
Init ==
  /\ nStatus = [b \in Blocks |-> IF b = Genesis THEN {"tree", "data"} ELSE {}]
  /\ linked = {Genesis} /\ candidates = {Genesis}
  /\ unlinked = {} /\ dirty = {}
  /\ seq = [b \in Blocks |-> IF b = Genesis THEN 1 ELSE 0]
  /\ nextSeq = 2
  /\ tip = Genesis /\ coins = Genesis
  /\ address \in Addresses
  /\ diskStatus = nStatus /\ diskCoins = Genesis
  /\ job = "none" /\ phase = "run"
  /\ target = Genesis /\ oldTip = Genesis
  /\ held = FALSE /\ left = 0 /\ pending = TRUE /\ crashes = 0

-----------------------------------------------------------------------------
(* CBlockIndexWorkComparator: a sorts before b, that is, is worse.          *)
WorseBy(a, b, ids, order) ==
  \/ ChainWork[a] < ChainWork[b]
  \/ /\ ChainWork[a] = ChainWork[b]
     /\ ids[a] > ids[b] \/ (ids[a] = ids[b] /\ order[a] > order[b])

Worse(a, b) == WorseBy(a, b, seq, address)

(* The last element of setBlockIndexCandidates. *)
IsBest(c) == c \in candidates /\ \A d \in candidates : ~Worse(c, d)

(* Blocks of c's chain down to the active chain; the first unusable one     *)
(* met on the way down is the highest.                                      *)
Branch(c) == Path[c] \ Path[tip]
UnusableItself(c) == {b \in {c} : Failed(b) \/ ~HasData(b)}
Unusable(c) == {b \in Branch(c) : Failed(b) \/ ~HasData(b)}
FirstUnusable(c, b) == b \in Unusable(c) /\ Unusable(c) \subseteq Path[b]

(* The block of b's chain that follows t. *)
IsNext(n, t, b) == n \in Path[b] \ {Genesis} /\ Parent[n] = t

-----------------------------------------------------------------------------
(* Where control goes.                                                      *)

Goto(p) ==
  /\ phase' = p
  /\ UNCHANGED <<job, target, oldTip, held, left, pending>>

Release(more) ==
  /\ job' = "none" /\ phase' = "run"
  /\ target' = Genesis /\ oldTip' = Genesis
  /\ held' = FALSE /\ left' = 0
  /\ pending' = more

(* ActivateBestChain returns. *)
ActivationReturns == Release(pending /\ held)

(* After ActivateBestChainStep, or within it when it goes on. *)
Continue(newTip, stepEnds) ==
  \/ newTip = target /\ Goto("finish")
  \/ newTip # target /\ ~stepEnds /\ Goto("step")
  \/ newTip # target /\ stepEnds /\ held /\ Goto("find")
  \/ newTip # target /\ stepEnds /\ ~held /\ Release(TRUE)

(* A failed assertion: the process ends. *)
Abort ==
  /\ job' = "aborted" /\ phase' = "run"
  /\ UNCHANGED <<target, oldTip, held, left, pending>>

(* PruneBlockIndexCandidates: the candidates that stay when b is the tip. *)
KeptIfBetter(b) == {c \in candidates : Worse(b, c)}
Kept(b) == {c \in candidates : ~Worse(c, b)}

(* UpdateTip and PruneBlockIndexCandidates after a successful ConnectTip. *)
Connected(b) ==
  /\ candidates' = Kept(b)
  /\ IF Kept(b) = {} THEN Abort ELSE Continue(b, ChainWork[b] > ChainWork[oldTip])

-----------------------------------------------------------------------------
(* Headers and blocks arrive.                                               *)

CanAccept(b) ==
  /\ job = "none"
  /\ ~Failed(b)
  /\ b # Genesis => Known(Parent[b]) /\ ~Failed(Parent[b])

(* AcceptBlockHeader; also an AcceptBlock refused without a mark (a fork    *)
(* longer than the reorganisation limit, a stake that is not available).    *)
AcceptBlockHeader(b) ==
  /\ CanAccept(b) /\ ~Known(b)
  /\ nStatus' = [nStatus EXCEPT ![b] = @ \cup {"tree"}]
  /\ dirty' = dirty \cup {b}
  /\ UNCHANGED <<linked, seq, nextSeq, candidates, unlinked, tip, coins, address>>
  /\ UNCHANGED <<disk, control, crashes>>

RejectBlock(b) ==
  /\ CanAccept(b) /\ ~HasData(b) /\ b \in Malformed
  /\ nStatus' = [nStatus EXCEPT ![b] = @ \cup {"tree", "failedValid"}]
  /\ dirty' = dirty \cup {b}
  /\ UNCHANGED <<linked, seq, nextSeq, candidates, unlinked, tip, coins, address>>
  /\ UNCHANGED <<disk, control, crashes>>

(* b and the blocks that were only waiting for it. *)
NewlyLinked(b) ==
  {d \in unlinked \cup {b} : b \in Path[d] /\ Path[d] \ Path[b] \subseteq unlinked}

(* The breadth-first walk numbers them by height. *)
Numberings(new) ==
  {f \in [new -> nextSeq .. nextSeq + Cardinality(new) - 1] :
     \A c, d \in new : /\ f[c] = f[d] => c = d
                       /\ Height(c) < Height(d) => f[c] < f[d]}

(* Those that sort at least as good as the tip become candidates. *)
WorthyAll(new, ids) == new
Worthy(new, ids) == {d \in new : ~WorseBy(d, tip, ids, address)}

LinkBlocks(new) ==
  /\ linked' = linked \cup new
  /\ \E f \in Numberings(new) :
       seq' = [d \in Blocks |-> IF d \in new THEN f[d] ELSE seq[d]]
  /\ nextSeq' = nextSeq + Cardinality(new)
  /\ candidates' = candidates \cup Worthy(new, seq')
  /\ unlinked' = unlinked \ new

ReceivedBlockTransactions(b) ==
  \/ Parent[b] \in linked /\ LinkBlocks(NewlyLinked(b))
  \/ /\ Parent[b] \notin linked
     /\ unlinked' = unlinked \cup {b}
     /\ UNCHANGED <<linked, seq, nextSeq, candidates>>

(* ProcessNewBlock: AcceptBlock, then CheckBlockIndex (phase "accepted"),   *)
(* then ActivateBestChain, all without releasing cs_main.                   *)
StartHeldActivation(p) ==
  /\ job' = "activate" /\ phase' = p /\ held' = TRUE
  /\ UNCHANGED <<target, oldTip, left, pending>>

AcceptBlock(b) ==
  /\ CanAccept(b) /\ ~HasData(b) /\ b \notin Malformed
  /\ nStatus' = [nStatus EXCEPT ![b] = @ \cup {"tree", "data"}]
  /\ dirty' = dirty \cup {b}
  /\ ReceivedBlockTransactions(b)
  /\ StartHeldActivation("accepted")
  /\ UNCHANGED <<tip, coins, address, disk, crashes>>

(* "already have block": AcceptBlock returns true and the activation runs.  *)
AcceptKnownBlock(b) ==
  /\ CanAccept(b) /\ HasData(b)
  /\ StartHeldActivation("accepted")
  /\ UNCHANGED <<memory, disk, crashes>>

Accepted ==
  /\ phase = "accepted"
  /\ Goto("find")
  /\ UNCHANGED <<memory, disk, crashes>>

-----------------------------------------------------------------------------
(* ActivateBestChain.                                                       *)

(* A thread that does not hold cs_main gets it for its next step. *)
ActivateUnheld ==
  /\ job = "none" /\ pending
  /\ job' = "activate" /\ phase' = "find" /\ held' = FALSE
  /\ UNCHANGED <<target, oldTip, left, pending, memory, disk, crashes>>

(* FindMostWorkChain drops a candidate whose branch is unusable. *)
DropCandidate(c, u) ==
  /\ phase = "find"
  /\ IsBest(c) /\ FirstUnusable(c, u)
  /\ LET above == Path[c] \ Path[u]
     IN  /\ candidates' = candidates \ (above \cup {u})
         /\ nStatus' = [b \in Blocks |-> IF Failed(u) /\ b \in above
                                         THEN nStatus[b] \cup {"failedChild"}
                                         ELSE nStatus[b]]
         /\ unlinked' = IF Failed(u) THEN unlinked ELSE unlinked \cup above
  /\ UNCHANGED <<linked, seq, nextSeq, dirty, tip, coins, address>>
  /\ UNCHANGED <<disk, control, crashes>>

ChooseCandidate(c) ==
  /\ phase = "find"
  /\ IsBest(c) /\ Unusable(c) = {} /\ c # tip
  /\ target' = c /\ oldTip' = tip /\ phase' = "step"
  /\ UNCHANGED <<job, held, left, pending, memory, disk, crashes>>

NothingBetter ==
  /\ phase = "find"
  /\ candidates = {} \/ IsBest(tip)
  /\ ActivationReturns
  /\ UNCHANGED <<memory, disk, crashes>>

(* DisconnectTip up to its FlushStateToDisk(FLUSH_STATE_ALWAYS).  The       *)
(* genesis block has no undo data: disconnecting it fails.                  *)
DisconnectTip ==
  /\ tip # Genesis
  /\ coins' = Parent[tip]
  /\ phase' = "flush"

StepDisconnect ==
  /\ phase = "step" /\ ~(tip \in Path[target])
  /\ DisconnectTip
  /\ UNCHANGED <<nStatus, linked, seq, nextSeq, candidates, unlinked, dirty, tip, address>>
  /\ UNCHANGED <<disk, job, target, oldTip, held, left, pending, crashes>>

(* The undo data of b is written and its scripts are marked as verified. *)
StatusConnected(b) == [nStatus EXCEPT ![b] = @ \cup {"undo"}]

(* ConnectTip: ConnectBlock accepts b and records its undo data; the flush  *)
(* (FLUSH_STATE_IF_NEEDED) may or may not happen.                           *)
StepConnect(b) ==
  /\ phase = "step" /\ IsNext(b, tip, target)
  /\ b \notin Invalid
  /\ nStatus' = StatusConnected(b)
  /\ dirty' = IF "undo" \in nStatus[b] THEN dirty ELSE dirty \cup {b}
  /\ coins' = b
  /\ \/ Goto("flush") /\ UNCHANGED <<tip, candidates>>
     \/ tip' = b /\ Connected(b)
  /\ UNCHANGED <<linked, seq, nextSeq, unlinked, address, disk, crashes>>

InvalidBlockForgotten(b) ==
  /\ nStatus' = nStatus
  /\ dirty' = dirty \cup {b}
  /\ candidates' = candidates
InvalidBlockFound(b) ==
  /\ nStatus' = [nStatus EXCEPT ![b] = @ \cup {"failedValid"}]
  /\ dirty' = dirty \cup {b}
  /\ candidates' = candidates \ {b}

(* ConnectBlock rejects b, and the step ends where it is. *)
StepReject(b) ==
  /\ phase = "step" /\ IsNext(b, tip, target)
  /\ b \in Invalid \cup Doubtful
  /\ InvalidBlockFound(b)
  /\ Continue(tip, TRUE)
  /\ UNCHANGED <<linked, seq, nextSeq, unlinked, tip, coins, address, disk, crashes>>

(* The chain the thread worked towards is active: CheckBlockIndex, then     *)
(* FlushStateToDisk(FLUSH_STATE_PERIODIC), which may or may not write.      *)
FinishActivation ==
  /\ phase = "finish"
  /\ \/ ActivationReturns
     \/ Goto("flush")
  /\ UNCHANGED <<memory, disk, crashes>>

-----------------------------------------------------------------------------
(* Calls that move the tip back.                                            *)

InvalidateBlock(b) ==
  /\ job = "none" /\ Known(b)
  /\ nStatus' = [nStatus EXCEPT ![b] = @ \cup {"failedValid"}]
  /\ dirty' = dirty \cup {b}
  /\ candidates' = candidates \ {b}
  /\ job' = "invalidate" /\ target' = b
  /\ UNCHANGED <<linked, seq, nextSeq, unlinked, tip, coins, address, disk, crashes>>
  /\ UNCHANGED <<phase, oldTip, held, left, pending>>

InvalidateDisconnect ==
  /\ job = "invalidate" /\ phase = "run" /\ Active(target)
  /\ nStatus' = [nStatus EXCEPT ![tip] = @ \cup {"failedChild"}]
  /\ dirty' = dirty \cup {tip}
  /\ candidates' = candidates \ {tip}
  /\ DisconnectTip
  /\ UNCHANGED <<linked, seq, nextSeq, unlinked, tip, address, disk, crashes>>
  /\ UNCHANGED <<job, target, oldTip, held, left, pending>>

(* "The resulting new best tip may not be in setBlockIndexCandidates         *)
(* anymore, so add them again."                                             *)
ReadmittedTip == {tip}
Readmitted == {c \in linked : HasData(c) /\ ~Failed(c) /\ ~Worse(c, tip)}

InvalidateReturnsAtTarget ==
  /\ job = "invalidate" /\ phase = "run" /\ (~Active(target) \/ tip = target)
  /\ candidates' = candidates \cup Readmitted
  /\ Release(TRUE)
  /\ UNCHANGED <<nStatus, linked, seq, nextSeq, unlinked, dirty, tip, coins, address>>
  /\ UNCHANGED <<disk, crashes>>

InvalidateReturns ==
  /\ job = "invalidate" /\ phase = "run" /\ ~Active(target)
  /\ candidates' = candidates \cup Readmitted
  /\ Release(TRUE)
  /\ UNCHANGED <<nStatus, linked, seq, nextSeq, unlinked, dirty, tip, coins, address>>
  /\ UNCHANGED <<disk, crashes>>

(* The flags go from b, its descendants that are failed or not yet          *)
(* TRANSACTIONS valid (!IsValid()), and its failed ancestors; only entries  *)
(* of the first loop that are better than the tip are put back among the    *)
(* candidates.                                                              *)
ReconsiderBlock(b) ==
  /\ job = "none" /\ Known(b)
  /\ LET below == {d \in Blocks : b \in Path[d] /\ Known(d) /\ (Failed(d) \/ ~HasData(d))}
         above == {d \in Path[b] : Failed(d)}
     IN  /\ nStatus' = [d \in Blocks |-> IF d \in below \cup above
                                         THEN nStatus[d] \ {"failedValid", "failedChild"}
                                         ELSE nStatus[d]]
         /\ dirty' = dirty \cup below \cup above
         /\ candidates' = candidates \cup
              {d \in below \cap linked : HasData(d) /\ Worse(tip, d)}
  /\ pending' = TRUE
  /\ UNCHANGED <<linked, seq, nextSeq, unlinked, tip, coins, address, disk, crashes>>
  /\ UNCHANGED <<job, phase, target, oldTip, held, left>>

(* for (int i = 0; i <= blocks; i++) DisconnectTip(state); *)
MoreToDisconnectAtZero == left >= 0
MoreToDisconnect == left > 0

DisconnectBlocksAndReprocess(blocks) ==
  /\ job = "none"
  /\ job' = "rewind" /\ left' = blocks + 1
  /\ UNCHANGED <<phase, target, oldTip, held, pending, memory, disk, crashes>>

RewindDisconnect ==
  /\ job = "rewind" /\ phase = "run" /\ MoreToDisconnect
  /\ left' = left - 1
  /\ \/ DisconnectTip
     \/ tip = Genesis /\ UNCHANGED <<coins, phase>>
  /\ UNCHANGED <<nStatus, linked, seq, nextSeq, candidates, unlinked, dirty, tip, address>>
  /\ UNCHANGED <<disk, job, target, oldTip, held, pending, crashes>>

RewindReturns ==
  /\ job = "rewind" /\ phase = "run" /\ left = 0
  /\ Release(TRUE)
  /\ UNCHANGED <<memory, disk, crashes>>

-----------------------------------------------------------------------------
(* FlushStateToDisk.                                                        *)

(* gettxoutsetinfo and shutdown flush whatever there is. *)
FlushRequested ==
  /\ job = "none"
  /\ job' = "flush" /\ phase' = "flush"
  /\ UNCHANGED <<target, oldTip, held, left, pending, memory, disk, crashes>>

(* One entry of setDirtyBlockIndex.  The set is ordered by the addresses of *)
(* the entries: in any order, as far as the blocks go.                      *)
WriteBlockIndex(b) ==
  /\ phase = "flush" /\ b \in dirty
  /\ diskStatus' = [diskStatus EXCEPT ![b] = nStatus[b]]
  /\ dirty' = dirty \ {b}
  /\ UNCHANGED <<nStatus, linked, seq, nextSeq, candidates, unlinked, tip, coins, address>>
  /\ UNCHANGED <<diskCoins, control, crashes>>

(* The coins "may refer to block index entries", and are flushed last. *)
IndexWrittenSometime == TRUE
IndexWritten == dirty = {}

(* pcoinsTip->Flush(), one batch; then the caller goes on: UpdateTip when   *)
(* the coins have moved, else the return of the periodic flush.             *)
FlushCoins ==
  /\ phase = "flush" /\ IndexWritten
  /\ diskCoins' = coins
  /\ tip' = coins
  /\ \/ /\ coins = tip /\ job = "activate"
        /\ ActivationReturns
        /\ UNCHANGED candidates
     \/ /\ coins = tip /\ job = "flush"
        /\ Release(pending)
        /\ UNCHANGED candidates
     \/ /\ coins # tip /\ job = "activate"
        /\ coins \in Path[tip] /\ Goto("step")
        /\ UNCHANGED candidates
     \/ /\ coins \notin Path[tip] /\ job = "activate"
        /\ Connected(coins)
     \/ /\ job \in {"invalidate", "rewind"}
        /\ Goto("run")
        /\ UNCHANGED candidates
  /\ UNCHANGED <<nStatus, linked, seq, nextSeq, unlinked, dirty, coins, address>>
  /\ UNCHANGED <<diskStatus, crashes>>

-----------------------------------------------------------------------------
(* A crash, and the next start.                                             *)

(* LoadBlockIndexGuts makes an empty entry for a parent that is not there.  *)
DiskComplete ==
  \A b \in Blocks \ {Genesis} : diskStatus[b] # {} => diskStatus[Parent[b]] # {}

LoadedWithData == {b \in Blocks : "data" \in diskStatus[b]}
LoadedLinked == {b \in Blocks : \A a \in Path[b] : "data" \in diskStatus[a]}

LoadedTip(order) == {diskCoins}
LoadedCandidates(order) ==
  {c \in LoadedLinked : /\ diskStatus[c] \cap {"failedValid", "failedChild"} = {}
                        /\ ~WorseBy(c, diskCoins, [b \in Blocks |-> 0], order)}

(* LoadBlockIndexDB, with PruneBlockIndexCandidates and its assertion; the  *)
(* behaviour after the load of an incomplete index is not modelled.         *)
CrashAndRestart ==
  /\ job \notin {"aborted", "corrupt"}
  /\ crashes < MaxCrashes /\ crashes' = crashes + 1
  /\ nStatus' = diskStatus
  /\ linked' = LoadedLinked
  /\ unlinked' = {b \in Blocks \ {Genesis} :
                    "data" \in diskStatus[b] /\ Parent[b] \notin LoadedLinked}
  /\ seq' = [b \in Blocks |-> 0] /\ nextSeq' = 1
  /\ dirty' = {}
  /\ tip' = diskCoins /\ coins' = diskCoins
  /\ address' \in Addresses
  /\ candidates' = LoadedCandidates(address')
  /\ job' = IF ~DiskComplete THEN "corrupt"
            ELSE IF candidates' = {} THEN "aborted" ELSE "none"
  /\ phase' = "run"
  /\ target' = Genesis /\ oldTip' = Genesis
  /\ held' = FALSE /\ left' = 0 /\ pending' = TRUE
  /\ UNCHANGED disk

-----------------------------------------------------------------------------

Internal ==
  \/ Accepted
  \/ \E c \in Blocks : ChooseCandidate(c) \/ \E u \in Blocks : DropCandidate(c, u)
  \/ NothingBetter
  \/ StepDisconnect
  \/ \E b \in Blocks : StepConnect(b) \/ StepReject(b) \/ WriteBlockIndex(b)
  \/ FinishActivation
  \/ InvalidateDisconnect \/ InvalidateReturns
  \/ RewindDisconnect \/ RewindReturns
  \/ FlushCoins

Next ==
  \/ Internal
  \/ \E b \in Blocks : AcceptBlockHeader(b) \/ RejectBlock(b)
                       \/ AcceptBlock(b) \/ AcceptKnownBlock(b)
  \/ ActivateUnheld
  \/ \E b \in Invalidatable : InvalidateBlock(b)
  \/ \E b \in Reconsiderable : ReconsiderBlock(b)
  \/ \E n \in Rewinds : DisconnectBlocksAndReprocess(n)
  \/ FlushRequested
  \/ CrashAndRestart

Spec == Init /\ [][Next]_vars

(* The thread that holds cs_main keeps running: none of the operations      *)
(* waits for another thread.                                                *)
FairSpec == Spec /\ WF_vars(Internal)

-----------------------------------------------------------------------------
(* Properties.                                                              *)

(* CheckBlockIndex runs whenever a block has been received, which another   *)
(* thread may do while nobody holds cs_main, and at the end of an           *)
(* activation.                                                              *)
CheckPoint == job = "none" \/ phase \in {"accepted", "finish"}

(* CheckBlockIndex: nChainTx is set exactly for the blocks whose whole       *)
(* chain has data, the others with data wait in mapBlocksUnlinked, and only *)
(* linked blocks are candidates or have a sequence number: whatever the     *)
(* order in which headers and blocks arrived, and after every restart.      *)
LinkedTree ==
  /\ linked = {b \in Blocks : \A a \in Path[b] : HasData(a)}
  /\ unlinked = {b \in Blocks \ {Genesis} : HasData(b) /\ Parent[b] \notin linked}
  /\ candidates \subseteq linked
  /\ \A b \in Blocks : seq[b] # 0 => b \in linked

(* CheckBlockIndex: a linked block that sorts at least as good as the tip   *)
(* and has no invalid ancestor must be a candidate; one that sorts worse    *)
(* must not be.                                                             *)
CandidatesAssertion ==
  CheckPoint => \A b \in linked :
    IF Worse(b, tip) THEN b \notin candidates
    ELSE (\A a \in Path[b] : "failedValid" \notin nStatus[a]) => b \in candidates

(* CheckBlockIndex: the failed mask cannot be set for blocks without        *)
(* invalid parents.                                                         *)
FailedMaskAssertion ==
  CheckPoint => \A b \in Blocks :
    Failed(b) => \E a \in Path[b] : "failedValid" \in nStatus[a]

(* CheckBlockIndex: SCRIPTS valid implies all parents are SCRIPTS valid.    *)
ScriptsValidAssertion ==
  CheckPoint => \A b \in Blocks : "undo" \in nStatus[b] =>
    \A a \in Path[b] \ {Genesis} : "undo" \in nStatus[a]

(* Everything that CheckBlockIndex asserts about the tree and the           *)
(* candidates, whenever it runs: in whatever order headers and blocks come, *)
(* are rejected, invalidated and reconsidered.                              *)
CheckBlockIndex ==
  LinkedTree /\ CandidatesAssertion /\ FailedMaskAssertion /\ ScriptsValidAssertion

(* PruneBlockIndexCandidates: either the current tip or a successor of it   *)
(* we're working towards is left in setBlockIndexCandidates.                *)
PruneAssertion == job # "aborted"

(* FindMostWorkChain looks no further than the active chain "as we know all *)
(* blocks in it are valid already": no block marked as failed is active     *)
(* when every activation has returned.                                      *)
ActiveChainValid == job = "none" /\ ~pending => \A a \in Path[tip] : ~Failed(a)

(* ActivateBestChain: "the result is either failure or an activated best    *)
(* chain".  When every activation that was called for has returned, no      *)
(* chain that is fully available and free of failed blocks has more work.   *)
BestChainActive ==
  job = "none" /\ ~pending =>
    \A b \in linked : (\A a \in Path[b] : ~Failed(a)) => ChainWork[b] <= ChainWork[tip]

(* Whatever the node was doing when it stopped, and however often, the      *)
(* coins on disk belong to a block whose chain is on disk too, with the     *)
(* data to connect it and the undo data to disconnect it.                   *)
DiskRecoverable ==
  \A a \in Path[diskCoins] :
    "data" \in diskStatus[a] /\ (a # Genesis => "undo" \in diskStatus[a])

(* A step towards more work never stands on a failed block.                 *)
NeverExtendsFailed ==
  [][crashes' = crashes /\ ChainWork[tip'] > ChainWork[tip]
       => \A a \in Path[tip'] : ~Failed(a)']_vars

(* Every operation gives cs_main back: an activation meets finitely many    *)
(* candidates it has to drop, reject or return to.                          *)
LockReleased == job \notin {"none", "aborted", "corrupt"} ~> job \in {"none", "aborted", "corrupt"}
=============================================================================
