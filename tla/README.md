# A specification of the ColossusCoinXT node

TLA+ models of the core of the node in `src/src`, TLC configurations that
check them on small instances, and proofs, checked by TLAPS, that the most
important invariants hold for every instance. Paths below are relative to
`src/src` of the repository.

## The system

The node is a descendant of Bitcoin Core by way of Dash and PIVX. Its threads
(message handling, RPC, staking, import at start-up, script verification, the
scheduler) share a global state protected mostly by one lock, `cs_main`.

| Component | State it keeps | Operations | Hard behaviour | What makes it correct |
|---|---|---|---|---|
| Block index and active chain (`main.cpp`, `chain.h`, `txdb.cpp`) | `mapBlockIndex`, `setBlockIndexCandidates`, `mapBlocksUnlinked`, `setDirtyBlockIndex`, `chainActive`, `pcoinsTip`, the block tree and coins databases | `ProcessNewBlock`, `ActivateBestChain`, `InvalidateBlock`, `ReconsiderBlock`, `DisconnectBlocksAndReprocess`, `FlushStateToDisk`, `LoadBlockIndexDB` | arrival in any order, reorganisations that fail half-way, release of `cs_main` between steps, crashes between two database writes | the assertions of `CheckBlockIndex`, the best available chain is active, the disk can be recovered from |
| Script check queue (`checkqueue.h`) | a queue, four counters, two condition variables | `Add`, `Wait`, the workers' `Loop` | interleaved critical sections, lost or spurious wakeups, interruption | no check is lost or run twice, the verdict is right, a session ends |
| Block and undo files (`main.cpp`) | `vinfoBlockFile`, `nLastBlockFile`, the files | `FindBlockPos`, `FindUndoPos`, `FlushBlockFile` | power failure between a write and its sync | an index entry never refers to data that can be lost |
| Coins cache (`coins.cpp`) | DIRTY and FRESH entries, in a stack of views | `FetchCoins`, `ModifyCoins`, `BatchWrite`, `Flush` | wrong FRESH flags | behaves as one map |
| Block download (`main.cpp`) | `mapBlocksInFlight`, per-peer state | `MarkBlockAsInFlight`, `MarkBlockAsReceived`, stalling | timeouts racing answers | a block is asked from one peer at a time, counters agree |
| Memory pool, orphans (`txmempool.cpp`, `main.cpp`) | `mapTx`, `mapNextTx`, `mapOrphanTransactions` | accept, remove, reorganise | chains of dependent transactions | no two conflicting entries |
| SwiftTX (`swifttx.cpp`) | `mapTxLocks`, `mapLockedInputs`, votes | lock request, vote, clean-up | conflicting locks, votes before requests | an input is locked by one transaction |
| Masternodes (`masternode*.cpp`, `activemasternode.cpp`) | list, sync stage, payment votes, budgets | messages, timers | messages of earlier stages, orphan votes | stages advance, votes counted once |
| Sporks (`spork.cpp`) | active spork values | messages, `ReprocessBlocks` | values change while blocks are being validated | the newest signed value wins |
| Scheduler (`scheduler.cpp`) | `taskQueue`, stop flags | `schedule`, `serviceQueue`, `stop` | threads waiting for the same deadline | a task runs once, and not before its time when a thread is alone |
| Obfuscation, wallet, network, RPC, zerocoin, staking kernel, GUI | | | | not modelled |

How they interact: the message handler and the staking thread call
`ProcessNewBlock`, which holds `cs_main` from `AcceptBlock` to the end of
`ActivateBestChain`. `ConnectTip` and `DisconnectTip` open a coins view over
`pcoinsTip`, apply or take back a block in it (`ConnectBlock` opens a session of
the script check queue and waits for its verdict), flush the view into
`pcoinsTip`, and update the memory pool. The pool's acceptance and `CheckBlock`
consult the inputs that SwiftTX has locked; a completed lock makes blocks that were
refused be reconsidered (`ReprocessBlocks`). RPCs and sporks call
`InvalidateBlock`, `ReconsiderBlock` and `DisconnectBlocksAndReprocess`, then
`ActivateBestChain` after having released the lock. `FlushStateToDisk` is called
after every disconnection, sometimes after a connection, at the end of an
activation, by an RPC and at shutdown. At the next start `LoadBlockIndexDB`
rebuilds the index from the block tree database and takes the tip from the coins
database. Masternode synchronisation goes by the age of the tip, and decides when
the node stakes and checks payees.

## The modules

| Module | Role |
|---|---|
| `ChainState` | the block index, the active chain, activation, flush, crash and restart |
| `MCChainState` | block trees and address orders for TLC |
| `ChainStateProofs` | all of its safety properties, those about the best chain and the failed blocks under named conditions |
| `ScriptVerdict` | what the script check queue promises: the abstract specification |
| `CheckQueue` | the thread pool, one action per critical section |
| `MCCheckQueue` | symmetry sets for TLC |
| `CheckQueueProofs` | all of its safety properties, and that it implements `ScriptVerdict` |
| `Coins` | what the coins views promise: one table in three versions, no caches |
| `CoinsCache` | the database and two caches with DIRTY and FRESH entries |
| `ChainCoins` | blocks applied to `CoinsCache` and taken back, undo data, flush, crash |
| `MCChainCoins` | a tree of blocks with transactions, and the coins after each block |
| `CoinsCacheProofs` | the flags, the assertion of `BatchWrite`, and that `Coins` is implemented |
| `ChainCoinsProofs` | the assertions of connecting and disconnecting, and that tip and database hold the coins of their best block |
| `Mempool` | the memory pool, orphans, and what blocks do to both |
| `SwiftTX` | lock requests, votes, locked inputs and their expiry, composed with `Mempool` |
| `MCSwiftTX` | transactions and blocks for the runs on the pool and on locks |
| `SwiftTXProofs` | the pool, the orphans, the maps of the locks, and why a transaction leaves the pool |
| `BlockDownload`, `MCBlockDownload` | blocks in flight, peers that stall, time out and leave |
| `BlockDownloadProofs` | the maps, lists and counters agree, a stalling peer owes a block, the last common block is full |
| `Scheduler`, `MCScheduler` | `CScheduler`, one action per critical section |
| `SchedulerProofs` | tasks run once, threads are counted, only a thread that another overtook is early |
| `MasternodeSync`, `MCMasternodeSync` | the stages of masternode synchronisation |
| `MasternodeSyncProofs` | synchronisation never runs ahead of the chain |

Some definitions are preceded by a variant nothing uses (`KeptIfBetter` before
`Kept`). Each is the definition with one plausible programming error: replacing
the definition by it makes TLC find the property that `PROJECT.json` names
violated, which shows that the property depends on that code.

### ChainState

State. `nStatus[b]` is the set of flags of b's index entry, empty when there is
none: `"tree"` is `BLOCK_VALID_TREE`; `"data"` stands for `BLOCK_HAVE_DATA`,
`BLOCK_VALID_TRANSACTIONS` and a non-zero `nTx`, which the code sets together;
`"undo"` for `BLOCK_HAVE_UNDO` and `BLOCK_VALID_SCRIPTS`, which `ConnectBlock`
sets together; `"failedValid"` and `"failedChild"` are the failure flags.
`linked` is the set of blocks with a non-zero `nChainTx`, `seq` is `nSequenceId`,
and `tip`, `coins`, `candidates`, `unlinked` and `dirty` are the variables of the
source. `diskStatus` and `diskCoins` are the two databases. `address` is the order
of the index entries in memory, which decides ties between blocks loaded from
disk and changes from run to run.

`cs_main` is one lock, so one operation at a time is in progress: `job` says
which, `phase` where it is, `target` and `oldTip` are its local variables, `held`
says whether the caller of an activation keeps the lock between its steps (the
block-processing threads do; the RPCs, the spork code and start-up do not), and
`pending` that some thread without the lock still has an activation to do.

| Action | Code |
|---|---|
| `AcceptBlockHeader`, `RejectBlock`, `AcceptBlock`, `AcceptKnownBlock`, `Accepted` | `ProcessNewBlock`, `AcceptBlock`, `AcceptBlockHeader`, `ReceivedBlockTransactions` |
| `ChooseCandidate`, `DropCandidate`, `NothingBetter` | one turn of `FindMostWorkChain` |
| `StepDisconnect`, `StepConnect`, `StepReject` | one turn of `ActivateBestChainStep`, with the whole of `DisconnectTip`, `ConnectTip` or `InvalidBlockFound`, up to their flush |
| `ActivateUnheld`, `FinishActivation` | entry and exit of `ActivateBestChain` |
| `InvalidateBlock`, `InvalidateDisconnect`, `InvalidateReturns` | `InvalidateBlock` |
| `ReconsiderBlock` | `ReconsiderBlock` |
| `DisconnectBlocksAndReprocess`, `RewindDisconnect`, `RewindReturns` | `DisconnectBlocksAndReprocess`, called by `ReprocessBlocks` |
| `FlushRequested`, `WriteBlockIndex`, `FlushCoins` | `FlushStateToDisk`; `FlushCoins` goes on to the caller's `UpdateTip` |
| `CrashAndRestart` | a crash at any point, then `LoadBlockIndexDB` |

Abstractions. The tree of possible blocks is a constant, and so is what
`ConnectBlock` thinks of each block: `Invalid` blocks are always rejected,
`Doubtful` ones may be accepted or rejected each time (payee and budget rules
depend on votes received), `Malformed` ones fail `ContextualCheckBlock`. Several
threads waiting to activate are one flag, since they would do the same. `hashNext`
is written but never set, so an entry refers to its parent only. When an
activation that does not hold the lock has reached its target, its final check and
flush are taken with the lock held: the check and the flush are also enabled on
their own in the states in between.

### CheckQueue

One action per critical section of the pool's mutex: `EnterLoop`, `Resume` (after
`cond.wait`), `FinishBatch` each end by leaving the pool, blocking, or taking a
batch; `Evaluate` runs outside the mutex; `OpenControl` and `Add` are the master's
calls. `SpuriousWakeup` and `Interrupt` are the thread library: a wait may return
without a notification, and each thread may be interrupted once (at shutdown),
upon which a worker ends with the counters as they are, and the master unwinds
into the destructor of its control object, which waits again.

### Coins, CoinsCache and ChainCoins

`CoinsCache` has the three levels of the source as variables: `db` and `dbBest`
(`CCoinsViewDB`), `tip` and `tipBest` (`pcoinsTip`), `view` and `viewBest` (the view
of the block being worked on). An entry has coins and the two flags. Its actions are
the methods of `CCoinsViewCache`: `Access` and `TipAccess` fetch, `Modify` is
`ModifyCoins` with the caller's change and the modifier's destructor, `Commit` and
`FlushTip` are the two `Flush` calls with their `BatchWrite`, `FlushTipFails` the
second one when the database write fails, `Discard` a view that goes out of scope.
The database is one LevelDB batch, so it changes in one step.

`ChainCoins` extends it with the callers, one call on a view per step:
`ConnectTip` and `TestBlockValidity` go through `AssertBestBlock`,
`CheckOverwrite` (BIP30), `CheckInputs`, `SpendInput`, `AddOutputs` and
`FinishConnect`; `DisconnectTip` and `VerifyDB` through `RemoveOutputs`,
`RestoreInput` and `FinishDisconnect`; then `FlushView`, `WriteIndex`, `WriteCoins`
or `WriteCoinsFails`, `UpdateTip`. `Restart` may happen at every step. The coins of
a transaction are its unspent outputs, its height and `fCoinStake`; an undo record
has height and flag when the last output is spent, and `blockundo` has a list of them
by transaction, as `CBlockUndo` does (the coinbase's, which the code leaves out, is
empty). The reference is `CoinsAt`: the coins at any point of a block are those before
the block or added by it, less what it has spent so far. It knows no order, caches or
undo records. `Connectable` are the blocks that add nothing over unspent coins and
find all that they spend, and `Utxo` gives the coins after each of them
(`UtxoAssumption`, evaluated by TLC). Which block comes next is
`ChainState`'s subject: here any child of the tip may be connected and any tip
disconnected, so every choice `ChainState` can make is covered.

### Mempool and SwiftTX

`Mempool` has `mapTx`, `mapNextTx`, the two orphan maps and the active chain as a
sequence of blocks. A handler that loops over transactions holds `cs_main` and takes
one step per transaction (`job`): `TxMessage`, `ProcessOrphan`, `NextWork` for the
"tx" message; `ConnectTip`, `ConnectTx`; `DisconnectTip`, `DisconnectTx`,
`DisconnectDone`. Checks that are not about this state (fees, scripts, standardness)
may refuse any transaction. A block that conflicts with a lock meets the check twice:
`RefuseBlock` on arrival, before `cs_main` is taken, where it is only dropped and remembered for
`ReprocessBlocks`, and `RefuseConnect` in `ConnectBlock`, for a block read from the disk, where it is
marked invalid. A lock made in between does not stop `ConnectTip` (`fAlreadyChecked`). Coins, maturity and availability are computed from the
chain.

`SwiftTX` extends it with the maps of `swifttx.cpp`. Those have no lock of their own:
the "ix" handler is split at its call of `AcceptToMemoryPool` (`IxMessage`, then
`IxAccepted` or `IxRejected`), the other handlers are one step. `RpcIx` and
`WalletIx` are the local ways to a lock, `Vote` and `VoteInvalid` the "txlvote"
message, `CleanTransactionLocksList` the Obfuscation thread. The hash of a vote leaves its
height out, and an unknown request is replaced by an empty transaction when its lock
completes (`operator[]`): both are modelled. Signature checks and masternode
ranks are the constant `Quorum`.

### BlockDownload

The per-peer state of `CNodeState` is a record; `index`, `data`, `failed` and `tip`
are what the download sees of the block index. `Inv`, `Headers`, `HeadersRefused`
and `Block` are messages (a block may come unasked, and be stored, marked invalid or
dropped), `SendMessages` is one call of it for a peer with
`FindNextBlocksToDownload`, and `Refreshed` what every call does first, whether it fetches or not; `SendTimeout` the call in which a limit is exceeded,
`Connect`, `Drop` and `FinalizeNode` the life of a connection. Work is height. Time
is abstract: a peer outside `Honest` may exceed any limit at any time.

### Scheduler

One action per critical section of `newTaskMutex`; `notify_one`, `notify_all`,
spurious wakeups, timeouts and interruption are those of the thread library. A thread
is in one of two waits, has been woken or has timed out without holding the mutex,
runs a task, or has left. `Repeat` is the task of `scheduleEvery`. `stop` may be called again with
the other argument. `overtaken` is a history variable for `AtOrAfter`: the threads during whose wait
another one took a task.

### MasternodeSync

The object's fields are a record and its methods functions on it; `Process` is one
call by the Obfuscation thread, with either of its `TRY_LOCK`s failing or not; the code's calls run
without a common lock and are taken as single steps. The list and the winners are asked of the peers
in `Paying` (`GetMinMasternodePaymentsProto`), the budget of those in `Current` (`ActiveProtocol`);
the two sets differ while SPORK_10 is not active. `Accept`, `Announced`, `Forget` and `Expire` are
what messages, the list and the clean-up of votes do to the object. `Expire` is the loop of
`CheckAndRemove` that erases an expired broadcast and then, through an iterator that has
moved on, the count of the next one, or of whatever is read after the last. A moment
the code remembers is "recent" until `Elapse` makes it "old". Whether the tip is
recent and masternodes are enabled are inputs that may change at any time, and so
may the spork that `Requested` consults.

## The runs

Passing runs.

| Run | Instance | What it shows |
|---|---|---|
| `chain_tree` | branches A and C-D-E, D doubtful, A and C may be invalidated repeatedly, A reconsidered | in every order of headers and blocks, and with two kinds of activation interleaved: all that `CheckBlockIndex` asserts, candidates never run out, the best usable chain ends up active although the branch with the most work may fail in the middle, no failed block stays active or is built upon, and every operation gives the lock back |
| `chain_crash` | A-B and C-D-E, B malformed, E invalid, one crash, rewinds by 1 and 2 blocks | with the active chain and memory up to two blocks ahead of the disk: the databases can be recovered from, the index is rebuilt consistently, the best chain ends up active |
| `checkqueue_safety` | 2 workers and the master, 4 checks (fewer never make a batch of 2) | no check twice, the assertion of the control's constructor, the verdict, and that `ScriptVerdict` is implemented |
| `checkqueue_live` | 2 workers and the master, 3 checks | a session ends |
| `coins` | A-B-C and A-D-E; on A, a block that overwrites unspent coins, one whose second transaction spends what is not there, and one that another check rejects; a transaction spent in part, then entirely, or at once and mined again; a spend within a block | the flags are true, the caches implement `Coins`, the tip and the disk hold exactly the coins of their best block at every step, the assertions of `UpdateCoins`, `ConnectBlock` and `DisconnectBlock` hold, disconnecting is always clean, and a block is turned away only for a reason |
| `pool` | 8 transactions: two in conflict, a chain of three with two parents, a spend of a coinbase; 5 blocks, 2 peers, 2 orphans at most, maturity 2 | what `CTxMemPool::check` asserts, the orphan index and its limit, nothing leaves the pool without a reason, handlers end |
| `locks` | one request, two masternodes of which one votes for two heights, this node one of them, a block with the conflicting transaction | a masternode counts once in a lock, locks expire |
| `block_download` | best chain of 2 blocks, a valid and an invalid fork, an honest preferred peer and one that does anything; window 1, limit 2 | the maps, lists and counters agree and stay within their limits, a stalling peer owes a block, the last common block has no gap below it, the best announced chain is downloaded |
| `scheduler` | 2 threads, a task and a repeating one, 3 instants | a one-off task runs once, only a thread that was overtaken is early, counted threads, a stop ends unless it waits for a repeating task to drain, no task is forgotten |
| `masternode_sync` | 2 peers, one of them too old for the budget, one masternode, threshold 1 (an item counts once, attempts pass the limits 1 and 3), one reset, sleep or item lost | synchronisation never runs ahead of the chain, ends, and starts again |

Two branches of up to three blocks are enough for the cases the chain code
distinguishes: a fork at the start of the chain, ties broken by sequence number
and by address, a reorganisation that passes through less work, a failure in the
middle of the better branch, a block waiting for a parent that is two blocks away,
a sibling on the branch being disconnected. `chain_tree` has no crashes or rewinds, `chain_crash` no
operators: a crash in the middle of an invalidation is met by the theorems' condition
`GoodRestart` only. The bounds are the block tree, `MaxCrashes`
(1: at any point, the properties hold of what is loaded and of everything after it), `Rewinds`, and
which blocks operators name. A block is numbered when its chain becomes complete, at most once per
start, so `nextSeq` is bounded by the tree. In `ChainCoins` nothing is bounded but the
tree. `MaxHeight` bounds the chain of the pool runs (four blocks are enough for two
reorganisations and for a coinbase to become mature and immature again);
`MaxSessions` the connections of peers that are not honest (one, which can be lost
at any moment and leave blocks in flight behind); `MaxTime` the scheduler's clock
(after it, repeating tasks end); `MaxResets` the resets, sleeps and forgotten items of
the synchronisation (one, at any point of it).

`chain_crash` does not check for deadlock, because a node that has failed an
assertion or loaded an incomplete index has stopped; nor does `scheduler`, where
everything ends when all threads have left. In the other runs TLC checks it.

Runs that end in a violation, each a disagreement between the code and what its
comments say:

| Run | What happens |
|---|---|
| `coins_stake_undo` | the last output of a coinstake is spent, and the spending block disconnected: `DisconnectBlock` (`main.cpp:3009`) restores every field of the undo record but `fCoinStake`, so the coins are not those of the best block (`coins.h:345`) and their maturity is no longer checked |
| `locks_consensus` | a request the pool refuses locks its inputs without a vote (`swifttx.cpp:109`), and a block that spends them is refused; `main.cpp:4525` speaks of complete consensus |

`coins` has the same tree with another transaction as the coinstake, one whose
outputs are not spent: there the property holds.

### Known limits of the properties

Several properties hold only where some calls do not occur; the configurations
leave those out, and what happens otherwise was found with `ChainState` too:

* `reconsiderblock` on a descendant clears the failure flags of its ancestors and leaves
  their other descendants marked (`main.cpp:4237`; the comment at 5747 says this cannot
  be). On a descendant whose data is missing it clears the ancestors without making
  them candidates again.
* `DisconnectBlocksAndReprocess` does not put pruned blocks back among the
  candidates, as `InvalidateBlock` does (`main.cpp:3866`): when the old chain is then
  rejected, the activation ends on less work than is available (4087). It is the
  rejection of a block that had been verified which does the harm, here and elsewhere.
* A crash between the two database writes of an invalidation leaves a tip marked
  as failed on disk; the next start fails the assertion at `main.cpp:4012` (from
  5425), and so will every other.
* Index entries are written one by one in the order of their addresses
  (`main.cpp:3653`): a crash can leave one without its parent (5741).
* An activation that does not hold the lock and meets an invalid block after having
  disconnected others releases the lock on less work than before, and a block
  received then fails `CheckBlockIndex` (`main.cpp:4168`, 5750).
* When the flush of the coins fails, the cache is empty and keeps its best block
  (`coins.cpp:202`); the node shuts down, and the flush of the shutdown writes that
  best block over the old coins (`main.cpp:3661`, `init.cpp:226`). `WriteCoinsFails` models it, and
  the properties of `ChainCoins` speak of the time before (`~failed`).
* `nQueuedValidatedHeaders` is not reduced for a peer that leaves (`main.cpp:389`),
  against the comment at 178. So it may stay above the number of blocks in flight, but never
  falls below it, nor below zero (`QueueInv` in `BlockDownloadProofs`).
* Two requests in conflict (`Cancel`) occur in `locks_consensus` only. A lock that
  completes before its request arrives is checked for conflicts against the empty
  placeholder (`swifttx.cpp:362`), so two complete locks can conflict without either
  being cancelled.
* With several service threads a scheduler thread may start a task before its time: it
  waited for another one that somebody else took (`scheduler.cpp:57`). `AtOrAfter` says that
  this is the only way: a thread that nobody overtook while it waited starts only
  what is due. The node has one service thread, which nobody can overtake.
* `stop(true)` does not end the threads while a repeating task is scheduled, which
  puts itself back before the queue can be seen empty; `StopEnds` says so.

## Fairness

`ChainState` assumes weak fairness of `Internal`, the steps of the operation that
holds `cs_main`: none of them waits for another thread, so the thread runs on. No
fairness is assumed of messages, RPCs, crashes or of a thread that has yet to get
the lock. `CheckQueue` assumes weak fairness of each thread's own steps: a thread
that can take the mutex eventually does (the critical sections are finite), and a
check that runs ends. Nothing forces the master to add checks or to close a session
it has opened, and wakeups may be spurious or not occur.

`SwiftTX` assumes it of the handler that holds `cs_main`, of time, and of the
clean-up, which the Obfuscation thread calls every minute. `Scheduler` assumes it of
time and of each thread that is neither waiting nor outside: tasks return.
`BlockDownload` assumes that the message thread serves honest peers, that limits
exceeded by others are noticed, that their sockets are closed, and that an honest peer
answers; nothing is assumed of what other peers send, and `DownloadCompletes` is
stated for honest peers that are preferred. `MasternodeSync` assumes that the thread
runs and gets `cs_vNodes` in the end, that time passes, and that no connection lasts
for ever. The last assumption is about the network and is needed: the time limits
are only tested for a peer that was not asked yet, so a node whose few peers never
change, or whose `ClearFulfilledRequest` did not get its lock, stays in its stage
(`masternode-sync.cpp:314`, 221).

## The proofs

TLAPS proves, for every value of the constants that satisfies the named
assumptions of each module, which TLC evaluates on every run:

* `CheckQueueAssumption`: finitely many threads and checks, the master is not a
  worker, batches are not empty;
* `TreeAssumption` of `ChainState`: `Path` is the set of ancestors in a finite tree, and
  work grows along it; `InputAssumption`;
* for the coins, that the markers `Pruned`, `NoEntry`, `NoHash` and `NoUndo` are no other values;
* `TreeAssumption` of `ChainCoins`: a child is one higher than its parent;
  `TransactionAssumption`: no transaction has an input twice (`CheckTransaction`, `main.cpp:1521`),
  a block other than the genesis block is not empty, and a transaction without inputs occurs
  in it once (one coinbase, `main.cpp:4504`); `CoinsAssumption`: what coins are;
  `UtxoAssumption`: `Utxo` is the reference where a block can be connected;
* `TransactionAssumption` of `Mempool`: finitely many transactions, none of which spends its own outputs,
  only generated ones have no inputs, blocks are not empty; `ChainAssumption`: the chain the
  node starts with is valid (`IsValidChain`: everything spent was there before and is spent
  once); `LockAssumption`: the sentinels of the lock maps differ from what they
  stand in for, a lock is about a transaction that is not generated;
* `TreeAssumption` of `BlockDownload`: `Path` lists the ancestors of a block, each of which has its
  own prefix as path; `LimitAssumption`: finitely many peers, positive window and limit;
  `NoneAssumption`;
* `SchedulerAssumption` and `SyncAssumption`: finitely many threads, at least one task, positive
  delays and thresholds.

The theorems, by module:

* `CheckQueueProofs`: `TypeCorrect`, `Accounting` (`NoCheckTwice` and
  `TodoAccounting`), `ConstructorAssertion` (`IdleBetweenSessions`),
  `VerdictTheorem` and `Refinement` (every behaviour is one of `ScriptVerdict`).
  The inductive invariant adds to them that the counters equal what the program
  counters of the threads and the interrupted threads say, that a thread holds a
  batch exactly while it is working, and how `fAllOk` and the local results relate to
  the checks already accounted for: without the last part the verdict does not
  follow, because the failure may still be in a thread's local variable.
* `ChainStateProofs`: `TypeCorrect`, `LinkedTreeTheorem` and
  `DiskRecoverableTheorem`, without conditions. `DiskRecoverable` is about the disk and is not inductive:
  the flush copies memory to disk, so the invariant `IInv` says that the active
  chain and the coins' chain are linked and have undo data (`TipsLinked`,
  `UndoActive`), that what is on disk is true of memory (`DiskTruthful`), that an
  entry which is not dirty is on disk as it is in memory (`CleanWritten`; failure
  flags excepted, since `FindMostWorkChain` sets them without making the entry
  dirty), and that an activation works towards a linked block
  (`ControlConsistent`). The step that needs an argument about trees is the arrival
  of a block: `LinkingKeepsTree` shows that the blocks the breadth-first walk reaches
  are exactly those whose chain has become complete, from `PathAntisymmetric` and
  the fact that two ancestors of a block are ancestors of one another. `FlushCoins`
  is the step that moves `DiskRecoverable`, and needs that no entry is dirty by then.

  Five more theorems hold where the calls listed under "Known limits" do not occur. The
  conditions are hypotheses on the steps of a behaviour, defined at the head of the
  module:

  | Condition | What it leaves out | Needed by |
  |---|---|---|
  | `GoodRestart` | a crash between the two writes of an invalidation | all five |
  | `LastingVerdict` | `ConnectBlock` rejects a block it has accepted before (a payee or budget rule that depends on the time) | `BestChainActiveTheorem`, `CheckBlockIndexTheorem` |
  | `InOrder` | `reconsiderblock` on a descendant of a failed block | the same two |
  | `SoundRestart` | a crash that leaves an index entry on disk with its flags and its ancestor without (it includes `GoodRestart`) | `CheckBlockIndexTheorem` |
  | `RejectsOnTop` | an activation without the lock that disconnects blocks and then meets an invalid one | `CheckBlockIndexTheorem` |
  | `Rewinds = {}` | `DisconnectBlocksAndReprocess` | `CheckBlockIndexTheorem` |

  All of them hold of every behaviour of run `chain_tree`, and all but `SoundRestart` and
  `Rewinds = {}` of every behaviour of `chain_crash`, whose crash can come anywhere and which
  rewinds (`SoundRestart` would fail: index entries are written one by one); TLC has checked them there. They do not restrict in what order headers and blocks
  arrive, which blocks are invalid, when activations interleave or how often blocks are
  invalidated.

  `PruneTheorem`, `ActiveChainValidTheorem` and `NeverExtendsFailedTheorem` rest on the
  invariant `ActInv`: from its choice until it is reached the target of an activation
  is the best candidate and its chain is free of failed blocks, no candidate is worse than the
  tip, and the active chain is good, but for descendants of a block that is being
  invalidated. `ComparatorOrders` shows that `CBlockIndexWorkComparator` is a strict total
  order, `WorkGrows` that a chain has more work than its parts (by the least element of
  a set of numbers, which stands in for an induction).

  `BestChainActiveTheorem` needs `CovInv`: a block that may be chosen and is not a
  candidate was pruned because of a tip, and that tip may since have been disconnected; but
  then it was verified, so (`LastingVerdict`) it is rejected no more, and it, or a better
  one, is still a candidate. Rewinds and restarts do no harm to that.

  `CheckBlockIndexTheorem` asks for more: that no candidate is missing at all, wherever
  the assertions run. `CompleteInv` says which blocks may be missing while an activation
  without the lock is on its way: those it has overtaken. `MarkInv` says that a failed
  block has an invalid ancestor.

* `CoinsCacheProofs`: `FlagsTheorem` (`FlagsSound`), `BatchWriteTheorem`
  (`BatchWriteAssertion`) and `Refinement` (every behaviour of `CoinsCache` is one of
  `Coins`). They hold for any client that uses the views as the actions of
  `CacheNext` do, not only for `ChainCoins`. The invariant `CacheInv` is the two
  properties, the types, and that there is no entry in a closed view: `FlagsSound` alone
  is not inductive, because a commit marks as FRESH every entry the tip did not have, which is
  right only if the view's entry was FRESH, and that is `BatchWriteAssertion`. The argument is entry by entry: `FetchStep`,
  `ModifyStep` and `MergedFacts` are about one transaction, and every step changes one, or all
  by the same rule. What the views answer after each operation is stated in the lemmas
  from `OpenReads` to `CrashReads`, which the refinement and `ChainCoinsProofs` cite.

* `ChainCoinsProofs`: `AssertionsTheorem` (`AssertionsHold`), `OutputsTheorem`, `TipTheorem`
  (`TipRepresentsBest`), `DiskTheorem` (`DiskRepresentsBest`) and `CleanTheorem` (`DisconnectClean`), for every
  tree of blocks and every interleaving with flushes, a failed flush and restarts. The invariant `IInv` says
  that the view shows the reference `CoinsAt` at the point of the block the code has come to (`ViewInv`), that
  tip and database show it at the end of their best blocks (`CoinsInv`), what the undo data of the block being
  connected is so far (`RecordsInv`), and that undo data in the index and on disk has the records of the reference
  for every block from which a disconnect can come, back to the genesis block (`UndoInv`): the tip, the
  block of the database, which a restart goes back to, and between the write of the index and that of the coins
  both. Connecting walks forwards through the points of a block and disconnecting backwards; the lemmas `CoinsSpend`
  and `CoinsAdd` say what one input and one transaction change in the reference, `NotSpentYet` that a transaction is
  not in a block twice, `StillThere` that an input which was found before the transaction is there in its turn,
  and `LikeRestore` that an undo record takes back one spend. That fails for `fCoinStake` (finding `coins_stake_undo`), so
  `Like` compares outputs and heights, and the flags only where `StakesKept` holds: no block spends the last output of a
  coinstake. `AssertionsTheorem` and `OutputsTheorem` (outputs and heights are those of the best block) need no
  such condition; the three theorems about equal coins and a clean disconnect have it as a
  hypothesis, which the instance of run `coins` satisfies and that of `coins_stake_undo` does not.
  `ViewsTheorem` shows that `ChainCoins` takes steps of `CacheNext` only, from which `ChainFlagsTheorem` and `ChainViewsTheorem`
  carry the three theorems of `CoinsCacheProofs` over to it.

* `MasternodeSyncProofs`: `SyncConsistentTheorem`. `SyncConsistent` is inductive as it stands:
  the stages after the masternode list are reached only through `Process`, whose loop
  runs only when the chain is synchronised, and every call that clears
  `fBlockchainSynced` resets the object. `LoopStep` shows what one turn of the loop does to an object.

* `SchedulerProofs`: `QueueTheorem` (`QueueConsistent`), which is inductive, and `AtOrAfterTheorem`
  (`AtOrAfter`), for any number of threads, which needs more (`Kept`): a thread that nobody overtook
  since it began to wait until some time waits for a task that is still in the queue, because only service
  threads take tasks out; so the first task is due when the wait is over. `NotifyOne` and
  `NotifyAll` say what a notification may wake.

* `SwiftTXProofs`: `PoolTheorem` (`PoolConsistent`), `OrphansTheorem` (`OrphansConsistent`), `LocksTheorem`
  (`LocksConsistent`) and the action property `RemovalTheorem` (`NoNeedlessRemoval`), for the pool composed with
  the locks. In the middle of a block the pool does not agree with the coins, so the
  invariant says where it may not: `Connecting`, `InputsFed` and `AllMature` allow an exception for the
  transactions of the block that the handler has not reached yet (`Rest`), which are in an order in which
  each only spends what is before it. `ConnectChain` and `DisconnectChain` show that
  the chain stays valid; `Accepted` that a transaction the pool takes is not in the chain, although
  `AcceptToMemoryPool` only looks for an unspent output of it. `DescendantsOf` characterises the set
  that a removal takes along. For the locks, `LocksGood` says that each vote of a masternode in a lock
  is one that was seen, once, and for one height.

* `BlockDownloadProofs`: `BookkeepingTheorem` (`BookkeepingExact`), `StallerTheorem`
  (`StallerOwesBlock`) and `CommonTheorem` (`CommonIsFull`). The invariant adds to these that the tip has the data of all
  its ancestors (`TreeInv`), so that the first guess of `pindexLastCommonBlock` does
  (`CommonStartFull`), and `QueueInv`, without which the type of `nQueuedValidatedHeaders` is not inductive.
  `FindNextWalked` is about the walk of `FindNextBlocksToDownload`: whatever the height it has come to, the
  last common block is full, the blocks found are distinct, not in flight and no more than
  there is room for, and the staller is another peer that owes a block. The walk, `Keep`, `Without` and `Concat`
  are functions defined by recursion over numbers; what they return is proved by `Induction` and
  `Recursion`, two lemmas in which the induction hypothesis is a set for each number, so that they follow from the least
  element of a set of numbers and can be cited by the provers.

The inductive invariants were checked by TLC before they were proved.

Only model-checked:

* the five properties of `ChainState` above where their conditions do not hold, as
  `BestChainActive` in behaviours in which a verified block is rejected later: there some
  fail, and TLC decides for the instance;
* everything that depends on fairness, which is out of the reach of the provers, like `ENABLED`:
  the liveness properties of all runs.

## Not modelled

* In `ChainState`: the rules of a block's validity; `pindexBestInvalid`,
  `pindexBestHeader` and fork warnings; checkpoints and the branch of `AcceptBlock`
  that reconsiders a block because of one; stored blocks that no longer match their
  header (`CorruptionPossible`: rejected without a mark, so that the activation would
  choose them again, and `LockReleased` would not hold); failed disk writes (they abort the node,
  as a crash at that point does); a power failure that loses database writes already
  made (the block tree database is synced before the coins are written); what the
  node does after it has loaded an incomplete index; invalidation of the genesis
  block; `DisconnectBlockAndInputs`, which nothing calls; reindexing and import.
* In `ChainCoins`: scripts, amounts and zerocoins; `VerifyDB` beyond level 3, and its
  checks of blocks; repeated transactions exempt from BIP30.
* In `Mempool`: fees, priorities, the fee estimator, zerocoin spends,
  `mempool.check` itself (it is the property).
* In `SwiftTX`: `mapUnknownVotes`, which only limits relaying; signatures and ranks.
* In `BlockDownload`: getblocks, ban scores, message transfer.
* In `MasternodeSync`: regtest, the counts of "ssc" messages; what else the read after the
  end of the map of broadcasts may do (`masternodeman.cpp:329`).
* Not modelled as components: the block and undo files (next in the plan), masternode
  payments and budget, the masternode list and pings, spork messages, Obfuscation, the wallet,
  network, HTTP server and RPC, zerocoin and accumulators (cryptographic arithmetic), the staking
  kernel, proof of work and mining (numeric rules), the user interface, tools and vendored
  libraries. `PROJECT.json` gives the reason for each.

## Plan

1. `BlockFiles`: positions in block and undo files, `FlushBlockFile` and what a
   power failure loses, composed with the order of `FlushStateToDisk`; abstract
   promise: an index entry on disk refers to synced data.
2. The life of a masternode list entry; budget votes and orphans; payments.
3. Proofs: weaker conditions for `CheckBlockIndexTheorem` (rewinds after which the
   old chain comes back as a whole), and the modules of items 1 and 2.
