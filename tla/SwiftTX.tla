------------------------------- MODULE SwiftTX -------------------------------
(***************************************************************************)
(* Transaction locks (swifttx.cpp) on top of the memory pool: requests     *)
(* ("ix"), masternode votes ("txlvote"), the locked inputs that            *)
(* AcceptToMemoryPool and CheckBlock consult, and the removal of old locks *)
(* by the Obfuscation thread. The message thread, the threads that hold    *)
(* cs_main (Mempool's job) and the Obfuscation thread interleave; the maps *)
(* of this file have no lock of their own, and each access to them is one  *)
(* step here. mapUnknownVotes, which only limits relaying, is left out.    *)
(*                                                                         *)
(* Some definitions have a variant just before them that nothing uses      *)
(* (CreateNewLockRenews before CreateNewLock): the definition with a       *)
(* plausible programming error, kept to confirm that the properties notice *)
(* it.                                                                     *)
(***************************************************************************)
EXTENDS Mempool, FiniteSetsExt

CONSTANTS
    Requests,       \* transactions that locks are asked and voted for
    Masternodes,
    Self,           \* this node's masternode, or a value outside Masternodes
    Quorum,         \* <<mn, height>>: mn ranks in the top SWIFTTX_SIGNATURES_TOTAL
    VoteHeights,    \* heights that votes name
    SIGNATURES_REQUIRED,
    MinAge,         \* confirmations the inputs need, 5
    Life,           \* ticks until a lock expires
    Window,         \* ticks for which ReprocessBlocks reconsiders a refused block
    EmptyTx, NoLock, NoMessage

VARIABLES
    mapTxLockReq,           \* requests: the transaction, EmptyTx, or NoTx when absent
    mapTxLockReqRejected,
    mapTxLockVote,          \* votes seen, by <<mn, transaction>>: their hash leaves the height out
    mapTxLocks,             \* nBlockHeight, vecConsensusVotes as a bag, ticks to nExpiration
    message                 \* the "ix" between CreateNewLock and AcceptToMemoryPool

lockVars == <<mapTxLockReq, mapTxLockReqRejected, mapTxLockVote, mapTxLocks, message>>
vars == <<memVars, lockVars>>

ASSUME LockAssumption ==
    /\ EmptyTx \notin Txs /\ EmptyTx # NoTx
    /\ 0 \notin VoteHeights /\ VoteHeights \subseteq Nat
    /\ Requests \subseteq Txs \ Generated
    /\ MinAge \in Nat
    /\ Life \in Nat \ {0} /\ Window \in Nat

Voters == Masternodes \X VoteHeights
NewLock(h) == [height |-> h, votes |-> [v \in Voters |-> 0], left |-> Life]
Exists(t) == mapTxLocks[t] # NoLock

CountSignatures(lock) ==
    IF lock.height = 0 THEN -1
    ELSE MapThenSumSet(LAMBDA v : lock.votes[v], {v \in Voters : v[2] = lock.height})

IsComplete(lock) == CountSignatures(lock) >= SIGNATURES_REQUIRED

\* mapTxLockReq.insert
Insert(req, t) == IF req[t] = NoTx THEN [req EXCEPT ![t] = t] ELSE req

\* The inputs of what mapTxLockReq holds: none of a placeholder.
ReqInputs(r) == IF r \in Txs THEN Inputs(r) ELSE {}

-----------------------------------------------------------------------------
(* CreateNewLock *)

\* GetInputAge, -1 for an output that is unknown or still in the pool
InputAge(o) ==
    IF o[1] \in mapTx \/ ~HaveCoins(o[1]) THEN -1 ELSE TipHeight + 1 - Height(o[1])

\* 0 when an input is too new; else a height fixed by the first input
LockHeight(t) ==
    IF \E o \in Inputs(t) : InputAge(o) < MinAge THEN 0
    ELSE TipHeight - InputAge(Vin[t][1]) + 4

CreateNewLockRenews(t, h) ==
    IF h = 0 THEN mapTxLocks ELSE [mapTxLocks EXCEPT ![t] = NewLock(h)]

CreateNewLock(t, h) ==
    CASE h = 0 -> mapTxLocks
      [] h # 0 /\ ~Exists(t) -> [mapTxLocks EXCEPT ![t] = NewLock(h)]
      [] OTHER -> [mapTxLocks EXCEPT ![t].height = h]

-----------------------------------------------------------------------------
(* CheckForConflictingLocks, for a request r, with the inputs locked as given *)

Conflicting(r, locked) == \E o \in ReqInputs(r) : locked[o] \notin {NoTx, r}

\* Both locks expire now. The code stops at the first conflicting input.
Cancel(r, locked, locks) ==
    LET first == CHOOSE k \in DOMAIN Vin[r] :
            /\ locked[Vin[r][k]] \notin {NoTx, r}
            /\ \A l \in 1..(k - 1) : locked[Vin[r][l]] \in {NoTx, r}
    IN  [t \in Txs |-> IF t \in {r, locked[Vin[r][first]]} /\ locks[t] # NoLock
                       THEN [locks[t] EXCEPT !.left = 0] ELSE locks[t]]

\* inputs of r that nobody holds, locked for t
LockFree(r, t) ==
    [o \in Outpoints |-> IF o \in ReqInputs(r) /\ mapLockedInputs[o] = NoTx THEN t ELSE mapLockedInputs[o]]

\* ReprocessBlocks: refused blocks are reconsidered; the blocks it disconnects
\* and connects again are later DisconnectTip and ConnectTip steps.
ReprocessBlocks ==
    /\ failed' = {b \in failed : mapRejectedBlocks[b] > Window}
    /\ UNCHANGED mapRejectedBlocks

-----------------------------------------------------------------------------
(* The "ix" message *)

IxMessage(t) ==
    /\ message = NoMessage
    /\ mapTxLockReq[t] = NoTx /\ t \notin mapTxLockReqRejected
    /\ message' = [tx |-> t, height |-> LockHeight(t)]
    /\ mapTxLocks' = CreateNewLock(t, LockHeight(t))
    /\ UNCHANGED <<memVars, mapTxLockReq, mapTxLockReqRejected, mapTxLockVote>>

\* DoConsensusVote: this node's vote is announced, and not counted here.
OwnVote(t, h) == IF <<Self, h>> \in Quorum THEN {<<Self, t>>} ELSE {}

IxAccepted ==
    /\ message # NoMessage /\ Free
    /\ LET t == message.tx IN
        /\ Verdict(t) = "accepted"
        /\ addUnchecked(t)
        /\ mapTxLockVote' = mapTxLockVote \cup OwnVote(t, message.height)
        /\ mapTxLockReq' = Insert(mapTxLockReq, t)
    /\ message' = NoMessage
    /\ UNCHANGED <<chain, mapLockedInputs, orphanVars, job, blockVars, mapTxLockReqRejected, mapTxLocks>>

\* The pool refuses the transaction: its free inputs are locked all the same,
\* and a lock that is complete already makes it a request.
IxRejected ==
    /\ message # NoMessage /\ Free
    /\ LET t == message.tx  locked == LockFree(t, t) IN
        /\ mapTxLockReqRejected' = mapTxLockReqRejected \cup {t}
        /\ mapLockedInputs' = locked
        /\ IF ~Exists(t) \/ ~IsComplete(mapTxLocks[t])
           THEN UNCHANGED <<mapTxLocks, mapTxLockReq, blockVars>>
           ELSE IF Conflicting(t, locked)
           THEN mapTxLocks' = Cancel(t, locked, mapTxLocks) /\ UNCHANGED <<mapTxLockReq, blockVars>>
           ELSE ReprocessBlocks /\ mapTxLockReq' = Insert(mapTxLockReq, t) /\ UNCHANGED mapTxLocks
    /\ message' = NoMessage
    /\ UNCHANGED <<chain, poolVars, orphanVars, job, mapTxLockVote>>

\* sendrawtransaction with swifttx set: the request is recorded before the pool
\* is asked, and stays whatever it answers.
RpcIx(t) ==
    /\ Free
    /\ ~HaveCoins(t)
    /\ mapTxLockReq' = Insert(mapTxLockReq, t)
    /\ mapTxLocks' = CreateNewLock(t, LockHeight(t))
    /\ \E answer \in Answers(t) :
        IF answer = "accepted" THEN addUnchecked(t) ELSE UNCHANGED poolVars
    /\ UNCHANGED <<chain, mapLockedInputs, orphanVars, job, blockVars,
                   mapTxLockReqRejected, mapTxLockVote, message>>

\* RelayWalletTransaction("ix") for a transaction already in the pool
WalletIx(t) ==
    /\ Free /\ t \in mapTx
    /\ mapTxLockReq' = Insert(mapTxLockReq, t)
    /\ mapTxLocks' = CreateNewLock(t, LockHeight(t))
    /\ UNCHANGED <<memVars, mapTxLockReqRejected, mapTxLockVote, message>>

-----------------------------------------------------------------------------
(* The "txlvote" message. The vote counts as seen before it is looked at. *)

Seen(m, t) == <<m, t>> \in mapTxLockVote

VoteInvalid(m, t) ==
    /\ message = NoMessage /\ ~Seen(m, t)
    /\ mapTxLockVote' = mapTxLockVote \cup {<<m, t>>}
    /\ UNCHANGED <<memVars, mapTxLockReq, mapTxLockReqRejected, mapTxLocks, message>>

\* the lock of t with the vote, made without a height if there was none
AddSignature(t, v) ==
    LET lock == IF Exists(t) THEN mapTxLocks[t] ELSE NewLock(0) IN
    [mapTxLocks EXCEPT ![t] = [lock EXCEPT !.votes[v] = @ + 1]]

\* A lock that has its signatures looks its request up with operator[], which
\* leaves a placeholder for a request that is not there.
Complete(t, locks) ==
    LET r == IF mapTxLockReq[t] = NoTx THEN EmptyTx ELSE mapTxLockReq[t] IN
    /\ mapTxLockReq' = [mapTxLockReq EXCEPT ![t] = r]
    /\ IF Conflicting(r, mapLockedInputs)
       THEN mapTxLocks' = Cancel(r, mapLockedInputs, locks) /\ UNCHANGED <<mapLockedInputs, blockVars>>
       ELSE /\ mapTxLocks' = locks
            /\ mapLockedInputs' = LockFree(r, t)
            /\ IF t \in mapTxLockReqRejected THEN ReprocessBlocks ELSE UNCHANGED blockVars

Vote(m, t, h) ==
    /\ message = NoMessage /\ ~Seen(m, t)
    /\ <<m, h>> \in Quorum
    /\ mapTxLockVote' = mapTxLockVote \cup {<<m, t>>}
    /\ LET locks == AddSignature(t, <<m, h>>) IN
        IF IsComplete(locks[t]) THEN Complete(t, locks)
        ELSE mapTxLocks' = locks /\ UNCHANGED <<mapTxLockReq, mapLockedInputs, blockVars>>
    /\ UNCHANGED <<chain, poolVars, orphanVars, job, mapTxLockReqRejected, message>>

-----------------------------------------------------------------------------
(* Time, and the Obfuscation thread *)

Tick ==
    /\ mapTxLocks' = [t \in Txs |-> IF Exists(t) /\ mapTxLocks[t].left >= 0
                                    THEN [mapTxLocks[t] EXCEPT !.left = @ - 1] ELSE mapTxLocks[t]]
    /\ mapRejectedBlocks' = [b \in DOMAIN mapRejectedBlocks |->
            IF mapRejectedBlocks[b] > Window THEN Window + 1 ELSE mapRejectedBlocks[b] + 1]
    /\ UNCHANGED <<chain, poolVars, mapLockedInputs, orphanVars, job, failed,
                   mapTxLockReq, mapTxLockReqRejected, mapTxLockVote, message>>

Expired == {t \in Txs : Exists(t) /\ mapTxLocks[t].left < 0}

CleanVotesAlways ==
    /\ Expired # {}
    /\ LET gone == {t \in Expired : mapTxLockReq[t] # NoTx} IN
        /\ mapLockedInputs' = [o \in Outpoints |->
                IF \E t \in gone : o \in ReqInputs(mapTxLockReq[t]) THEN NoTx ELSE mapLockedInputs[o]]
        /\ mapTxLockReq' = [t \in Txs |-> IF t \in gone THEN NoTx ELSE mapTxLockReq[t]]
        /\ mapTxLockReqRejected' = mapTxLockReqRejected \ gone
        /\ mapTxLockVote' = {v \in mapTxLockVote : ~\E t \in Expired : v[2] = t}
    /\ mapTxLocks' = [t \in Txs |-> IF t \in Expired /\ mapTxLockReq[t] # NoTx THEN NoLock ELSE mapTxLocks[t]]
    /\ UNCHANGED <<chain, poolVars, orphanVars, job, blockVars, message>>

CleanTransactionLocksList ==
    /\ Expired # {}
    /\ LET gone == {t \in Expired : mapTxLockReq[t] # NoTx}
           counted(v) == v[2] \in gone /\
               \E h \in VoteHeights : v[1] \in Masternodes /\ mapTxLocks[v[2]].votes[v[1], h] > 0
       IN
        /\ mapLockedInputs' = [o \in Outpoints |->
                IF \E t \in gone : o \in ReqInputs(mapTxLockReq[t]) THEN NoTx ELSE mapLockedInputs[o]]
        /\ mapTxLockReq' = [t \in Txs |-> IF t \in gone THEN NoTx ELSE mapTxLockReq[t]]
        /\ mapTxLockReqRejected' = mapTxLockReqRejected \ gone
        /\ mapTxLockVote' = {v \in mapTxLockVote : ~counted(v)}
    /\ mapTxLocks' = [t \in Txs |-> IF t \in Expired THEN NoLock ELSE mapTxLocks[t]]
    /\ UNCHANGED <<chain, poolVars, orphanVars, job, blockVars, message>>

-----------------------------------------------------------------------------

Init ==
    /\ MemInit
    /\ mapTxLockReq = [t \in Txs |-> NoTx]
    /\ mapTxLockReqRejected = {}
    /\ mapTxLockVote = {}
    /\ mapTxLocks = [t \in Txs |-> NoLock]
    /\ message = NoMessage

Next ==
    \/ MemNext /\ UNCHANGED lockVars
    \/ \E t \in Requests : IxMessage(t) \/ RpcIx(t) \/ WalletIx(t)
    \/ IxAccepted
    \/ IxRejected
    \/ \E m \in Masternodes, t \in Requests : VoteInvalid(m, t) \/ \E h \in VoteHeights : Vote(m, t, h)
    \/ Tick
    \/ CleanTransactionLocksList

Spec == Init /\ [][Next]_vars

\* The handler that holds cs_main runs on, time passes, and the Obfuscation
\* thread cleans up every minute.
FairSpec ==
    /\ Spec
    /\ WF_vars(Handler /\ UNCHANGED lockVars)
    /\ WF_vars(Tick)
    /\ WF_vars(CleanTransactionLocksList)

-----------------------------------------------------------------------------
(* Properties *)

Lock == [height : Nat, votes : [Voters -> Nat], left : -1..Life]

TypeOK ==
    /\ MemTypeOK
    /\ mapTxLockReq \in [Txs -> Txs \cup {EmptyTx, NoTx}]
    /\ mapTxLockReqRejected \subseteq Txs
    /\ mapTxLockVote \subseteq (Masternodes \cup {Self}) \X Txs
    /\ mapTxLocks \in [Txs -> Lock \cup {NoLock}]
    /\ message \in [tx : Txs, height : Nat] \cup {NoMessage}

\* A masternode is counted at most once in a lock, however often its vote is
\* relayed, whatever heights its votes name and however often the lock is made
\* and cleaned up again: without this one masternode could complete a lock.
VotesOnce ==
    \A t \in Txs : Exists(t) => \A m \in Masternodes : \A g, h \in VoteHeights :
        /\ mapTxLocks[t].votes[<<m, h>>] <= 1
        /\ mapTxLocks[t].votes[<<m, g>>] > 0 /\ mapTxLocks[t].votes[<<m, h>>] > 0 => g = h

\* Types, and one vote per masternode.
LocksConsistent == TypeOK /\ VotesOnce

\* "locks expire after 60 minutes" (swifttx.cpp:250): every lock is removed in the
\* end, whatever votes, requests and conflicts it still gets.
LocksExpire == \A t \in Requests : Exists(t) ~> ~Exists(t)

\* The handlers that hold cs_main come to an end: a transaction cannot keep the
\* orphan queue going.
HandlersEnd == ~Free ~> Free

\* "only reject blocks when it's based on complete consensus" (main.cpp:4525): the
\* transaction a refused block conflicts with has a complete lock.
RejectsOnConsensus ==
    [][\A b \in DOMAIN mapRejectedBlocks' \ DOMAIN mapRejectedBlocks :
        \E k \in DOMAIN b : \E o \in Inputs(b[k]) :
            LET t == mapLockedInputs[o] IN t \notin {NoTx, b[k]} /\ Exists(t) /\ IsComplete(mapTxLocks[t])]_vars
=============================================================================
