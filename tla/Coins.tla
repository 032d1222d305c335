------------------------------- MODULE Coins -------------------------------
(***************************************************************************)
(* What the coins views promise to the rest of the node: three versions of *)
(* one table of unspent outputs, each with the block it stands for.        *)
(*   working    what a block being connected or disconnected reads;        *)
(*   committed  what pcoinsTip answers: the state of the active chain;     *)
(*   disk       what a restart finds.                                      *)
(* There are no caches and no flags here. CoinsCache implements it.        *)
(***************************************************************************)
CONSTANTS
    TxIds,      \* transaction ids
    Values,     \* what is left unspent of a transaction
    Pruned,     \* nothing is left, or the transaction is not known
    Hashes      \* block hashes

VARIABLES
    working, workingBest,
    committed, committedBest,
    disk, diskBest,
    open        \* a view is being worked on

vars == <<working, workingBest, committed, committedBest, disk, diskBest, open>>

Table == [TxIds -> Values \cup {Pruned}]

Init ==
    /\ disk \in Table
    /\ diskBest \in Hashes
    /\ committed = disk /\ committedBest = diskBest
    /\ working = disk /\ workingBest = diskBest
    /\ open = FALSE

Open ==
    /\ ~open
    /\ open' = TRUE
    /\ UNCHANGED <<working, workingBest, committed, committedBest, disk, diskBest>>

Modify(t, c) ==
    /\ open
    /\ working' = [working EXCEPT ![t] = c]
    /\ UNCHANGED <<workingBest, committed, committedBest, disk, diskBest, open>>

SetBest(h) ==
    /\ open
    /\ workingBest' = h
    /\ UNCHANGED <<working, committed, committedBest, disk, diskBest, open>>

Commit ==
    /\ open
    /\ open' = FALSE
    /\ committed' = working /\ committedBest' = workingBest
    /\ UNCHANGED <<working, workingBest, disk, diskBest>>

Discard ==
    /\ open
    /\ open' = FALSE
    /\ working' = committed /\ workingBest' = committedBest
    /\ UNCHANGED <<committed, committedBest, disk, diskBest>>

Flush ==
    /\ ~open
    /\ disk' = committed /\ diskBest' = committedBest
    /\ UNCHANGED <<working, workingBest, committed, committedBest, open>>

\* A write that fails forgets the committed coins and keeps their block hash.
FlushFails ==
    /\ ~open
    /\ committed' = disk /\ working' = disk
    /\ UNCHANGED <<workingBest, committedBest, disk, diskBest, open>>

Crash ==
    /\ committed' = disk /\ committedBest' = diskBest
    /\ working' = disk /\ workingBest' = diskBest
    /\ open' = FALSE
    /\ UNCHANGED <<disk, diskBest>>

Next ==
    \/ Open \/ Commit \/ Discard \/ Flush \/ FlushFails \/ Crash
    \/ \E t \in TxIds, c \in Values \cup {Pruned} : Modify(t, c)
    \/ \E h \in Hashes : SetBest(h)

Spec == Init /\ [][Next]_vars
============================================================================
