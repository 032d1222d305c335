-------------------------- MODULE ChainStateProofs --------------------------
(***************************************************************************)
(* For every block tree, every set of invalid blocks and any number of     *)
(* crashes: the types, the linked part of the block index, and that the    *)
(* databases can always be recovered from; then, under conditions that are *)
(* named below, that activations end on the best chain, that no failed     *)
(* block is active, and what CheckBlockIndex asserts.                      *)
(*                                                                         *)
(* DiskRecoverable speaks of the disk only, and is not inductive: the      *)
(* flush copies memory to disk, so IInv says what memory holds (the active *)
(* chain and the coins' chain are linked and have undo data) and how the   *)
(* disk lags behind it (what is on disk is true, and only dirty entries    *)
(* are missing there).  DropCandidate disturbs mapBlocksUnlinked in a way  *)
(* LinkedTree forbids, except that the candidates are all linked.          *)
(*                                                                         *)
(* Three more invariants rest on IInv.  ActInv follows an activation: its  *)
(* target is the best candidate and free of failed blocks from the choice  *)
(* until it is reached.  CovInv says why leaving a block out of the        *)
(* candidates loses nothing: some candidate that is at least as good and   *)
(* has been verified, and so will not be rejected, covers it.  MarkInv and *)
(* CompleteInv say what CheckBlockIndex wants to see of the flags and the  *)
(* candidates, and what may be missing while an activation is at work.     *)
(***************************************************************************)
EXTENDS ChainState, FiniteSetTheorems, WellFoundedInduction, TLAPS

(* The flags that are only ever set, never cleared. *)
Lasting == {"tree", "data", "undo"}

ControlConsistent ==
  /\ job = "none" => phase = "run" /\ target = Genesis
  /\ phase \in {"accepted", "find", "step", "finish"} => job = "activate"
  /\ job # "invalidate" => target \in linked

TipsLinked == Genesis \in linked /\ tip \in linked /\ coins \in linked

UndoActive ==
  \A a \in (Path[tip] \cup Path[coins]) \ {Genesis} : "undo" \in nStatus[a]

DiskTruthful ==
  /\ \A b \in Blocks : diskStatus[b] \cap Lasting \subseteq nStatus[b]
  /\ "data" \in diskStatus[Genesis]

CleanWritten ==
  \A b \in Blocks \ dirty : nStatus[b] \cap Lasting \subseteq diskStatus[b]

IInv ==
  /\ TypeOK
  /\ LinkedTree
  /\ ControlConsistent
  /\ TipsLinked
  /\ UndoActive
  /\ DiskTruthful
  /\ CleanWritten
  /\ DiskRecoverable

-----------------------------------------------------------------------------
(* What some theorems suppose of a behaviour.  Each names something the     *)
(* code does not prevent, after which the property may fail.                *)

(* No block of b's chain is marked as failed. *)
Good(b) == \A a \in Path[b] : ~Failed(a)

FailedMask ==
  \A b \in Blocks : Failed(b) => \E a \in Path[b] : "failedValid" \in nStatus[a]

ScriptsMask ==
  \A b \in Blocks : "undo" \in nStatus[b] => \A a \in Path[b] \ {Genesis} : "undo" \in nStatus[a]

(* A restart loads a tip whose chain is free of failed blocks: no crash has *)
(* come between the two database writes of an invalidation.                 *)
GoodRestart == crashes' # crashes => Good(tip)'

(* ... and flags that were written together: an entry is not on disk with   *)
(* its flags and the ancestor they depend on without its own.               *)
SoundRestart == crashes' # crashes => (Good(tip) /\ FailedMask /\ ScriptsMask)'

(* ConnectBlock does not reject a block it has accepted before. *)
LastingVerdict == \A b \in Blocks : StepReject(b) => "undo" \notin nStatus[b]

(* ReconsiderBlock is called on a block whose ancestors are not failed.     *)
InOrder ==
  (\E b \in Blocks : ReconsiderBlock(b)) =>
    \E b \in Blocks : ReconsiderBlock(b) /\ \A a \in Path[b] \ {b} : ~Failed(a)

(* An activation that releases cs_main between its steps has disconnected   *)
(* nothing when a block is rejected.                                        *)
RejectsOnTop == \A b \in Blocks : StepReject(b) => held \/ oldTip \in Path[tip]

-----------------------------------------------------------------------------
(* The block tree.                                                          *)

(* A block is on its own path, its path is its parent's and itself, and     *)
(* paths are transitive.                                                    *)
LEMMA PathFacts ==
  /\ \A b \in Blocks : b \in Path[b] /\ Path[b] \subseteq Blocks
  /\ \A b \in Blocks : \A a \in Path[b] : Path[a] \subseteq Path[b]
  /\ \A b \in Blocks \ {Genesis} :
       /\ Parent[b] \in Blocks /\ Parent[b] \in Path[b]
       /\ b \notin Path[Parent[b]]
       /\ Path[b] = Path[Parent[b]] \cup {b}
  /\ Path[Genesis] = {Genesis} /\ Genesis \in Blocks
<1>1. \A b \in Blocks \ {Genesis} : Parent[b] \in Blocks
  BY TreeAssumption
<1>2. \A b \in Blocks : b \in Path[b]
  BY TreeAssumption
<1>3. \A b \in Blocks \ {Genesis} : Parent[b] \in Path[b]
  BY <1>1, <1>2, TreeAssumption
<1>4. QED
  BY <1>1, <1>2, <1>3, TreeAssumption

(* Two different blocks are not on each other's paths. *)
LEMMA PathAntisymmetric ==
  ASSUME NEW b \in Blocks, NEW d \in Blocks, b \in Path[d], b # d
  PROVE  d \notin Path[b]
<1>1. d # Genesis
  BY PathFacts
<1>2. b \in Path[Parent[d]] /\ d \notin Path[Parent[d]] /\ Parent[d] \in Blocks
  BY <1>1, PathFacts
<1>3. Path[b] \subseteq Path[Parent[d]]
  BY <1>2, PathFacts
<1>4. QED
  BY <1>2, <1>3

(* A finite set of linked blocks is numbered with natural numbers. *)
LEMMA NewIsFinite ==
  ASSUME NEW new \in SUBSET Blocks
  PROVE  Cardinality(new) \in Nat
BY TreeAssumption, FS_Subset, FS_CardinalityType

-----------------------------------------------------------------------------
(* Receiving a block.                                                       *)

(* LinkedTree is kept when the parent of b is linked: b and the blocks that *)
(* were only waiting for it become linked, and leave mapBlocksUnlinked.     *)
LEMMA LinkingKeepsTree ==
  ASSUME IInv, NEW b \in Blocks, ~HasData(b), Parent[b] \in linked,
         nStatus' = [nStatus EXCEPT ![b] = @ \cup {"tree", "data"}],
         LinkBlocks(NewlyLinked(b))
  PROVE  LinkedTree'
<1> DEFINE new == NewlyLinked(b)
<1>g. b # Genesis
  BY PathFacts DEF IInv, TipsLinked, LinkedTree, HasData
<1>d. \A d \in Blocks : HasData(d)' <=> HasData(d) \/ d = b
  BY DEF IInv, TypeOK, HasData
<1>n. new \subseteq Blocks
  BY DEF NewlyLinked, IInv, TypeOK
<1>p. Parent[b] \in Blocks /\ \A a \in Path[Parent[b]] : HasData(a)
  BY <1>g, PathFacts DEF IInv, LinkedTree
<1>1. ASSUME NEW d \in new PROVE \A a \in Path[d] : HasData(a)'
  <2>1. d \in Blocks /\ Path[d] \ Path[b] \subseteq unlinked
    BY <1>n DEF NewlyLinked
  <2>2. \A a \in Path[d] \ Path[b] : HasData(a)
    BY <2>1 DEF IInv, LinkedTree
  <2>3. Path[b] = Path[Parent[b]] \cup {b}
    BY <1>g, PathFacts
  <2>4. \A a \in Path[d] : a \in Blocks
    BY <2>1, PathFacts
  <2>5. QED
    BY <1>p, <1>d, <2>2, <2>3, <2>4
<1>2. ASSUME NEW d \in Blocks, b \in Path[d], \A a \in Path[d] : HasData(a)'
      PROVE  d \in new
  <2>1. ASSUME NEW e \in Path[d] \ Path[b] PROVE e \in unlinked
    <3>1. e \in Blocks /\ e # b
      BY PathFacts
    <3>2. HasData(e)
      BY <1>d, <1>2, <3>1
    <3>3. b \in Path[e]
      BY <1>2, TreeAssumption
    <3>4. e # Genesis
      BY <1>g, <3>3, PathFacts
    <3>5. b \in Path[Parent[e]] /\ Parent[e] \in Blocks
      BY <3>1, <3>3, <3>4, PathFacts
    <3>6. Parent[e] \notin linked
      BY <3>5 DEF IInv, LinkedTree
    <3>7. QED
      BY <3>1, <3>2, <3>4, <3>6 DEF IInv, LinkedTree
  <2>2. d = b \/ d \in Path[d] \ Path[b]
    BY <1>2, PathFacts, PathAntisymmetric
  <2>3. Path[d] \ Path[b] \subseteq unlinked /\ d \in unlinked \cup {b}
    BY <2>1, <2>2
  <2>4. QED
    BY <1>2, <2>3 DEF NewlyLinked
<1>3. linked' = linked \cup new
  BY DEF LinkBlocks
<1>4. linked' = {d \in Blocks : \A a \in Path[d] : HasData(a)'}
  <2>1. ASSUME NEW d \in linked PROVE d \in Blocks /\ \A a \in Path[d] : HasData(a)'
    BY <1>d, PathFacts DEF IInv, LinkedTree
  <2>2. ASSUME NEW d \in Blocks, \A a \in Path[d] : HasData(a)', b \notin Path[d]
        PROVE  d \in linked
    <3>1. \A a \in Path[d] : HasData(a)
      BY <1>d, <2>2, PathFacts
    <3>2. QED
      BY <3>1 DEF IInv, LinkedTree
  <2>3. QED
    BY <1>1, <1>2, <1>3, <1>n, <2>1, <2>2
<1>5. unlinked' = {d \in Blocks \ {Genesis} : HasData(d)' /\ Parent[d] \notin linked'}
  <2>1. ASSUME NEW d \in unlinked \ new
        PROVE  d \in Blocks \ {Genesis} /\ HasData(d)' /\ Parent[d] \notin linked'
    <3>1. d \in Blocks \ {Genesis} /\ HasData(d) /\ Parent[d] \notin linked
      BY DEF IInv, LinkedTree
    <3>2. ASSUME Parent[d] \in new PROVE FALSE
      <4>1. b \in Path[Parent[d]] /\ Path[Parent[d]] \ Path[b] \subseteq unlinked
        BY <3>2 DEF NewlyLinked
      <4>2. Path[d] = Path[Parent[d]] \cup {d}
        BY <3>1, PathFacts
      <4>3. QED
        BY <4>1, <4>2 DEF NewlyLinked
    <3>3. QED
      BY <1>3, <1>d, <3>1, <3>2
  <2>2. ASSUME NEW d \in Blocks \ {Genesis}, HasData(d)', Parent[d] \notin linked'
        PROVE  d \in unlinked \ new
    <3>1. Parent[d] \notin linked /\ d # b
      BY <1>3, <2>2
    <3>2. d \in unlinked
      BY <1>d, <2>2, <3>1 DEF IInv, LinkedTree
    <3>3. ASSUME d \in new PROVE FALSE
      <4>1. \A a \in Path[Parent[d]] : HasData(a)'
        BY <1>1, <3>3, PathFacts
      <4>2. QED
        BY <1>4, <2>2, <4>1, PathFacts
    <3>4. QED
      BY <3>2, <3>3
  <2>3. unlinked' = unlinked \ new
    BY DEF LinkBlocks
  <2>4. QED
    BY <2>1, <2>2, <2>3
<1>6. candidates' \subseteq linked'
  BY <1>3 DEF LinkBlocks, Worthy, IInv, LinkedTree
<1>7. \A d \in Blocks : seq'[d] # 0 => d \in linked'
  <2>1. PICK f \in Numberings(new) : seq' = [d \in Blocks |-> IF d \in new THEN f[d] ELSE seq[d]]
    BY DEF LinkBlocks
  <2>2. QED
    BY <1>3, <2>1 DEF IInv, LinkedTree
<1>8. QED
  BY <1>4, <1>5, <1>6, <1>7 DEF LinkedTree

(* When b has to wait for its parent, no block becomes linked. *)
LEMMA WaitingKeepsTree ==
  ASSUME IInv, NEW b \in Blocks, ~HasData(b), Parent[b] \notin linked,
         nStatus' = [nStatus EXCEPT ![b] = @ \cup {"tree", "data"}],
         unlinked' = unlinked \cup {b},
         UNCHANGED <<linked, seq, nextSeq, candidates>>
  PROVE  LinkedTree'
<1>g. b # Genesis
  BY PathFacts DEF IInv, TipsLinked, LinkedTree, HasData
<1>d. \A d \in Blocks : HasData(d)' <=> HasData(d) \/ d = b
  BY DEF IInv, TypeOK, HasData
<1>1. ASSUME NEW d \in Blocks, b \in Path[d], \A a \in Path[d] : HasData(a)'
      PROVE  FALSE
  <2>1. Parent[b] \in Blocks /\ Path[Parent[b]] \subseteq Path[d] /\ b \notin Path[Parent[b]]
    BY <1>1, <1>g, PathFacts
  <2>2. \A a \in Path[Parent[b]] : HasData(a)
    BY <1>1, <1>d, <2>1, PathFacts
  <2>3. QED
    BY <2>1, <2>2 DEF IInv, LinkedTree
<1>2. linked' = {d \in Blocks : \A a \in Path[d] : HasData(a)'}
  <2>1. ASSUME NEW d \in Blocks, b \notin Path[d]
        PROVE  (\A a \in Path[d] : HasData(a)') <=> (\A a \in Path[d] : HasData(a))
    BY <1>d, <2>1, PathFacts
  <2>2. ASSUME NEW d \in Blocks, b \in Path[d]
        PROVE  d \notin linked
    BY <2>2 DEF IInv, LinkedTree
  <2>3. QED
    BY <1>1, <2>1, <2>2 DEF IInv, LinkedTree
<1>3. unlinked' = {d \in Blocks \ {Genesis} : HasData(d)' /\ Parent[d] \notin linked'}
  BY <1>g, <1>d DEF IInv, LinkedTree
<1>4. candidates' \subseteq linked' /\ \A d \in Blocks : seq'[d] # 0 => d \in linked'
  BY DEF IInv, LinkedTree
<1>5. QED
  BY <1>2, <1>3, <1>4 DEF LinkedTree

-----------------------------------------------------------------------------
(* Steps that write nothing to disk and receive no data.                    *)

(* Marks may be added to entries that become dirty, and failure flags may   *)
(* come and go: the parts of IInv about data and disk are kept.             *)
LEMMA MarksKeepIndex ==
  ASSUME IInv, TypeOK', ControlConsistent', TipsLinked', UndoActive',
         UNCHANGED <<linked, seq, unlinked, diskStatus, diskCoins>>,
         candidates' \subseteq linked, dirty \subseteq dirty',
         \A b \in Blocks : /\ nStatus[b] \cap Lasting \subseteq nStatus'[b]
                           /\ "data" \in nStatus'[b] => "data" \in nStatus[b]
                           /\ b \notin dirty' => nStatus'[b] \cap Lasting \subseteq nStatus[b]
  PROVE  IInv'
<1>1. \A b \in Blocks : HasData(b)' <=> HasData(b)
  BY DEF HasData, Lasting
<1>2. LinkedTree'
  <2>1. linked' = {b \in Blocks : \A a \in Path[b] : HasData(a)'}
    BY <1>1, PathFacts DEF IInv, LinkedTree
  <2>2. unlinked' = {b \in Blocks \ {Genesis} : HasData(b)' /\ Parent[b] \notin linked'}
    BY <1>1 DEF IInv, LinkedTree
  <2>3. QED
    BY <2>1, <2>2 DEF IInv, LinkedTree
<1>3. DiskTruthful'
  BY DEF IInv, DiskTruthful, Lasting
<1>4. CleanWritten'
  BY DEF IInv, CleanWritten, Lasting
<1>5. DiskRecoverable'
  BY DEF IInv, DiskRecoverable
<1>6. QED
  BY <1>2, <1>3, <1>4, <1>5 DEF IInv

(* The case in which the index entries do not change at all, and the tip    *)
(* and the coins stay on chains that were active.                           *)
LEMMA SameIndex ==
  ASSUME IInv, TypeOK', ControlConsistent',
         UNCHANGED <<nStatus, linked, seq, unlinked, dirty, diskStatus, diskCoins>>,
         candidates' \subseteq linked,
         tip' = tip, coins' = coins \/ (tip # Genesis /\ coins' = Parent[tip])
  PROVE  IInv'
<1>1. tip \in Blocks /\ coins \in Blocks
  BY DEF IInv, TypeOK
<1>2. TipsLinked' /\ UndoActive'
  <2>1. CASE coins' = coins
    BY <2>1 DEF IInv, TipsLinked, UndoActive
  <2>2. CASE tip # Genesis /\ coins' = Parent[tip]
    <3>1. coins' \in Blocks /\ Path[coins'] \subseteq Path[tip]
      BY <1>1, <2>2, PathFacts
    <3>2. coins' \in linked
      BY <3>1 DEF IInv, TipsLinked, LinkedTree
    <3>3. QED
      BY <3>1, <3>2 DEF IInv, TipsLinked, UndoActive
  <2>3. QED
    BY <2>1, <2>2
<1>3. QED
  BY <1>2, MarksKeepIndex DEF Lasting

LEMMA AcceptKnownBlockKeeps ==
  ASSUME IInv, NEW b \in Blocks, AcceptKnownBlock(b) PROVE IInv'
<1>1. TypeOK'
  BY DEF AcceptKnownBlock, StartHeldActivation, memory, disk, IInv, TypeOK
<1>2. ControlConsistent'
  BY DEF AcceptKnownBlock, CanAccept, StartHeldActivation, memory, IInv, ControlConsistent
<1>3. QED
  BY <1>1, <1>2, SameIndex DEF AcceptKnownBlock, memory, disk, IInv, LinkedTree

LEMMA ActivateUnheldKeeps == ASSUME IInv, ActivateUnheld PROVE IInv'
<1>1. TypeOK'
  BY DEF ActivateUnheld, memory, disk, IInv, TypeOK
<1>2. ControlConsistent'
  BY DEF ActivateUnheld, memory, IInv, ControlConsistent
<1>3. QED
  BY <1>1, <1>2, SameIndex DEF ActivateUnheld, memory, disk, IInv, LinkedTree

LEMMA AcceptedKeeps == ASSUME IInv, Accepted PROVE IInv'
<1>1. TypeOK'
  BY DEF Accepted, Goto, memory, disk, IInv, TypeOK
<1>2. ControlConsistent'
  BY DEF Accepted, Goto, memory, IInv, ControlConsistent
<1>3. QED
  BY <1>1, <1>2, SameIndex DEF Accepted, memory, disk, IInv, LinkedTree

(* A candidate is linked, so a chosen target is. *)
LEMMA ChooseCandidateKeeps ==
  ASSUME IInv, NEW c \in Blocks, ChooseCandidate(c) PROVE IInv'
<1>1. TypeOK'
  BY DEF ChooseCandidate, memory, disk, IInv, TypeOK
<1>2. c \in linked
  BY DEF ChooseCandidate, IsBest, IInv, LinkedTree
<1>3. ControlConsistent'
  BY <1>2 DEF ChooseCandidate, memory, IInv, ControlConsistent
<1>4. QED
  BY <1>1, <1>3, SameIndex DEF ChooseCandidate, memory, disk, IInv, LinkedTree

LEMMA NothingBetterKeeps == ASSUME IInv, NothingBetter PROVE IInv'
<1>1. TypeOK'
  BY TreeAssumption DEF NothingBetter, ActivationReturns, Release, memory, disk, IInv, TypeOK
<1>2. ControlConsistent'
  BY DEF NothingBetter, ActivationReturns, Release, memory, IInv, ControlConsistent, TipsLinked
<1>3. QED
  BY <1>1, <1>2, SameIndex DEF NothingBetter, memory, disk, IInv, LinkedTree

LEMMA StepDisconnectKeeps == ASSUME IInv, StepDisconnect PROVE IInv'
<1>1. TypeOK'
  BY PathFacts DEF StepDisconnect, DisconnectTip, disk, IInv, TypeOK
<1>2. ControlConsistent'
  BY DEF StepDisconnect, DisconnectTip, IInv, ControlConsistent
<1>3. QED
  BY <1>1, <1>2, SameIndex DEF StepDisconnect, DisconnectTip, disk, IInv, LinkedTree

LEMMA FinishActivationKeeps == ASSUME IInv, FinishActivation PROVE IInv'
<1>1. TypeOK'
  <2>1. CASE ActivationReturns
    BY <2>1, TreeAssumption
    DEF FinishActivation, ActivationReturns, Release, memory, disk, IInv, TypeOK
  <2>2. CASE Goto("flush")
    BY <2>2 DEF FinishActivation, Goto, memory, disk, IInv, TypeOK
  <2>3. QED
    BY <2>1, <2>2 DEF FinishActivation
<1>2. ControlConsistent'
  BY DEF FinishActivation, ActivationReturns, Release, Goto, memory, IInv, ControlConsistent, TipsLinked
<1>3. QED
  BY <1>1, <1>2, SameIndex DEF FinishActivation, memory, disk, IInv, LinkedTree

LEMMA InvalidateReturnsKeeps == ASSUME IInv, InvalidateReturns PROVE IInv'
<1>1. Readmitted \subseteq linked
  BY DEF Readmitted
<1>2. TypeOK'
  BY <1>1, TreeAssumption DEF InvalidateReturns, Release, disk, IInv, TypeOK
<1>3. ControlConsistent'
  BY DEF InvalidateReturns, Release, IInv, ControlConsistent, TipsLinked
<1>4. QED
  BY <1>1, <1>2, <1>3, SameIndex DEF InvalidateReturns, disk, IInv, LinkedTree

LEMMA DisconnectBlocksAndReprocessKeeps ==
  ASSUME IInv, NEW n \in Rewinds, DisconnectBlocksAndReprocess(n) PROVE IInv'
<1>1. TypeOK'
  BY InputAssumption DEF DisconnectBlocksAndReprocess, memory, disk, IInv, TypeOK
<1>2. ControlConsistent'
  BY DEF DisconnectBlocksAndReprocess, memory, IInv, ControlConsistent
<1>3. QED
  BY <1>1, <1>2, SameIndex DEF DisconnectBlocksAndReprocess, memory, disk, IInv, LinkedTree

LEMMA RewindDisconnectKeeps == ASSUME IInv, RewindDisconnect PROVE IInv'
<1>1. TypeOK'
  BY PathFacts DEF RewindDisconnect, MoreToDisconnect, DisconnectTip, disk, IInv, TypeOK
<1>2. ControlConsistent'
  BY DEF RewindDisconnect, DisconnectTip, IInv, ControlConsistent
<1>3. QED
  BY <1>1, <1>2, SameIndex DEF RewindDisconnect, DisconnectTip, disk, IInv, LinkedTree

LEMMA RewindReturnsKeeps == ASSUME IInv, RewindReturns PROVE IInv'
<1>1. TypeOK'
  BY TreeAssumption DEF RewindReturns, Release, memory, disk, IInv, TypeOK
<1>2. ControlConsistent'
  BY DEF RewindReturns, Release, memory, IInv, ControlConsistent, TipsLinked
<1>3. QED
  BY <1>1, <1>2, SameIndex DEF RewindReturns, memory, disk, IInv, LinkedTree

LEMMA FlushRequestedKeeps == ASSUME IInv, FlushRequested PROVE IInv'
<1>1. TypeOK'
  BY DEF FlushRequested, memory, disk, IInv, TypeOK
<1>2. ControlConsistent'
  BY DEF FlushRequested, memory, IInv, ControlConsistent
<1>3. QED
  BY <1>1, <1>2, SameIndex DEF FlushRequested, memory, disk, IInv, LinkedTree

-----------------------------------------------------------------------------
(* Steps that mark index entries.                                           *)

LEMMA AcceptBlockHeaderKeeps ==
  ASSUME IInv, NEW b \in Blocks, AcceptBlockHeader(b) PROVE IInv'
<1>1. TypeOK'
  BY DEF AcceptBlockHeader, disk, control, IInv, TypeOK, Flags
<1>2. ControlConsistent' /\ TipsLinked'
  BY DEF AcceptBlockHeader, control, IInv, ControlConsistent, TipsLinked
<1>3. \A a \in Blocks : nStatus[a] \subseteq nStatus'[a]
  BY DEF AcceptBlockHeader, IInv, TypeOK
<1>4. UndoActive'
  BY <1>3, PathFacts DEF AcceptBlockHeader, IInv, UndoActive, TypeOK
<1>5. \A a \in Blocks : a # b => nStatus'[a] = nStatus[a]
  BY DEF AcceptBlockHeader, IInv, TypeOK
<1>6. nStatus'[b] = nStatus[b] \cup {"tree"} /\ b \in dirty'
  BY DEF AcceptBlockHeader, IInv, TypeOK
<1>7. QED
  BY <1>1, <1>2, <1>3, <1>4, <1>5, <1>6, MarksKeepIndex
  DEF AcceptBlockHeader, disk, IInv, LinkedTree

LEMMA RejectBlockKeeps ==
  ASSUME IInv, NEW b \in Blocks, RejectBlock(b) PROVE IInv'
<1>1. TypeOK'
  BY DEF RejectBlock, disk, control, IInv, TypeOK, Flags
<1>2. ControlConsistent' /\ TipsLinked'
  BY DEF RejectBlock, control, IInv, ControlConsistent, TipsLinked
<1>3. \A a \in Blocks : nStatus[a] \subseteq nStatus'[a]
  BY DEF RejectBlock, IInv, TypeOK
<1>4. UndoActive'
  BY <1>3, PathFacts DEF RejectBlock, IInv, UndoActive, TypeOK
<1>5. \A a \in Blocks : a # b => nStatus'[a] = nStatus[a]
  BY DEF RejectBlock, IInv, TypeOK
<1>6. nStatus'[b] = nStatus[b] \cup {"tree", "failedValid"} /\ b \in dirty'
  BY DEF RejectBlock, IInv, TypeOK
<1>7. QED
  BY <1>1, <1>2, <1>3, <1>4, <1>5, <1>6, MarksKeepIndex
  DEF RejectBlock, disk, IInv, LinkedTree

(* "Missing data" is never the reason: candidates are linked. *)
LEMMA DropCandidateKeeps ==
  ASSUME IInv, NEW c \in Blocks, NEW u \in Blocks, DropCandidate(c, u) PROVE IInv'
<1>1. Failed(u) /\ unlinked' = unlinked
  <2>1. c \in linked
    BY DEF DropCandidate, IsBest, IInv, LinkedTree
  <2>2. u \in Path[c] /\ (Failed(u) \/ ~HasData(u))
    BY DEF DropCandidate, FirstUnusable, Unusable, Branch
  <2>3. QED
    BY <2>1, <2>2 DEF DropCandidate, IInv, LinkedTree
<1>2. \A b \in Blocks : \/ nStatus'[b] = nStatus[b]
                        \/ nStatus'[b] = nStatus[b] \cup {"failedChild"}
  BY DEF DropCandidate
<1>3. nStatus' \in [Blocks -> SUBSET Flags]
  BY <1>2 DEF DropCandidate, IInv, TypeOK, Flags
<1>4. TypeOK'
  BY <1>1, <1>3 DEF DropCandidate, disk, control, IInv, TypeOK
<1>5. ControlConsistent' /\ TipsLinked'
  BY DEF DropCandidate, control, IInv, ControlConsistent, TipsLinked
<1>6. UndoActive'
  BY <1>2, PathFacts DEF DropCandidate, IInv, UndoActive, TypeOK
<1>7. candidates' \subseteq linked
  BY DEF DropCandidate, IInv, LinkedTree
<1>8. QED
  BY <1>1, <1>2, <1>4, <1>5, <1>6, <1>7, MarksKeepIndex DEF DropCandidate, disk, Lasting

(* Where an activation goes after a step. *)
LEMMA ContinueKeepsControl ==
  ASSUME IInv, job = "activate", UNCHANGED linked,
         NEW newTip, NEW stepEnds \in BOOLEAN, Continue(newTip, stepEnds)
  PROVE  /\ ControlConsistent'
         /\ job' \in {"none", "activate"}
         /\ phase' \in {"run", "accepted", "find", "step", "finish", "flush"}
         /\ target' \in Blocks /\ oldTip' \in Blocks
         /\ held' \in BOOLEAN /\ pending' \in BOOLEAN /\ left' \in Nat
<1>1. target \in linked /\ Genesis \in linked
  BY DEF IInv, ControlConsistent, TipsLinked
<1>2. CASE Goto("finish") \/ Goto("step") \/ Goto("find")
  BY <1>1, <1>2 DEF Goto, IInv, TypeOK, ControlConsistent
<1>3. CASE Release(TRUE)
  BY <1>1, <1>3, TreeAssumption DEF Release, ControlConsistent
<1>4. QED
  BY <1>2, <1>3 DEF Continue

LEMMA ConnectedKeepsControl ==
  ASSUME IInv, job = "activate", UNCHANGED linked, NEW b \in Blocks, Connected(b)
  PROVE  /\ ControlConsistent'
         /\ candidates' \subseteq candidates
         /\ job' \in {"none", "activate", "aborted"}
         /\ phase' \in {"run", "accepted", "find", "step", "finish", "flush"}
         /\ target' \in Blocks /\ oldTip' \in Blocks
         /\ held' \in BOOLEAN /\ pending' \in BOOLEAN /\ left' \in Nat
<1>1. candidates' \subseteq candidates
  BY DEF Connected, Kept
<1>2. CASE Kept(b) = {}
  BY <1>1, <1>2 DEF Connected, Abort, IInv, TypeOK, ControlConsistent
<1>3. CASE Kept(b) # {}
  <2>1. Continue(b, ChainWork[b] > ChainWork[oldTip])
    BY <1>3 DEF Connected
  <2>2. (ChainWork[b] > ChainWork[oldTip]) \in BOOLEAN
    OBVIOUS
  <2>3. QED
    BY <1>1, <2>1, <2>2, ContinueKeepsControl
<1>4. QED
  BY <1>2, <1>3

(* The block connected is on the chain of the target, hence linked, and     *)
(* its undo data is written before the coins move to it.                    *)
LEMMA StepConnectKeeps ==
  ASSUME IInv, NEW b \in Blocks, StepConnect(b) PROVE IInv'
<1>1. job = "activate" /\ target \in linked /\ target \in Blocks /\ tip \in Blocks
  BY DEF StepConnect, IInv, ControlConsistent, TypeOK
<1>2. b \in Path[target] /\ b # Genesis /\ Parent[b] = tip
  BY DEF StepConnect, IsNext
<1>3. b \in linked
  BY <1>1, <1>2, PathFacts DEF IInv, LinkedTree
<1>4. Path[b] = Path[tip] \cup {b}
  BY <1>2, PathFacts
<1>5. /\ tip' \in {tip, b} /\ coins' = b /\ UNCHANGED linked
      /\ ControlConsistent' /\ candidates' \subseteq candidates
      /\ job' \in {"none", "activate", "aborted"}
      /\ phase' \in {"run", "accepted", "find", "step", "finish", "flush"}
      /\ target' \in Blocks /\ oldTip' \in Blocks
      /\ held' \in BOOLEAN /\ pending' \in BOOLEAN /\ left' \in Nat
  <2>1. CASE Goto("flush") /\ UNCHANGED <<tip, candidates>>
    BY <1>1, <2>1 DEF StepConnect, Goto, IInv, TypeOK, ControlConsistent
  <2>2. CASE tip' = b /\ Connected(b)
    BY <1>1, <2>2, ConnectedKeepsControl DEF StepConnect
  <2>3. QED
    BY <2>1, <2>2 DEF StepConnect
<1>6. /\ \A a \in Blocks : a # b => nStatus'[a] = nStatus[a]
      /\ nStatus'[b] = nStatus[b] \cup {"undo"}
      /\ nStatus' \in [Blocks -> SUBSET Flags]
  BY DEF StepConnect, StatusConnected, IInv, TypeOK, Flags
<1>7. /\ dirty \subseteq dirty' /\ dirty' \subseteq Blocks
      /\ b \notin dirty' => "undo" \in nStatus[b]
  BY DEF StepConnect, IInv, TypeOK
<1>8. TypeOK'
  BY <1>1, <1>5, <1>6, <1>7 DEF StepConnect, disk, IInv, TypeOK
<1>9. TipsLinked' /\ UndoActive'
  <2>1. TipsLinked'
    BY <1>3, <1>5 DEF IInv, TipsLinked
  <2>2. \A a \in Path[b] : a # Genesis => "undo" \in nStatus'[a]
    BY <1>1, <1>4, <1>6, PathFacts DEF IInv, UndoActive
  <2>3. QED
    BY <1>4, <1>5, <2>1, <2>2 DEF UndoActive
<1>10. QED
  <2>1. candidates' \subseteq linked
    BY <1>5 DEF IInv, LinkedTree
  <2>2. \A a \in Blocks :
          /\ nStatus[a] \cap Lasting \subseteq nStatus'[a]
          /\ "data" \in nStatus'[a] => "data" \in nStatus[a]
          /\ a \notin dirty' => nStatus'[a] \cap Lasting \subseteq nStatus[a]
    BY <1>6, <1>7
  <2>3. QED
    BY <1>5, <1>7, <1>8, <1>9, <2>1, <2>2, MarksKeepIndex DEF StepConnect, disk

LEMMA StepRejectKeeps ==
  ASSUME IInv, NEW b \in Blocks, StepReject(b) PROVE IInv'
<1>1. job = "activate" /\ UNCHANGED linked
  BY DEF StepReject, IInv, ControlConsistent
<1>2. Continue(tip, TRUE)
  BY DEF StepReject
<1>3. /\ ControlConsistent' /\ job' \in {"none", "activate"}
      /\ phase' \in {"run", "accepted", "find", "step", "finish", "flush"}
      /\ target' \in Blocks /\ oldTip' \in Blocks
      /\ held' \in BOOLEAN /\ pending' \in BOOLEAN /\ left' \in Nat
  BY <1>1, <1>2, ContinueKeepsControl
<1>4. /\ \A a \in Blocks : a # b => nStatus'[a] = nStatus[a]
      /\ nStatus'[b] = nStatus[b] \cup {"failedValid"}
      /\ nStatus' \in [Blocks -> SUBSET Flags]
      /\ dirty' = dirty \cup {b} /\ candidates' \subseteq candidates
  BY DEF StepReject, InvalidBlockFound, IInv, TypeOK, Flags
<1>5. TypeOK'
  BY <1>3, <1>4 DEF StepReject, disk, IInv, TypeOK
<1>6. TipsLinked' /\ UndoActive'
  BY <1>4, PathFacts DEF StepReject, IInv, TipsLinked, UndoActive, TypeOK
<1>7. candidates' \subseteq linked
  BY <1>4 DEF IInv, LinkedTree
<1>8. QED
  BY <1>3, <1>4, <1>5, <1>6, <1>7, MarksKeepIndex DEF StepReject, disk, Lasting

LEMMA InvalidateBlockKeeps ==
  ASSUME IInv, NEW b \in Blocks, InvalidateBlock(b) PROVE IInv'
<1>1. /\ \A a \in Blocks : a # b => nStatus'[a] = nStatus[a]
      /\ nStatus'[b] = nStatus[b] \cup {"failedValid"}
      /\ nStatus' \in [Blocks -> SUBSET Flags]
      /\ dirty' = dirty \cup {b} /\ candidates' \subseteq candidates
  BY DEF InvalidateBlock, IInv, TypeOK, Flags
<1>2. TypeOK'
  BY <1>1 DEF InvalidateBlock, disk, IInv, TypeOK
<1>3. ControlConsistent'
  BY DEF InvalidateBlock, IInv, ControlConsistent
<1>4. TipsLinked' /\ UndoActive'
  BY <1>1, PathFacts DEF InvalidateBlock, IInv, TipsLinked, UndoActive, TypeOK
<1>5. candidates' \subseteq linked
  BY <1>1 DEF IInv, LinkedTree
<1>6. QED
  BY <1>1, <1>2, <1>3, <1>4, <1>5, MarksKeepIndex DEF InvalidateBlock, disk, Lasting

LEMMA InvalidateDisconnectKeeps == ASSUME IInv, InvalidateDisconnect PROVE IInv'
<1>1. tip \in Blocks /\ tip # Genesis /\ coins' = Parent[tip]
  BY DEF InvalidateDisconnect, DisconnectTip, IInv, TypeOK
<1>2. /\ \A a \in Blocks : a # tip => nStatus'[a] = nStatus[a]
      /\ nStatus'[tip] = nStatus[tip] \cup {"failedChild"}
      /\ nStatus' \in [Blocks -> SUBSET Flags]
      /\ dirty' = dirty \cup {tip} /\ candidates' \subseteq candidates
  BY <1>1 DEF InvalidateDisconnect, IInv, TypeOK, Flags
<1>3. coins' \in Blocks /\ Path[coins'] \subseteq Path[tip]
  BY <1>1, PathFacts
<1>4. TypeOK'
  BY <1>1, <1>2, <1>3 DEF InvalidateDisconnect, DisconnectTip, disk, IInv, TypeOK
<1>5. ControlConsistent'
  BY DEF InvalidateDisconnect, DisconnectTip, IInv, ControlConsistent
<1>6. TipsLinked'
  <2>1. coins' \in linked
    BY <1>3 DEF IInv, TipsLinked, LinkedTree
  <2>2. QED
    BY <2>1 DEF InvalidateDisconnect, IInv, TipsLinked
<1>7. UndoActive'
  <2>1. \A a \in Path[tip] : a # Genesis => "undo" \in nStatus'[a]
    BY <1>1, <1>2, PathFacts DEF IInv, UndoActive
  <2>2. QED
    BY <1>3, <2>1 DEF InvalidateDisconnect, UndoActive
<1>8. candidates' \subseteq linked
  BY <1>2 DEF IInv, LinkedTree
<1>9. QED
  BY <1>1, <1>2, <1>4, <1>5, <1>6, <1>7, <1>8, MarksKeepIndex
  DEF InvalidateDisconnect, disk, Lasting

LEMMA ReconsiderBlockKeeps ==
  ASSUME IInv, NEW b \in Blocks, ReconsiderBlock(b) PROVE IInv'
<1>1. \A a \in Blocks :
        \/ nStatus'[a] = nStatus[a]
        \/ nStatus'[a] = nStatus[a] \ {"failedValid", "failedChild"}
  BY DEF ReconsiderBlock
<1>2. nStatus' \in [Blocks -> SUBSET Flags]
  BY <1>1 DEF ReconsiderBlock, IInv, TypeOK, Flags
<1>3. /\ candidates' \subseteq linked
      /\ dirty \subseteq dirty' /\ dirty' \subseteq Blocks
  BY PathFacts DEF ReconsiderBlock, IInv, TypeOK, LinkedTree
<1>4. TypeOK'
  BY <1>2, <1>3 DEF ReconsiderBlock, disk, IInv, TypeOK
<1>5. ControlConsistent'
  BY DEF ReconsiderBlock, IInv, ControlConsistent
<1>6. TipsLinked' /\ UndoActive'
  BY <1>1, PathFacts DEF ReconsiderBlock, IInv, TipsLinked, UndoActive, TypeOK
<1>7. QED
  BY <1>1, <1>3, <1>4, <1>5, <1>6, MarksKeepIndex DEF ReconsiderBlock, disk, Lasting

-----------------------------------------------------------------------------
(* A block is stored.                                                       *)

LEMMA AcceptBlockKeeps ==
  ASSUME IInv, NEW b \in Blocks, AcceptBlock(b) PROVE IInv'
<1>1. /\ \A a \in Blocks : a # b => nStatus'[a] = nStatus[a]
      /\ nStatus'[b] = nStatus[b] \cup {"tree", "data"}
      /\ nStatus' \in [Blocks -> SUBSET Flags]
      /\ dirty' = dirty \cup {b}
  BY DEF AcceptBlock, IInv, TypeOK, Flags
<1>2. job = "none" /\ ~HasData(b)
  BY DEF AcceptBlock, CanAccept
<1>3. LinkedTree'
  <2>1. CASE Parent[b] \in linked /\ LinkBlocks(NewlyLinked(b))
    BY <1>2, <2>1, LinkingKeepsTree DEF AcceptBlock
  <2>2. CASE Parent[b] \notin linked
    BY <1>2, <2>2, WaitingKeepsTree DEF AcceptBlock, ReceivedBlockTransactions
  <2>3. QED
    BY <2>1, <2>2 DEF AcceptBlock, ReceivedBlockTransactions
<1>4. /\ linked \subseteq linked' /\ linked' \subseteq Blocks
      /\ candidates' \subseteq Blocks /\ unlinked' \subseteq Blocks
      /\ seq' \in [Blocks -> Nat] /\ nextSeq' \in Nat \ {0}
  <2>1. ASSUME Parent[b] \in linked, LinkBlocks(NewlyLinked(b))
        PROVE  /\ linked \subseteq linked'
               /\ seq' \in [Blocks -> Nat] /\ nextSeq' \in Nat \ {0}
    <3> DEFINE new == NewlyLinked(b)
    <3>1. new \subseteq Blocks
      BY DEF NewlyLinked, IInv, TypeOK
    <3>2. Cardinality(new) \in Nat
      BY <3>1, NewIsFinite
    <3>3. PICK f \in Numberings(new) :
            seq' = [d \in Blocks |-> IF d \in new THEN f[d] ELSE seq[d]]
      BY <2>1 DEF LinkBlocks
    <3>4. f \in [new -> nextSeq .. nextSeq + Cardinality(new) - 1]
      BY <3>3 DEF Numberings
    <3>5. nextSeq \in Nat \ {0} /\ seq \in [Blocks -> Nat]
      BY DEF IInv, TypeOK
    <3>6. \A d \in new : f[d] \in Nat
      BY <3>2, <3>4, <3>5
    <3>7. seq' \in [Blocks -> Nat]
      BY <3>3, <3>5, <3>6
    <3>8. nextSeq' = nextSeq + Cardinality(new) /\ linked' = linked \cup new
      BY <2>1 DEF LinkBlocks
    <3>9. QED
      BY <3>2, <3>5, <3>7, <3>8
  <2>2. CASE Parent[b] \notin linked
    BY <2>2 DEF AcceptBlock, ReceivedBlockTransactions, IInv, TypeOK
  <2>3. linked' \subseteq Blocks /\ candidates' \subseteq Blocks /\ unlinked' \subseteq Blocks
    BY <1>3 DEF LinkedTree
  <2>4. linked \subseteq linked' /\ seq' \in [Blocks -> Nat] /\ nextSeq' \in Nat \ {0}
    BY <2>1, <2>2 DEF AcceptBlock, ReceivedBlockTransactions, IInv, TypeOK
  <2>5. QED
    BY <2>3, <2>4
<1>5. TypeOK'
  BY <1>1, <1>4 DEF AcceptBlock, StartHeldActivation, disk, IInv, TypeOK
<1>6. ControlConsistent'
  BY <1>2, <1>4 DEF AcceptBlock, StartHeldActivation, IInv, ControlConsistent
<1>7. TipsLinked' /\ UndoActive'
  BY <1>1, <1>4, PathFacts DEF AcceptBlock, IInv, TipsLinked, UndoActive, TypeOK
<1>8. DiskTruthful' /\ DiskRecoverable'
  BY <1>1 DEF AcceptBlock, disk, IInv, DiskTruthful, DiskRecoverable
<1>9. CleanWritten'
  BY <1>1 DEF AcceptBlock, disk, IInv, CleanWritten
<1>10. QED
  BY <1>3, <1>5, <1>6, <1>7, <1>8, <1>9 DEF IInv

-----------------------------------------------------------------------------
(* Flush, crash and restart.                                                *)

(* One entry is written, with what memory says, which is no less than what  *)
(* the disk said.                                                           *)
LEMMA WriteBlockIndexKeeps ==
  ASSUME IInv, NEW b \in Blocks, WriteBlockIndex(b) PROVE IInv'
<1>1. /\ \A a \in Blocks : a # b => diskStatus'[a] = diskStatus[a]
      /\ diskStatus'[b] = nStatus[b]
      /\ diskStatus' \in [Blocks -> SUBSET Flags]
  BY DEF WriteBlockIndex, IInv, TypeOK
<1>2. \A a \in Blocks : diskStatus[a] \cap Lasting \subseteq diskStatus'[a]
  BY <1>1 DEF IInv, DiskTruthful
<1>3. TypeOK'
  BY <1>1 DEF WriteBlockIndex, control, IInv, TypeOK
<1>4. LinkedTree'
  BY DEF WriteBlockIndex, IInv, LinkedTree, HasData
<1>5. ControlConsistent' /\ TipsLinked' /\ UndoActive'
  BY DEF WriteBlockIndex, control, IInv, ControlConsistent, TipsLinked, UndoActive
<1>6. DiskTruthful'
  <2>1. "data" \in diskStatus'[Genesis]
    BY <1>2, PathFacts DEF IInv, DiskTruthful, Lasting
  <2>2. \A a \in Blocks : diskStatus'[a] \cap Lasting \subseteq nStatus'[a]
    BY <1>1 DEF WriteBlockIndex, IInv, DiskTruthful
  <2>3. QED
    BY <2>1, <2>2 DEF DiskTruthful
<1>7. CleanWritten'
  BY <1>1 DEF WriteBlockIndex, IInv, CleanWritten
<1>8. DiskRecoverable'
  <2>1. diskCoins' = diskCoins /\ diskCoins \in Blocks
    BY DEF WriteBlockIndex, IInv, TypeOK
  <2>2. \A a \in Path[diskCoins] : a \in Blocks
    BY <2>1, PathFacts
  <2>3. QED
    BY <1>2, <2>1, <2>2 DEF IInv, DiskRecoverable, Lasting
<1>9. QED
  BY <1>3, <1>4, <1>5, <1>6, <1>7, <1>8 DEF IInv

(* When the coins are written no entry is dirty, so everything memory knows *)
(* of the coins' chain is on disk.                                          *)
LEMMA FlushCoinsKeeps == ASSUME IInv, FlushCoins PROVE IInv'
<1>1. coins \in Blocks /\ coins \in linked /\ Genesis \in linked
  BY DEF IInv, TypeOK, TipsLinked
<1>2. UNCHANGED <<nStatus, linked, seq, nextSeq, unlinked, dirty, coins, address, diskStatus, crashes>>
      /\ diskCoins' = coins /\ tip' = coins /\ dirty = {} /\ phase = "flush"
  BY DEF FlushCoins, IndexWritten
<1>3. /\ ControlConsistent' /\ candidates' \subseteq candidates
      /\ job' \in {"none", "activate", "invalidate", "rewind", "aborted"}
      /\ phase' \in {"run", "accepted", "find", "step", "finish", "flush"}
      /\ target' \in Blocks /\ oldTip' \in Blocks
      /\ held' \in BOOLEAN /\ pending' \in BOOLEAN /\ left' \in Nat
  <2>1. CASE UNCHANGED candidates /\ (ActivationReturns \/ Release(pending))
    <3>1. pending \in BOOLEAN /\ (pending /\ held) \in BOOLEAN
      BY DEF IInv, TypeOK
    <3>2. /\ job' = "none" /\ phase' = "run" /\ target' = Genesis /\ oldTip' = Genesis
          /\ held' = FALSE /\ left' = 0 /\ pending' \in BOOLEAN
      BY <2>1, <3>1 DEF ActivationReturns, Release
    <3>3. ControlConsistent'
      BY <1>1, <1>2, <3>2 DEF ControlConsistent
    <3>4. QED
      BY <2>1, <3>2, <3>3, TreeAssumption
  <2>2. CASE UNCHANGED candidates /\ job = "activate" /\ Goto("step")
    BY <1>2, <2>2 DEF Goto, IInv, TypeOK, ControlConsistent
  <2>3. CASE job = "activate" /\ Connected(coins)
    BY <1>1, <1>2, <2>3, ConnectedKeepsControl
  <2>4. CASE UNCHANGED candidates /\ job \in {"invalidate", "rewind"} /\ Goto("run")
    BY <1>2, <2>4 DEF Goto, IInv, TypeOK, ControlConsistent
  <2>5. QED
    BY <2>1, <2>2, <2>3, <2>4 DEF FlushCoins
<1>4. TypeOK'
  BY <1>1, <1>2, <1>3 DEF IInv, TypeOK
<1>5. LinkedTree'
  BY <1>2, <1>3 DEF IInv, LinkedTree, HasData
<1>6. TipsLinked' /\ UndoActive'
  BY <1>1, <1>2 DEF IInv, TipsLinked, UndoActive
<1>7. DiskTruthful' /\ CleanWritten'
  BY <1>2 DEF IInv, DiskTruthful, CleanWritten
<1>8. DiskRecoverable'
  <2>1. ASSUME NEW a \in Path[coins]
        PROVE  "data" \in diskStatus[a] /\ (a # Genesis => "undo" \in diskStatus[a])
    <3>1. a \in Blocks
      BY <1>1, PathFacts
    <3>2. "data" \in nStatus[a] /\ (a # Genesis => "undo" \in nStatus[a])
      BY <1>1 DEF IInv, LinkedTree, HasData, UndoActive
    <3>3. nStatus[a] \cap Lasting \subseteq diskStatus[a]
      BY <1>2, <3>1 DEF IInv, CleanWritten
    <3>4. QED
      BY <3>2, <3>3 DEF Lasting
  <2>2. QED
    BY <1>2, <2>1 DEF DiskRecoverable
<1>9. QED
  BY <1>3, <1>4, <1>5, <1>6, <1>7, <1>8 DEF IInv

(* What is loaded is what was stored; nothing in memory is older or newer.  *)
LEMMA CrashAndRestartKeeps == ASSUME IInv, CrashAndRestart PROVE IInv'
<1>1. /\ nStatus' = diskStatus /\ diskStatus' = diskStatus /\ diskCoins' = diskCoins
      /\ linked' = LoadedLinked /\ dirty' = {} /\ tip' = diskCoins /\ coins' = diskCoins
      /\ target' = Genesis /\ phase' = "run"
  BY DEF CrashAndRestart, disk
<1>2. diskStatus \in [Blocks -> SUBSET Flags] /\ diskCoins \in Blocks /\ crashes \in 0..MaxCrashes
  BY DEF IInv, TypeOK
<1>3. candidates' \subseteq LoadedLinked /\ LoadedLinked \subseteq Blocks
  BY DEF CrashAndRestart, LoadedCandidates, LoadedLinked
<1>4. TypeOK'
  <2>1. crashes' \in 0..MaxCrashes /\ left' \in Nat /\ nextSeq' \in Nat \ {0}
    BY <1>2, InputAssumption DEF CrashAndRestart
  <2>2. seq' \in [Blocks -> Nat] /\ unlinked' \subseteq Blocks /\ address' \in Addresses
    BY DEF CrashAndRestart
  <2>3. job' \in {"none", "activate", "invalidate", "rewind", "flush", "aborted", "corrupt"}
    BY DEF CrashAndRestart
  <2>4. held' = FALSE /\ pending' = TRUE /\ oldTip' = Genesis
    BY DEF CrashAndRestart
  <2>5. QED
    BY <1>1, <1>2, <1>3, <2>1, <2>2, <2>3, <2>4, TreeAssumption DEF TypeOK
<1>5. LinkedTree'
  <2>1. \A b \in Blocks : HasData(b)' <=> "data" \in diskStatus[b]
    BY <1>1 DEF HasData
  <2>2. linked' = {b \in Blocks : \A a \in Path[b] : HasData(a)'}
    BY <1>1, <2>1, PathFacts DEF LoadedLinked
  <2>3. unlinked' = {b \in Blocks \ {Genesis} : HasData(b)' /\ Parent[b] \notin linked'}
    BY <1>1, <2>1 DEF CrashAndRestart
  <2>4. \A b \in Blocks : seq'[b] = 0
    BY DEF CrashAndRestart
  <2>5. QED
    BY <1>1, <1>3, <2>2, <2>3, <2>4 DEF LinkedTree
<1>6. diskCoins \in LoadedLinked /\ Genesis \in LoadedLinked
  BY <1>2, PathFacts DEF IInv, DiskRecoverable, DiskTruthful, LoadedLinked
<1>7. ControlConsistent' /\ TipsLinked'
  <2>1. job' \notin {"activate", "invalidate"}
    BY DEF CrashAndRestart
  <2>2. QED
    BY <1>1, <1>6, <2>1 DEF ControlConsistent, TipsLinked
<1>8. UndoActive'
  BY <1>1 DEF IInv, DiskRecoverable, UndoActive
<1>9. DiskTruthful' /\ CleanWritten' /\ DiskRecoverable'
  BY <1>1 DEF IInv, DiskTruthful, CleanWritten, DiskRecoverable
<1>10. QED
  BY <1>4, <1>5, <1>7, <1>8, <1>9 DEF IInv

-----------------------------------------------------------------------------
(* The invariant is inductive.                                              *)

LEMMA InitIInv == Init => IInv
<1> SUFFICES ASSUME Init PROVE IInv
  OBVIOUS
<1>1. \A b \in Blocks : HasData(b) <=> b = Genesis
  BY DEF Init, HasData
<1>2. TypeOK
  <2>1. nStatus \in [Blocks -> SUBSET Flags] /\ diskStatus \in [Blocks -> SUBSET Flags]
    BY DEF Init, Flags
  <2>2. seq \in [Blocks -> Nat] /\ nextSeq \in Nat \ {0} /\ left \in Nat
    BY DEF Init
  <2>3. crashes \in 0..MaxCrashes
    BY InputAssumption DEF Init
  <2>4. QED
    BY <2>1, <2>2, <2>3, TreeAssumption DEF Init, TypeOK
<1>3. LinkedTree
  <2>1. ASSUME NEW b \in Blocks PROVE b = Genesis <=> \A a \in Path[b] : HasData(a)
    BY <1>1, PathFacts
  <2>2. ASSUME NEW b \in Blocks \ {Genesis} PROVE ~HasData(b)
    BY <1>1
  <2>3. QED
    BY <2>1, <2>2, PathFacts DEF Init, LinkedTree
<1>4. ControlConsistent /\ TipsLinked /\ UndoActive
  BY PathFacts DEF Init, ControlConsistent, TipsLinked, UndoActive
<1>5. DiskTruthful /\ CleanWritten /\ DiskRecoverable
  BY PathFacts DEF Init, DiskTruthful, CleanWritten, DiskRecoverable
<1>6. QED
  BY <1>2, <1>3, <1>4, <1>5 DEF IInv

LEMMA StutterKeeps == ASSUME IInv, UNCHANGED vars PROVE IInv'
<1>1. TypeOK'
  BY DEF vars, memory, disk, control, IInv, TypeOK
<1>2. LinkedTree' /\ ControlConsistent' /\ TipsLinked' /\ UndoActive'
  BY DEF vars, memory, disk, control, IInv, LinkedTree, HasData, ControlConsistent,
         TipsLinked, UndoActive
<1>3. DiskTruthful' /\ CleanWritten' /\ DiskRecoverable'
  BY DEF vars, memory, disk, control, IInv, DiskTruthful, CleanWritten, DiskRecoverable
<1>4. QED
  BY <1>1, <1>2, <1>3 DEF IInv

LEMMA Inductive == IInv /\ [Next]_vars => IInv'
<1> SUFFICES ASSUME IInv, [Next]_vars PROVE IInv'
  OBVIOUS
<1>1. ASSUME Internal PROVE IInv'
  <2>1. CASE Accepted \/ NothingBetter \/ StepDisconnect \/ FinishActivation
    BY <2>1, AcceptedKeeps, NothingBetterKeeps, StepDisconnectKeeps, FinishActivationKeeps
  <2>2. ASSUME NEW c \in Blocks, NEW u \in Blocks, ChooseCandidate(c) \/ DropCandidate(c, u)
        PROVE  IInv'
    BY <2>2, ChooseCandidateKeeps, DropCandidateKeeps
  <2>3. ASSUME NEW b \in Blocks, StepConnect(b) \/ StepReject(b) \/ WriteBlockIndex(b)
        PROVE  IInv'
    BY <2>3, StepConnectKeeps, StepRejectKeeps, WriteBlockIndexKeeps
  <2>4. CASE InvalidateDisconnect \/ InvalidateReturns \/ RewindDisconnect \/ RewindReturns
    BY <2>4, InvalidateDisconnectKeeps, InvalidateReturnsKeeps, RewindDisconnectKeeps,
       RewindReturnsKeeps
  <2>5. CASE FlushCoins
    BY <2>5, FlushCoinsKeeps
  <2>6. QED
    BY <1>1, <2>1, <2>2, <2>3, <2>4, <2>5 DEF Internal
<1>2. ASSUME NEW b \in Blocks, AcceptBlockHeader(b) \/ RejectBlock(b) \/ AcceptBlock(b) \/ AcceptKnownBlock(b)
      PROVE  IInv'
  BY <1>2, AcceptBlockHeaderKeeps, RejectBlockKeeps, AcceptBlockKeeps, AcceptKnownBlockKeeps
<1>3. ASSUME NEW b \in Invalidatable, InvalidateBlock(b) PROVE IInv'
  BY <1>3, InvalidateBlockKeeps, InputAssumption
<1>4. ASSUME NEW b \in Reconsiderable, ReconsiderBlock(b) PROVE IInv'
  BY <1>4, ReconsiderBlockKeeps, InputAssumption
<1>5. ASSUME NEW n \in Rewinds, DisconnectBlocksAndReprocess(n) PROVE IInv'
  BY <1>5, DisconnectBlocksAndReprocessKeeps
<1>6. CASE ActivateUnheld \/ FlushRequested \/ CrashAndRestart
  BY <1>6, ActivateUnheldKeeps, FlushRequestedKeeps, CrashAndRestartKeeps
<1>7. CASE UNCHANGED vars
  BY <1>7, StutterKeeps
<1>8. QED
  BY <1>1, <1>2, <1>3, <1>4, <1>5, <1>6, <1>7 DEF Next

LEMMA Invariant == Spec => []IInv
BY InitIInv, Inductive, PTL DEF Spec

-----------------------------------------------------------------------------
(* The results.                                                             *)

(* The variables keep their types: the status flags, the sequence numbers,  *)
(* where control is, and the count of disconnections still to make.         *)
THEOREM TypeCorrect == Spec => []TypeOK
<1>1. IInv => TypeOK
  BY DEF IInv
<1>2. QED
  BY <1>1, Invariant, PTL

(* CheckBlockIndex's assertions on nChainTx, nSequenceId, mapBlocksUnlinked *)
(* and on what may be in setBlockIndexCandidates never fail, in whatever    *)
(* order headers and blocks arrive and whenever the node is restarted.      *)
THEOREM LinkedTreeTheorem == Spec => []LinkedTree
<1>1. IInv => LinkedTree
  BY DEF IInv
<1>2. QED
  BY <1>1, Invariant, PTL

(* FlushStateToDisk's order of writes: the coins database never refers to a *)
(* block whose chain the block tree database does not hold with its data    *)
(* and undo data.                                                           *)
THEOREM DiskRecoverableTheorem == Spec => []DiskRecoverable
<1>1. IInv => DiskRecoverable
  BY DEF IInv
<1>2. QED
  BY <1>1, Invariant, PTL

-----------------------------------------------------------------------------
(* The order of the candidates.                                             *)

(* A chain has more work than every part of it. *)
LEMMA WorkGrows ==
  ASSUME NEW b \in Blocks, NEW a \in Path[b], a # b
  PROVE  ChainWork[a] < ChainWork[b]
<1> DEFINE Bad == {d \in Blocks : \E e \in Path[d] : e # d /\ ~(ChainWork[e] < ChainWork[d])}
           T == {ChainWork[d] : d \in Bad}
<1> SUFFICES ASSUME Bad # {} PROVE FALSE
  OBVIOUS
<1>1. PICK d \in Bad : \A e \in Bad : ChainWork[d] <= ChainWork[e]
  <2>1. T \in SUBSET Nat /\ T # {}
    BY TreeAssumption
  <2>2. PICK n \in T : \A m \in T : ~(<<m, n>> \in OpToRel(<, Nat))
    BY <2>1, NatLessThanWellFounded, WFMin
  <2> HIDE DEF T
  <2>4. \A m \in T : ~(m < n)
    BY <2>1, <2>2 DEF OpToRel
  <2>3. \A m \in T : n <= m
    BY <2>1, <2>4
  <2> USE DEF T
  <2> QED
    BY <2>2, <2>3
<1>2. PICK e \in Path[d] : e # d /\ ~(ChainWork[e] < ChainWork[d])
  OBVIOUS
<1>3. d # Genesis
  BY <1>2, PathFacts
<1>4. /\ Parent[d] \in Blocks /\ e \in Path[Parent[d]] /\ e \in Blocks
      /\ ChainWork[Parent[d]] < ChainWork[d]
  BY <1>2, <1>3, PathFacts, TreeAssumption
<1>5. ChainWork[Parent[d]] \in Nat /\ ChainWork[d] \in Nat /\ ChainWork[e] \in Nat
  BY <1>4, TreeAssumption
<1>6. Parent[d] \notin Bad
  BY <1>1, <1>4, <1>5
<1>7. CASE e = Parent[d]
  BY <1>2, <1>4, <1>7
<1>8. CASE e # Parent[d]
  <2>1. ChainWork[e] < ChainWork[Parent[d]]
    BY <1>4, <1>6, <1>8
  <2> QED
    BY <1>2, <1>4, <1>5, <2>1
<1> QED
  BY <1>7, <1>8

(* CBlockIndexWorkComparator is a strict total order, in which more work is *)
(* better, whatever the sequence numbers: two entries have two addresses.   *)
LEMMA ComparatorOrders ==
  ASSUME NEW ids \in [Blocks -> Nat], NEW order \in Addresses
  PROVE  /\ \A a \in Blocks : ~WorseBy(a, a, ids, order)
         /\ \A a, b, c \in Blocks :
              WorseBy(a, b, ids, order) /\ WorseBy(b, c, ids, order) => WorseBy(a, c, ids, order)
         /\ \A a, b \in Blocks : a # b => WorseBy(a, b, ids, order) \/ WorseBy(b, a, ids, order)
         /\ \A a, b \in Blocks : WorseBy(a, b, ids, order) => ChainWork[a] <= ChainWork[b]
         /\ \A a, b \in Blocks : ChainWork[a] < ChainWork[b] => WorseBy(a, b, ids, order)
<1>1. order \in [Blocks -> Nat] /\ \A a, b \in Blocks : order[a] = order[b] => a = b
  BY InputAssumption
<1>2. \A a \in Blocks : ChainWork[a] \in Nat /\ ids[a] \in Nat /\ order[a] \in Nat
  BY <1>1, TreeAssumption
<1> QED
  BY <1>1, <1>2 DEF WorseBy

(* The same of the order in memory, and: what is not worse than something   *)
(* not worse than x is not worse than x; a block is worse than its          *)
(* descendants.                                                             *)
LEMMA WorseOrders ==
  ASSUME IInv
  PROVE  /\ \A a \in Blocks : ~Worse(a, a)
         /\ \A a, b, c \in Blocks : Worse(a, b) /\ Worse(b, c) => Worse(a, c)
         /\ \A a, b \in Blocks : a # b => Worse(a, b) \/ Worse(b, a)
         /\ \A a, b \in Blocks : ~Worse(a, b) => ChainWork[b] <= ChainWork[a]
         /\ \A a, b, c \in Blocks : ~Worse(a, b) /\ ~Worse(b, c) => ~Worse(a, c)
         /\ \A b \in Blocks : \A a \in Path[b] : a # b => Worse(a, b)
<1>1. seq \in [Blocks -> Nat] /\ address \in Addresses
  BY DEF IInv, TypeOK
<1>2. /\ \A a \in Blocks : ~Worse(a, a)
      /\ \A a, b, c \in Blocks : Worse(a, b) /\ Worse(b, c) => Worse(a, c)
      /\ \A a, b \in Blocks : a # b => Worse(a, b) \/ Worse(b, a)
      /\ \A a, b \in Blocks : Worse(a, b) => ChainWork[a] <= ChainWork[b]
      /\ \A a, b \in Blocks : ChainWork[a] < ChainWork[b] => Worse(a, b)
  BY <1>1, ComparatorOrders DEF Worse
<1>3. \A a, b \in Blocks : ~Worse(a, b) => ChainWork[b] <= ChainWork[a]
  BY <1>2, TreeAssumption
<1>4. \A b \in Blocks : \A a \in Path[b] : a # b => Worse(a, b)
  BY <1>2, WorkGrows, PathFacts
<1>5. \A a, b, c \in Blocks : ~Worse(a, b) /\ ~Worse(b, c) => ~Worse(a, c)
  BY <1>2
<1> QED
  BY <1>2, <1>3, <1>4, <1>5

-----------------------------------------------------------------------------
(* The activation.                                                          *)

(* No block of b's chain is marked as failed. *)
(* An activation moves towards its target, or has reached it and flushes.   *)
Working == phase = "step" \/ (phase = "flush" /\ job = "activate" /\ coins # tip)
Arrived == phase = "finish" \/ (phase = "flush" /\ job = "activate" /\ coins = tip)

CoinsFollow ==
  /\ phase # "flush" => coins = tip
  /\ phase = "flush" => /\ job \in {"activate", "invalidate", "rewind", "flush"}
                        /\ job # "activate" => coins \in Path[tip]

ActiveGood ==
  /\ job # "invalidate" => Good(tip)
  /\ job = "invalidate" => \A a \in Path[tip] : Failed(a) => target \in Path[a]

TowardsTarget ==
  /\ Working => Good(target) /\ IsBest(target) /\ coins \in Path[tip] \cup Path[target]
  /\ Arrived => IsBest(tip)

Pruned == \A c \in candidates : ~Worse(c, tip)

ActInv ==
  /\ CoinsFollow
  /\ ActiveGood
  /\ TowardsTarget
  /\ Pruned
  /\ PruneAssertion

(* The order, and what is best, do not change while the candidates and      *)
(* their numbers do not.                                                    *)
LEMMA SameOrder ==
  ASSUME UNCHANGED <<seq, address>>
  PROVE  \A a, b \in Blocks : Worse(a, b)' <=> Worse(a, b)
BY DEF Worse, WorseBy

LEMMA SameBest ==
  ASSUME IInv, UNCHANGED <<seq, address>>, candidates' \subseteq candidates,
         NEW c \in candidates', IsBest(c)
  PROVE  IsBest(c)'
<1>1. candidates \subseteq Blocks
  BY DEF IInv, TypeOK
<1>2. \A d \in candidates' : ~Worse(c, d)'
  BY <1>1, SameOrder DEF IsBest
<1> QED
  BY <1>2 DEF IsBest

(* Steps that leave the failure flags, the candidates and the tip alone.    *)
LEMMA ActSame ==
  ASSUME IInv, ActInv, UNCHANGED <<seq, address, candidates, tip>>,
         \A a \in Blocks : Failed(a)' => Failed(a),
         CoinsFollow', job # "invalidate", job' \notin {"invalidate", "aborted"},
         Working' => target' \in Blocks /\ Good(target') /\ IsBest(target')
                     /\ coins' \in Path[tip] \cup Path[target'],
         Arrived' => IsBest(tip)
  PROVE  ActInv'
<1>1. tip \in Blocks /\ candidates \subseteq Blocks
  BY DEF IInv, TypeOK
<1>2. ActiveGood'
  BY <1>1, PathFacts DEF ActInv, ActiveGood, Good
<1>3. TowardsTarget'
  <2>1. ASSUME Working' PROVE (Good(target) /\ IsBest(target) /\ coins \in Path[tip] \cup Path[target])'
    <3>1. Good(target)'
      BY <2>1, PathFacts DEF Good
    <3>2. IsBest(target)'
      BY <2>1, <1>1, SameOrder DEF IsBest
    <3> QED
      BY <2>1, <3>1, <3>2
  <2>2. ASSUME Arrived' PROVE IsBest(tip)'
    BY <2>2, <1>1, SameOrder DEF IsBest
  <2> QED
    BY <2>1, <2>2 DEF TowardsTarget
<1>4. Pruned'
  BY <1>1, SameOrder DEF ActInv, Pruned
<1>5. PruneAssertion'
  BY DEF PruneAssertion
<1> QED
  BY <1>2, <1>3, <1>4, <1>5 DEF ActInv

(* Steps that change no flag. *)
LEMMA FailedSame ==
  ASSUME UNCHANGED nStatus
  PROVE  \A a \in Blocks : Failed(a)' <=> Failed(a)
BY DEF Failed

LEMMA AcceptBlockHeaderActs ==
  ASSUME IInv, ActInv, NEW b \in Blocks, AcceptBlockHeader(b) PROVE ActInv'
<1>1. job = "none" /\ phase = "run" /\ UNCHANGED <<job, phase>>
  BY DEF AcceptBlockHeader, CanAccept, control, IInv, ControlConsistent
<1>2. \A a \in Blocks : Failed(a)' => Failed(a)
  BY DEF AcceptBlockHeader, Failed, IInv, TypeOK
<1>3. CoinsFollow' /\ ~Working' /\ ~Arrived'
  BY <1>1 DEF AcceptBlockHeader, ActInv, CoinsFollow, Working, Arrived
<1> QED
  BY <1>1, <1>2, <1>3, ActSame DEF AcceptBlockHeader

LEMMA AcceptKnownBlockActs ==
  ASSUME IInv, ActInv, NEW b \in Blocks, AcceptKnownBlock(b) PROVE ActInv'
<1>1. job = "none" /\ phase = "run" /\ job' = "activate" /\ phase' = "accepted"
  BY DEF AcceptKnownBlock, StartHeldActivation, CanAccept, IInv, ControlConsistent
<1>2. CoinsFollow' /\ ~Working' /\ ~Arrived'
  BY <1>1 DEF AcceptKnownBlock, memory, ActInv, CoinsFollow, Working, Arrived
<1> QED
  BY <1>1, <1>2, FailedSame, ActSame DEF AcceptKnownBlock, memory

LEMMA ActivateUnheldActs == ASSUME IInv, ActInv, ActivateUnheld PROVE ActInv'
<1>1. job = "none" /\ phase = "run" /\ job' = "activate" /\ phase' = "find"
  BY DEF ActivateUnheld, IInv, ControlConsistent
<1>2. CoinsFollow' /\ ~Working' /\ ~Arrived'
  BY <1>1 DEF ActivateUnheld, memory, ActInv, CoinsFollow, Working, Arrived
<1> QED
  BY <1>1, <1>2, FailedSame, ActSame DEF ActivateUnheld, memory

LEMMA AcceptedActs == ASSUME IInv, ActInv, Accepted PROVE ActInv'
<1>1. job = "activate" /\ phase = "accepted" /\ job' = "activate" /\ phase' = "find"
  BY DEF Accepted, Goto, IInv, ControlConsistent
<1>2. CoinsFollow' /\ ~Working' /\ ~Arrived'
  BY <1>1 DEF Accepted, memory, ActInv, CoinsFollow, Working, Arrived
<1> QED
  BY <1>1, <1>2, FailedSame, ActSame DEF Accepted, memory

(* The active chain is free of failed blocks, and so is the branch. *)
LEMMA ChooseCandidateActs ==
  ASSUME IInv, ActInv, NEW c \in Blocks, ChooseCandidate(c) PROVE ActInv'
<1>1. job = "activate" /\ phase = "find" /\ job' = "activate" /\ phase' = "step" /\ target' = c
  BY DEF ChooseCandidate, IInv, ControlConsistent
<1>2. CoinsFollow' /\ ~Arrived'
  BY <1>1 DEF ChooseCandidate, memory, ActInv, CoinsFollow, Arrived
<1>3. Good(c)
  BY <1>1 DEF ChooseCandidate, Unusable, Branch, Good, ActInv, ActiveGood
<1>4. IsBest(c)
  BY DEF ChooseCandidate
<1>5. coins' \in Path[tip]
  BY <1>1, PathFacts DEF ChooseCandidate, memory, ActInv, CoinsFollow, IInv, TypeOK
<1> QED
  BY <1>1, <1>2, <1>3, <1>4, <1>5, FailedSame, ActSame DEF ChooseCandidate, memory

LEMMA NothingBetterActs == ASSUME IInv, ActInv, NothingBetter PROVE ActInv'
<1>1. job = "activate" /\ phase = "find" /\ job' = "none" /\ phase' = "run"
  BY DEF NothingBetter, ActivationReturns, Release, IInv, ControlConsistent
<1>2. CoinsFollow' /\ ~Working' /\ ~Arrived'
  BY <1>1 DEF NothingBetter, memory, ActInv, CoinsFollow, Working, Arrived
<1> QED
  BY <1>1, <1>2, FailedSame, ActSame DEF NothingBetter, memory

LEMMA StepDisconnectActs == ASSUME IInv, ActInv, StepDisconnect PROVE ActInv'
<1>1. job = "activate" /\ phase = "step" /\ job' = "activate" /\ phase' = "flush"
      /\ target' = target /\ target \in Blocks
  BY DEF StepDisconnect, DisconnectTip, IInv, TypeOK, ControlConsistent
<1>2. coins' \in Path[tip] /\ coins' # tip'
  BY PathFacts DEF StepDisconnect, DisconnectTip, IInv, TypeOK
<1>3. CoinsFollow' /\ ~Arrived'
  BY <1>1, <1>2 DEF StepDisconnect, CoinsFollow, Arrived
<1>4. Good(target) /\ IsBest(target)
  BY <1>1 DEF ActInv, TowardsTarget, Working
<1> QED
  BY <1>1, <1>2, <1>3, <1>4, FailedSame, ActSame DEF StepDisconnect

LEMMA FinishActivationActs == ASSUME IInv, ActInv, FinishActivation PROVE ActInv'
<1>1. job = "activate" /\ phase = "finish" /\ coins = tip /\ coins' = coins /\ tip' = tip
      /\ IsBest(tip)
  BY DEF FinishActivation, memory, IInv, ControlConsistent, ActInv, CoinsFollow,
         TowardsTarget, Arrived
<1>2. \/ job' = "none" /\ phase' = "run"
      \/ job' = "activate" /\ phase' = "flush"
  BY <1>1 DEF FinishActivation, ActivationReturns, Release, Goto
<1>3. CoinsFollow' /\ ~Working'
  BY <1>1, <1>2 DEF CoinsFollow, Working
<1> QED
  BY <1>1, <1>2, <1>3, FailedSame, ActSame DEF FinishActivation, memory

LEMMA DisconnectBlocksAndReprocessActs ==
  ASSUME IInv, ActInv, NEW n \in Rewinds, DisconnectBlocksAndReprocess(n) PROVE ActInv'
<1>1. job = "none" /\ phase = "run" /\ job' = "rewind" /\ phase' = "run"
  BY DEF DisconnectBlocksAndReprocess, IInv, ControlConsistent
<1>2. CoinsFollow' /\ ~Working' /\ ~Arrived'
  BY <1>1 DEF DisconnectBlocksAndReprocess, memory, ActInv, CoinsFollow, Working, Arrived
<1> QED
  BY <1>1, <1>2, FailedSame, ActSame DEF DisconnectBlocksAndReprocess, memory

LEMMA RewindDisconnectActs == ASSUME IInv, ActInv, RewindDisconnect PROVE ActInv'
<1>1. job = "rewind" /\ phase = "run" /\ job' = "rewind" /\ phase' \in {"run", "flush"}
      /\ coins = tip /\ tip' = tip /\ tip \in Blocks
  BY DEF RewindDisconnect, DisconnectTip, ActInv, CoinsFollow, IInv, TypeOK
<1>2. phase' = "flush" => coins' \in Path[tip]
  BY <1>1, PathFacts DEF RewindDisconnect, DisconnectTip
<1>3. phase' = "run" => coins' = coins
  BY <1>1 DEF RewindDisconnect, DisconnectTip
<1>4. CoinsFollow' /\ ~Working' /\ ~Arrived'
  BY <1>1, <1>2, <1>3 DEF CoinsFollow, Working, Arrived
<1> QED
  BY <1>1, <1>4, FailedSame, ActSame DEF RewindDisconnect

LEMMA RewindReturnsActs == ASSUME IInv, ActInv, RewindReturns PROVE ActInv'
<1>1. job = "rewind" /\ phase = "run" /\ job' = "none" /\ phase' = "run"
  BY DEF RewindReturns, Release
<1>2. CoinsFollow' /\ ~Working' /\ ~Arrived'
  BY <1>1 DEF RewindReturns, memory, ActInv, CoinsFollow, Working, Arrived
<1> QED
  BY <1>1, <1>2, FailedSame, ActSame DEF RewindReturns, memory

LEMMA FlushRequestedActs == ASSUME IInv, ActInv, FlushRequested PROVE ActInv'
<1>1. job = "none" /\ phase = "run" /\ job' = "flush" /\ phase' = "flush"
  BY DEF FlushRequested, IInv, ControlConsistent
<1>2. coins \in Path[tip]
  BY <1>1, PathFacts DEF ActInv, CoinsFollow, IInv, TypeOK
<1>3. CoinsFollow' /\ ~Working' /\ ~Arrived'
  BY <1>1, <1>2 DEF FlushRequested, memory, CoinsFollow, Working, Arrived
<1> QED
  BY <1>1, <1>3, FailedSame, ActSame DEF FlushRequested, memory

LEMMA WriteBlockIndexActs ==
  ASSUME IInv, ActInv, NEW b \in Blocks, WriteBlockIndex(b) PROVE ActInv'
<1>1. UNCHANGED <<nStatus, seq, candidates, tip, coins, address, job, phase, target>>
  BY DEF WriteBlockIndex, control
<1>2. ActInv <=> ActInv'
  BY <1>1 DEF ActInv, CoinsFollow, ActiveGood, Good, Failed, TowardsTarget, Working, Arrived,
              IsBest, Pruned, Worse, WorseBy, PruneAssertion
<1> QED
  BY <1>2

-----------------------------------------------------------------------------
(* Steps that mark blocks as failed, or no longer as failed.                *)

(* A block refused for its contents has no data, and is not active. *)
LEMMA RejectBlockActs ==
  ASSUME IInv, ActInv, NEW b \in Blocks, RejectBlock(b) PROVE ActInv'
<1>1. job = "none" /\ phase = "run" /\ job' = "none" /\ phase' = "run" /\ target' = target
      /\ UNCHANGED <<seq, candidates, tip, coins, address>>
  BY DEF RejectBlock, CanAccept, control, IInv, ControlConsistent
<1>2. b \notin Path[tip]
  BY DEF RejectBlock, IInv, TipsLinked, LinkedTree
<1>3. \A a \in Path[tip] : ~Failed(a)'
  <2>1. \A a \in Blocks : a # b => nStatus'[a] = nStatus[a]
    BY DEF RejectBlock, IInv, TypeOK
  <2> QED
    BY <1>1, <1>2, <2>1, PathFacts DEF ActInv, ActiveGood, Good, Failed, IInv, TypeOK
<1>4. ActiveGood'
  BY <1>1, <1>3 DEF ActiveGood, Good
<1>5. CoinsFollow' /\ TowardsTarget' /\ PruneAssertion'
  BY <1>1 DEF ActInv, CoinsFollow, TowardsTarget, Working, Arrived, PruneAssertion
<1>6. Pruned'
  BY <1>1, SameOrder DEF ActInv, Pruned, IInv, TypeOK
<1> QED
  BY <1>4, <1>5, <1>6 DEF ActInv

(* What is marked lies above a failed block that is not active. *)
LEMMA DropCandidateActs ==
  ASSUME IInv, ActInv, NEW c \in Blocks, NEW u \in Blocks, DropCandidate(c, u) PROVE ActInv'
<1>1. job = "activate" /\ phase = "find" /\ job' = "activate" /\ phase' = "find"
      /\ UNCHANGED <<seq, tip, coins, address>> /\ candidates' \subseteq candidates
  BY DEF DropCandidate, control, IInv, ControlConsistent
<1>2. u \in Path[c] /\ u \notin Path[tip] /\ tip \in Blocks
  BY DEF DropCandidate, FirstUnusable, Unusable, Branch, IInv, TypeOK
<1>3. \A d \in Path[c] \ Path[u] : d \notin Path[tip]
  BY <1>2, TreeAssumption
<1>4. \A a \in Path[tip] : nStatus'[a] = nStatus[a]
  BY <1>2, <1>3, PathFacts DEF DropCandidate
<1>5. ActiveGood'
  BY <1>1, <1>4 DEF ActInv, ActiveGood, Good, Failed
<1>6. CoinsFollow' /\ TowardsTarget' /\ PruneAssertion'
  BY <1>1 DEF ActInv, CoinsFollow, TowardsTarget, Working, Arrived, PruneAssertion
<1>7. Pruned'
  BY <1>1, SameOrder DEF ActInv, Pruned, IInv, TypeOK
<1> QED
  BY <1>5, <1>6, <1>7 DEF ActInv

(* The block refused comes after the tip, and the step ends there. *)
LEMMA StepRejectActs ==
  ASSUME IInv, ActInv, NEW b \in Blocks, StepReject(b) PROVE ActInv'
<1>1. job = "activate" /\ phase = "step" /\ coins = tip
      /\ UNCHANGED <<seq, tip, coins, address>> /\ candidates' \subseteq candidates
  BY DEF StepReject, InvalidBlockFound, IInv, ControlConsistent, ActInv, CoinsFollow
<1>2. b # Genesis /\ Parent[b] = tip /\ b \in Path[target] /\ b \notin Path[tip]
  BY PathFacts DEF StepReject, IsNext
<1>3. tip # target
  BY <1>2
<1>4. (job' = "activate" /\ phase' = "find") \/ (job' = "none" /\ phase' = "run")
  BY <1>1, <1>3 DEF StepReject, Continue, Goto, Release
<1>5. \A a \in Path[tip] : nStatus'[a] = nStatus[a]
  BY <1>2, PathFacts DEF StepReject, InvalidBlockFound, IInv, TypeOK
<1>6. ActiveGood'
  BY <1>1, <1>4, <1>5 DEF ActInv, ActiveGood, Good, Failed
<1>7. CoinsFollow' /\ TowardsTarget' /\ PruneAssertion'
  BY <1>1, <1>4 DEF CoinsFollow, TowardsTarget, Working, Arrived, PruneAssertion
<1>8. Pruned'
  BY <1>1, SameOrder DEF ActInv, Pruned, IInv, TypeOK
<1> QED
  BY <1>6, <1>7, <1>8 DEF ActInv

LEMMA InvalidateBlockActs ==
  ASSUME IInv, ActInv, NEW b \in Blocks, InvalidateBlock(b) PROVE ActInv'
<1>1. job = "none" /\ phase = "run" /\ job' = "invalidate" /\ phase' = "run" /\ target' = b
      /\ UNCHANGED <<seq, tip, coins, address>> /\ candidates' \subseteq candidates
  BY DEF InvalidateBlock, IInv, ControlConsistent
<1>2. \A a \in Path[tip] : Failed(a)' => a = b
  BY <1>1, PathFacts DEF InvalidateBlock, ActInv, ActiveGood, Good, Failed, IInv, TypeOK
<1>3. ActiveGood'
  BY <1>1, <1>2, PathFacts DEF ActiveGood
<1>4. CoinsFollow' /\ TowardsTarget' /\ PruneAssertion'
  BY <1>1 DEF ActInv, CoinsFollow, TowardsTarget, Working, Arrived, PruneAssertion
<1>5. Pruned'
  BY <1>1, SameOrder DEF ActInv, Pruned, IInv, TypeOK
<1> QED
  BY <1>3, <1>4, <1>5 DEF ActInv

LEMMA InvalidateDisconnectActs ==
  ASSUME IInv, ActInv, InvalidateDisconnect PROVE ActInv'
<1>1. job = "invalidate" /\ job' = "invalidate" /\ phase' = "flush" /\ target' = target
      /\ UNCHANGED <<seq, tip, address>> /\ candidates' \subseteq candidates
  BY DEF InvalidateDisconnect, DisconnectTip
<1>2. tip \in Blocks /\ target \in Path[tip] /\ coins' \in Path[tip]
  BY PathFacts DEF InvalidateDisconnect, DisconnectTip, Active, IInv, TypeOK
<1>3. \A a \in Path[tip] : Failed(a)' => Failed(a) \/ a = tip
  BY <1>2, PathFacts DEF InvalidateDisconnect, Failed, IInv, TypeOK
<1>4. ActiveGood'
  BY <1>1, <1>2, <1>3 DEF ActInv, ActiveGood
<1>5. CoinsFollow' /\ TowardsTarget' /\ PruneAssertion'
  BY <1>1, <1>2 DEF CoinsFollow, TowardsTarget, Working, Arrived, PruneAssertion
<1>6. Pruned'
  BY <1>1, SameOrder DEF ActInv, Pruned, IInv, TypeOK
<1> QED
  BY <1>4, <1>5, <1>6 DEF ActInv

(* All that was marked on the way down lies above the target. *)
LEMMA InvalidateReturnsActs ==
  ASSUME IInv, ActInv, InvalidateReturns PROVE ActInv'
<1>1. job = "invalidate" /\ phase = "run" /\ job' = "none" /\ phase' = "run"
      /\ UNCHANGED <<nStatus, seq, tip, coins, address>>
  BY DEF InvalidateReturns, Release
<1>2. target \notin Path[tip] /\ tip \in Blocks
  BY DEF InvalidateReturns, Active, IInv, TypeOK
<1>3. \A a \in Path[tip] : ~Failed(a)
  BY <1>1, <1>2, PathFacts DEF ActInv, ActiveGood
<1>4. ActiveGood'
  BY <1>1, <1>3 DEF ActiveGood, Good, Failed
<1>5. CoinsFollow' /\ TowardsTarget' /\ PruneAssertion'
  BY <1>1 DEF ActInv, CoinsFollow, TowardsTarget, Working, Arrived, PruneAssertion
<1>6. Pruned'
  <2>1. \A c \in candidates' : c \in Blocks /\ ~Worse(c, tip)
    BY DEF InvalidateReturns, Readmitted, ActInv, Pruned, IInv, TypeOK
  <2> QED
    BY <1>1, <1>2, <2>1, SameOrder DEF Pruned
<1> QED
  BY <1>4, <1>5, <1>6 DEF ActInv

LEMMA ReconsiderBlockActs ==
  ASSUME IInv, ActInv, NEW b \in Blocks, ReconsiderBlock(b) PROVE ActInv'
<1>1. job = "none" /\ phase = "run" /\ job' = "none" /\ phase' = "run"
      /\ UNCHANGED <<seq, tip, coins, address>> /\ tip \in Blocks
  BY DEF ReconsiderBlock, IInv, ControlConsistent, TypeOK
<1>2. \A a \in Blocks : Failed(a)' => Failed(a)
  BY DEF ReconsiderBlock, Failed
<1>3. ActiveGood'
  BY <1>1, <1>2, PathFacts DEF ActInv, ActiveGood, Good
<1>4. CoinsFollow' /\ TowardsTarget' /\ PruneAssertion'
  BY <1>1 DEF ActInv, CoinsFollow, TowardsTarget, Working, Arrived, PruneAssertion
<1>5. Pruned'
  <2>1. \A c \in candidates' : c \in Blocks /\ (c \in candidates \/ Worse(tip, c))
    BY DEF ReconsiderBlock, IInv, TypeOK
  <2>2. \A c \in candidates' : c \in Blocks /\ ~Worse(c, tip)
    BY <1>1, <2>1, WorseOrders DEF ActInv, Pruned
  <2> QED
    BY <1>1, <2>2, SameOrder DEF Pruned
<1> QED
  BY <1>3, <1>4, <1>5 DEF ActInv

-----------------------------------------------------------------------------
(* Steps that add candidates or move the tip.                               *)

(* What AcceptBlock links was not linked before. *)
LEMMA NewIsNew ==
  ASSUME IInv, NEW b \in Blocks, ~HasData(b)
  PROVE  NewlyLinked(b) \cap linked = {}
<1>1. b \notin linked
  BY PathFacts DEF IInv, LinkedTree
<1>2. \A d \in unlinked : d \notin linked
  BY PathFacts DEF IInv, LinkedTree
<1> QED
  BY <1>1, <1>2 DEF NewlyLinked

(* The entries that were linked keep their places; the new candidates are   *)
(* not worse than the tip.                                                  *)
LEMMA AcceptBlockOrder ==
  ASSUME IInv, NEW b \in Blocks, AcceptBlock(b)
  PROVE  /\ UNCHANGED <<tip, address>>
         /\ \A c, d \in linked : Worse(c, d)' <=> Worse(c, d)
         /\ candidates \subseteq candidates'
         /\ \A c \in linked' : c \in linked \/ (c \in candidates' <=> ~Worse(c, tip)')
         /\ candidates' \subseteq candidates \cup (linked' \ linked)
<1>1. ~HasData(b) /\ UNCHANGED <<tip, address>>
  BY DEF AcceptBlock
<1>2. CASE Parent[b] \in linked /\ LinkBlocks(NewlyLinked(b))
  <2>1. NewlyLinked(b) \cap linked = {} /\ NewlyLinked(b) \subseteq Blocks /\ linked \subseteq Blocks
    BY <1>1, NewIsNew DEF NewlyLinked, IInv, TypeOK
  <2>2. \A c \in linked : seq'[c] = seq[c]
    BY <1>2, <2>1 DEF LinkBlocks
  <2>3. \A c, d \in linked : Worse(c, d)' <=> Worse(c, d)
    BY <1>1, <2>2 DEF Worse, WorseBy
  <2>4. linked' = linked \cup NewlyLinked(b)
        /\ candidates' = candidates \cup Worthy(NewlyLinked(b), seq')
    BY <1>2 DEF LinkBlocks
  <2>5. \A c \in NewlyLinked(b) : c \in Worthy(NewlyLinked(b), seq') <=> ~Worse(c, tip)'
    BY <1>1 DEF Worthy, Worse
  <2>6. candidates \subseteq linked /\ Worthy(NewlyLinked(b), seq') \subseteq NewlyLinked(b)
    BY DEF Worthy, IInv, LinkedTree
  <2> QED
    BY <1>1, <2>1, <2>3, <2>4, <2>5, <2>6
<1>3. CASE UNCHANGED <<linked, seq, candidates>>
  BY <1>1, <1>3 DEF Worse, WorseBy
<1> QED
  BY <1>2, <1>3 DEF AcceptBlock, ReceivedBlockTransactions

LEMMA AcceptBlockActs ==
  ASSUME IInv, ActInv, NEW b \in Blocks, AcceptBlock(b) PROVE ActInv'
<1>1. job = "none" /\ phase = "run" /\ job' = "activate" /\ phase' = "accepted"
      /\ UNCHANGED <<tip, coins>>
  BY DEF AcceptBlock, CanAccept, StartHeldActivation, IInv, ControlConsistent
<1>2. \A a \in Blocks : Failed(a)' => Failed(a)
  BY DEF AcceptBlock, Failed, IInv, TypeOK
<1>3. ActiveGood'
  BY <1>1, <1>2, PathFacts DEF ActInv, ActiveGood, Good, IInv, TypeOK
<1>4. CoinsFollow' /\ TowardsTarget' /\ PruneAssertion'
  BY <1>1 DEF ActInv, CoinsFollow, TowardsTarget, Working, Arrived, PruneAssertion
<1>5. Pruned'
  <2>1. candidates \subseteq linked /\ tip \in linked
    BY DEF IInv, LinkedTree, TipsLinked
  <2>2. ASSUME NEW c \in candidates' PROVE ~Worse(c, tip)'
    <3>1. CASE c \in candidates
      BY <2>1, <3>1, AcceptBlockOrder DEF ActInv, Pruned
    <3>2. CASE c \in linked' \ linked
      BY <2>2, <3>2, AcceptBlockOrder
    <3> QED
      BY <3>1, <3>2, AcceptBlockOrder
  <2> QED
    BY <1>1, <2>2 DEF Pruned
<1> QED
  BY <1>3, <1>4, <1>5 DEF ActInv

(* The target is not worse than a block on its chain, so it stays, and the  *)
(* candidates do not run out.                                               *)
LEMMA ConnectedActs ==
  ASSUME IInv, ActInv, NEW b \in Blocks, job = "activate", Working, b \in Path[target],
         \A a \in Blocks : Failed(a)' <=> Failed(a), UNCHANGED <<seq, address>>,
         tip' = b, coins' = b, Connected(b)
  PROVE  ActInv' /\ target \in candidates' /\ candidates' = Kept(b) /\ Good(b)
<1>1. target \in candidates /\ Good(target) /\ target \in Blocks /\ IsBest(target)
  BY DEF ActInv, TowardsTarget, IsBest, IInv, TypeOK
<1>2. ~Worse(target, b)
  BY <1>1, WorseOrders
<1>3. target \in Kept(b) /\ candidates' = Kept(b) /\ candidates' \subseteq candidates
  BY <1>1, <1>2 DEF Kept, Connected
<1>4. Continue(b, ChainWork[b] > ChainWork[oldTip])
  BY <1>3 DEF Connected
<1>5. \/ job' = "activate" /\ phase' = "finish" /\ b = target
      \/ job' = "activate" /\ phase' = "step" /\ target' = target
      \/ job' = "activate" /\ phase' = "find"
      \/ job' = "none" /\ phase' = "run"
  BY <1>4 DEF Continue, Goto, Release
<1>6. Good(b) /\ \A a \in Path[b] : ~Failed(a)'
  BY <1>1, PathFacts DEF Good
<1>7. ActiveGood'
  BY <1>5, <1>6 DEF ActiveGood, Good
<1>8. CoinsFollow' /\ PruneAssertion'
  BY <1>5 DEF CoinsFollow, PruneAssertion
<1>9. TowardsTarget'
  <2>1. IsBest(target)'  \/ target' # target
    BY <1>1, <1>3, SameBest
  <2>2. \A a \in Path[target] : ~Failed(a)'
    BY <1>1, PathFacts DEF Good
  <2>3. b \in Path[b]
    BY PathFacts
  <2>4. b = target => IsBest(tip)'
    BY <1>1, <1>3, SameBest
  <2> QED
    BY <1>5, <2>1, <2>2, <2>3, <2>4 DEF TowardsTarget, Working, Arrived, Good
<1>10. Pruned'
  BY <1>3, SameOrder DEF Kept, Pruned, IInv, TypeOK
<1> QED
  BY <1>3, <1>6, <1>7, <1>8, <1>9, <1>10 DEF ActInv

(* What StepConnect leaves alone, and the block it connects. *)
LEMMA StepConnectFacts ==
  ASSUME IInv, ActInv, NEW b \in Blocks, StepConnect(b)
  PROVE  /\ job = "activate" /\ phase = "step" /\ Working /\ coins = tip
         /\ b \in Path[target] /\ b # tip /\ coins' = b
         /\ \A a \in Blocks : Failed(a)' <=> Failed(a)
         /\ UNCHANGED <<seq, address, linked>>
<1>1. b # Genesis /\ Parent[b] = tip /\ b \in Path[target] /\ b # tip
  BY PathFacts DEF StepConnect, IsNext
<1>2. \A a \in Blocks : Failed(a)' <=> Failed(a)
  BY DEF StepConnect, StatusConnected, Failed, IInv, TypeOK
<1> QED
  BY <1>1, <1>2 DEF StepConnect, Working, ActInv, CoinsFollow, IInv, ControlConsistent

LEMMA StepConnectActs ==
  ASSUME IInv, ActInv, NEW b \in Blocks, StepConnect(b) PROVE ActInv'
<1>1. CASE tip' = b /\ Connected(b)
  BY <1>1, StepConnectFacts, ConnectedActs
<1>2. CASE Goto("flush") /\ UNCHANGED <<tip, candidates>>
  <2>1. job' = "activate" /\ phase' = "flush" /\ target' = target /\ target \in Blocks
        /\ job = "activate" /\ phase = "step"
    BY <1>2, StepConnectFacts DEF Goto, IInv, TypeOK
  <2>2. CoinsFollow' /\ ~Arrived'
    BY <1>2, <2>1, StepConnectFacts DEF CoinsFollow, Arrived
  <2>3. Good(target) /\ IsBest(target)
    BY <2>1 DEF ActInv, TowardsTarget, Working
  <2> QED
    BY <1>2, <2>1, <2>2, <2>3, StepConnectFacts, ActSame
<1> QED
  BY <1>1, <1>2 DEF StepConnect

(* The disconnection of an activation goes on with the step. *)
LEMMA FlushCoinsActs == ASSUME IInv, ActInv, FlushCoins PROVE ActInv'
<1>1. phase = "flush" /\ tip' = coins /\ UNCHANGED <<nStatus, seq, coins, address>>
      /\ tip \in Blocks /\ coins \in Blocks /\ target \in Blocks
      /\ job \in {"activate", "invalidate", "rewind", "flush"}
  BY DEF FlushCoins, ActInv, CoinsFollow, IInv, TypeOK
<1>2. \A a \in Blocks : Failed(a)' <=> Failed(a)
  BY <1>1, FailedSame
<1>3. CASE coins = tip /\ job \in {"activate", "flush"}
  <2>1. job' = "none" /\ phase' = "run" /\ UNCHANGED <<candidates, tip>>
    BY <1>1, <1>3, PathFacts DEF FlushCoins, ActivationReturns, Release
  <2>2. CoinsFollow' /\ ~Working' /\ ~Arrived'
    BY <1>1, <2>1 DEF CoinsFollow, Working, Arrived
  <2> QED
    BY <1>1, <1>2, <1>3, <2>1, <2>2, ActSame
<1>4. CASE coins # tip /\ coins \in Path[tip] /\ job = "activate"
  <2>1. job' = "activate" /\ phase' = "step" /\ target' = target /\ UNCHANGED candidates
    BY <1>4 DEF FlushCoins, Goto
  <2>2. Good(target) /\ IsBest(target) /\ Good(tip)
    BY <1>1, <1>4 DEF ActInv, TowardsTarget, ActiveGood, Working
  <2>3. CoinsFollow' /\ PruneAssertion'
    BY <1>1, <2>1 DEF CoinsFollow, PruneAssertion
  <2>4. ActiveGood'
    BY <1>1, <1>2, <1>4, <2>1, <2>2, PathFacts DEF ActiveGood, Good
  <2>5. TowardsTarget'
    <3>1. Good(target)'
      BY <1>1, <1>2, <2>1, <2>2, PathFacts DEF Good
    <3>2. IsBest(target)'
      BY <1>1, <2>1, <2>2, SameOrder DEF IsBest, IInv, TypeOK
    <3>3. coins \in Path[coins]
      BY <1>1, PathFacts
    <3> QED
      BY <1>1, <2>1, <3>1, <3>2, <3>3 DEF TowardsTarget, Arrived
  <2>6. Pruned'
    <3>1. ~Worse(tip, coins)
      BY <1>1, <1>4, WorseOrders
    <3>2. \A c \in candidates : c \in Blocks /\ ~Worse(c, coins)
      BY <1>1, <3>1, WorseOrders DEF ActInv, Pruned, IInv, TypeOK
    <3> QED
      BY <1>1, <2>1, <3>2, SameOrder DEF Pruned
  <2> QED
    BY <2>3, <2>4, <2>5, <2>6 DEF ActInv
<1>5. CASE coins \notin Path[tip] /\ job = "activate"
  <2>1. coins # tip
    BY <1>1, <1>5, PathFacts
  <2>2. Connected(coins) /\ Working
    BY <1>1, <1>5, <2>1 DEF FlushCoins, Working
  <2>3. coins \in Path[target]
    BY <1>5, <2>2 DEF ActInv, TowardsTarget
  <2> QED
    BY <1>1, <1>2, <1>5, <2>2, <2>3, ConnectedActs
<1>6. CASE job \in {"invalidate", "rewind"}
  <2>1. job' = job /\ phase' = "run" /\ target' = target /\ UNCHANGED candidates
    BY <1>6 DEF FlushCoins, Goto
  <2>2. coins \in Path[tip] /\ Path[coins] \subseteq Path[tip]
    BY <1>1, <1>6, PathFacts DEF ActInv, CoinsFollow
  <2>3. CoinsFollow' /\ PruneAssertion' /\ TowardsTarget'
    BY <1>1, <1>6, <2>1 DEF CoinsFollow, PruneAssertion, TowardsTarget, Working, Arrived
  <2>4. ActiveGood'
    BY <1>1, <1>2, <2>1, <2>2, PathFacts DEF ActInv, ActiveGood, Good
  <2>5. Pruned'
    <3>1. ~Worse(tip, coins)
      BY <1>1, <2>2, WorseOrders
    <3>2. \A c \in candidates : c \in Blocks /\ ~Worse(c, coins)
      BY <1>1, <3>1, WorseOrders DEF ActInv, Pruned, IInv, TypeOK
    <3> QED
      BY <1>1, <2>1, <3>2, SameOrder DEF Pruned
  <2> QED
    BY <2>3, <2>4, <2>5 DEF ActInv
<1> QED
  <2>1. job = "flush" => coins = tip
    BY <1>1, <1>6 DEF FlushCoins
  <2> QED
    BY <1>1, <1>3, <1>4, <1>5, <1>6, <2>1

(* The tip that is loaded is a candidate, unless its chain has failed. *)
LEMMA RestartFacts ==
  ASSUME IInv, CrashAndRestart, Good(tip)'
  PROVE  /\ tip' \in candidates' /\ tip' \in Blocks /\ UNCHANGED disk
         /\ \A c \in linked' : c \in candidates' <=> ~Failed(c)' /\ ~Worse(c, tip)'
         /\ candidates' \subseteq linked'
<1>1. diskCoins \in Blocks /\ tip' = diskCoins /\ UNCHANGED disk /\ nStatus' = diskStatus
      /\ linked' = LoadedLinked /\ address' \in Addresses
      /\ seq' = [b \in Blocks |-> 0] /\ candidates' = LoadedCandidates(address')
  BY DEF CrashAndRestart, IInv, TypeOK
<1>2. candidates' = {c \in linked' : nStatus'[c] \cap {"failedValid", "failedChild"} = {}
                                     /\ ~WorseBy(c, tip', seq', address')}
  BY <1>1 DEF LoadedCandidates
<1>3. \A c \in linked' : c \in candidates' <=> ~Failed(c)' /\ ~Worse(c, tip)'
  BY <1>2 DEF Failed, Worse
<1>4. nStatus'[diskCoins] \cap {"failedValid", "failedChild"} = {}
  BY <1>1, PathFacts DEF Good, Failed
<1>5. diskCoins \in LoadedLinked
  BY <1>1, PathFacts DEF IInv, DiskRecoverable, LoadedLinked
<1>6. ~WorseBy(diskCoins, diskCoins, seq', address')
  <2>1. seq' \in [Blocks -> Nat]
    BY <1>1
  <2> QED
    BY <1>1, <2>1, ComparatorOrders
<1> QED
  BY <1>1, <1>2, <1>3, <1>4, <1>5, <1>6

LEMMA CrashAndRestartActs ==
  ASSUME IInv, ActInv, CrashAndRestart, Good(tip)' PROVE ActInv'
<1>1. job' \in {"none", "corrupt"} /\ phase' = "run" /\ coins' = tip'
  BY RestartFacts DEF CrashAndRestart
<1>2. ActiveGood' /\ CoinsFollow' /\ PruneAssertion' /\ TowardsTarget'
  BY <1>1 DEF ActiveGood, CoinsFollow, PruneAssertion, TowardsTarget, Working, Arrived
<1>3. Pruned'
  BY RestartFacts DEF Pruned
<1> QED
  BY <1>2, <1>3 DEF ActInv

(* Only the genesis block is there. *)
LEMMA InitAct == Init => ActInv
<1> SUFFICES ASSUME Init PROVE ActInv
  OBVIOUS
<1>1. IInv
  BY InitIInv
<1>2. \A a \in Blocks : ~Failed(a)
  BY DEF Init, Failed
<1>3. ActiveGood
  BY <1>2, PathFacts DEF Init, ActiveGood, Good
<1>4. CoinsFollow /\ PruneAssertion /\ TowardsTarget
  BY DEF Init, CoinsFollow, PruneAssertion, TowardsTarget, Working, Arrived
<1>5. Pruned
  BY <1>1, WorseOrders, PathFacts DEF Init, Pruned
<1> QED
  BY <1>3, <1>4, <1>5 DEF ActInv

(* One case per action; a restart is the step the hypothesis is about. *)
LEMMA ActInductive == IInv /\ ActInv /\ [Next]_vars /\ [GoodRestart]_vars => ActInv'
<1> SUFFICES ASSUME IInv, ActInv, [Next]_vars, [GoodRestart]_vars PROVE ActInv'
  OBVIOUS
<1>1. ASSUME Internal PROVE ActInv'
  <2>1. CASE Accepted \/ NothingBetter \/ StepDisconnect \/ FinishActivation
    BY <2>1, AcceptedActs, NothingBetterActs, StepDisconnectActs, FinishActivationActs
  <2>2. ASSUME NEW c \in Blocks, NEW u \in Blocks, ChooseCandidate(c) \/ DropCandidate(c, u)
        PROVE  ActInv'
    BY <2>2, ChooseCandidateActs, DropCandidateActs
  <2>3. ASSUME NEW b \in Blocks, StepConnect(b) \/ StepReject(b) \/ WriteBlockIndex(b)
        PROVE  ActInv'
    BY <2>3, StepConnectActs, StepRejectActs, WriteBlockIndexActs
  <2>4. CASE InvalidateDisconnect \/ InvalidateReturns \/ RewindDisconnect \/ RewindReturns
    BY <2>4, InvalidateDisconnectActs, InvalidateReturnsActs, RewindDisconnectActs,
       RewindReturnsActs
  <2>5. CASE FlushCoins
    BY <2>5, FlushCoinsActs
  <2>6. QED
    BY <1>1, <2>1, <2>2, <2>3, <2>4, <2>5 DEF Internal
<1>2. ASSUME NEW b \in Blocks, AcceptBlockHeader(b) \/ RejectBlock(b) \/ AcceptBlock(b) \/ AcceptKnownBlock(b)
      PROVE  ActInv'
  BY <1>2, AcceptBlockHeaderActs, RejectBlockActs, AcceptBlockActs, AcceptKnownBlockActs
<1>3. ASSUME NEW b \in Invalidatable, InvalidateBlock(b) PROVE ActInv'
  BY <1>3, InvalidateBlockActs, InputAssumption
<1>4. ASSUME NEW b \in Reconsiderable, ReconsiderBlock(b) PROVE ActInv'
  BY <1>4, ReconsiderBlockActs, InputAssumption
<1>5. ASSUME NEW n \in Rewinds, DisconnectBlocksAndReprocess(n) PROVE ActInv'
  BY <1>5, DisconnectBlocksAndReprocessActs
<1>6. CASE ActivateUnheld \/ FlushRequested
  BY <1>6, ActivateUnheldActs, FlushRequestedActs
<1>7. CASE CrashAndRestart
  <2>1. crashes' # crashes
    BY <1>7 DEF CrashAndRestart, IInv, TypeOK
  <2> QED
    BY <1>7, <2>1, CrashAndRestartActs DEF GoodRestart, vars
<1>8. CASE UNCHANGED vars
  BY <1>8 DEF vars, memory, disk, control, ActInv, CoinsFollow, ActiveGood, Good, Failed,
              TowardsTarget, Working, Arrived, IsBest, Pruned, Worse, WorseBy, PruneAssertion
<1> QED
  BY <1>1, <1>2, <1>3, <1>4, <1>5, <1>6, <1>7, <1>8 DEF Next

(* ActInv holds throughout, if restarts load good chains. *)
LEMMA ActInvariant == Spec /\ [][GoodRestart]_vars => []ActInv
BY Invariant, InitAct, ActInductive, PTL DEF Spec

(* The assertions of PruneBlockIndexCandidates, and that of the start, hold *)
(* for every tree: after ConnectTip the target of the activation is still   *)
(* a candidate, because nothing better than it can be connected on the way, *)
(* and a tip that is loaded with a good chain is one.                       *)
THEOREM PruneTheorem == Spec /\ [][GoodRestart]_vars => []PruneAssertion
<1>1. ActInv => PruneAssertion
  BY DEF ActInv
<1> QED
  BY <1>1, ActInvariant, PTL

(* FindMostWorkChain may look no further than the active chain: whatever is *)
(* received, rejected, invalidated and reconsidered, no block of the active *)
(* chain is marked as failed, except while an invalidation goes on, and     *)
(* then only descendants of the block being invalidated.                    *)
THEOREM ActiveChainValidTheorem == Spec /\ [][GoodRestart]_vars => []ActiveChainValid
<1>1. ActInv => ActiveChainValid
  BY DEF ActInv, ActiveGood, Good, ActiveChainValid
<1> QED
  BY <1>1, ActInvariant, PTL

(* While an invalidation goes on the tip only moves back. *)
LEMMA InvalidationMovesBack ==
  ASSUME IInv, ActInv, [Next]_vars, crashes' = crashes, job' = "invalidate"
  PROVE  tip' \in Path[tip]
<1>0. tip \in Blocks /\ tip \in Path[tip]
  BY PathFacts DEF IInv, TypeOK
<1>1. ASSUME Internal PROVE tip' \in Path[tip]
  <2>1. CASE Accepted \/ NothingBetter \/ StepDisconnect \/ FinishActivation
    BY <1>0, <2>1 DEF Accepted, NothingBetter, StepDisconnect, FinishActivation, memory
  <2>2. ASSUME NEW c \in Blocks, NEW u \in Blocks, ChooseCandidate(c) \/ DropCandidate(c, u)
        PROVE  tip' \in Path[tip]
    BY <1>0, <2>2 DEF ChooseCandidate, DropCandidate, memory
  <2>3. ASSUME NEW b \in Blocks, StepReject(b) \/ WriteBlockIndex(b)
        PROVE  tip' \in Path[tip]
    BY <1>0, <2>3 DEF StepReject, WriteBlockIndex
  <2>4. ASSUME NEW b \in Blocks, StepConnect(b)
        PROVE  tip' \in Path[tip]
    <3>1. job' # "invalidate"
      BY <2>4, StepConnectFacts DEF StepConnect, Connected, Continue, Goto, Release, Abort
    <3> QED
      BY <3>1
  <2>5. CASE InvalidateDisconnect \/ InvalidateReturns \/ RewindDisconnect \/ RewindReturns
    BY <1>0, <2>5 DEF InvalidateDisconnect, InvalidateReturns, RewindDisconnect, RewindReturns, memory
  <2>6. CASE FlushCoins
    <3>1. job = "invalidate"
      BY <2>6 DEF FlushCoins, ActivationReturns, Connected, Continue, Goto, Release, Abort
    <3> QED
      BY <2>6, <3>1 DEF FlushCoins, ActInv, CoinsFollow
  <2> QED
    BY <1>1, <2>1, <2>2, <2>3, <2>4, <2>5, <2>6 DEF Internal
<1>2. ASSUME NEW b \in Blocks, AcceptBlockHeader(b) \/ RejectBlock(b) \/ AcceptBlock(b) \/ AcceptKnownBlock(b)
      PROVE  tip' \in Path[tip]
  BY <1>0, <1>2 DEF AcceptBlockHeader, RejectBlock, AcceptBlock, AcceptKnownBlock, memory
<1>3. ASSUME NEW b, InvalidateBlock(b) \/ ReconsiderBlock(b) \/ DisconnectBlocksAndReprocess(b)
      PROVE  tip' \in Path[tip]
  BY <1>0, <1>3 DEF InvalidateBlock, ReconsiderBlock, DisconnectBlocksAndReprocess, memory
<1>4. CASE ActivateUnheld \/ FlushRequested \/ UNCHANGED vars
  BY <1>0, <1>4 DEF ActivateUnheld, FlushRequested, memory, vars
<1>5. CASE CrashAndRestart
  BY <1>5 DEF CrashAndRestart, IInv, TypeOK
<1> QED
  BY <1>1, <1>2, <1>3, <1>4, <1>5 DEF Next

(* ConnectTip never builds on a failed block: only an activation adds work  *)
(* to the tip, and after its step the active chain is good.                 *)
THEOREM NeverExtendsFailedTheorem == Spec /\ [][GoodRestart]_vars => NeverExtendsFailed
<1> DEFINE Step == crashes' = crashes /\ ChainWork[tip'] > ChainWork[tip]
                     => \A a \in Path[tip'] : ~Failed(a)'
<1>1. IInv /\ ActInv /\ ActInv' /\ [Next]_vars => [Step]_vars
  <2> SUFFICES ASSUME IInv, ActInv, ActInv', [Next]_vars, crashes' = crashes,
                      ChainWork[tip'] > ChainWork[tip]
               PROVE  \A a \in Path[tip'] : ~Failed(a)'
    OBVIOUS
  <2>1. CASE job' = "invalidate"
    <3>1. tip \in Blocks /\ tip' \in Path[tip]
      BY <2>1, InvalidationMovesBack DEF IInv, TypeOK
    <3>2. ~(ChainWork[tip'] > ChainWork[tip])
      BY <3>1, WorkGrows, PathFacts, TreeAssumption
    <3> QED
      BY <3>2
  <2>2. CASE job' # "invalidate"
    BY <2>2 DEF ActInv, ActiveGood, Good
  <2> QED
    BY <2>1, <2>2
<1> QED
  BY <1>1, Invariant, ActInvariant, PTL DEF Spec, NeverExtendsFailed

-----------------------------------------------------------------------------
(* The best chain.                                                          *)

(* All scripts of b's chain have been verified. *)
Verified(b) == \A a \in Path[b] \ {Genesis} : "undo" \in nStatus[a]

(* c is a good candidate at least as good as x that no step will reject.    *)
Covers(c, x) == c \in candidates /\ Good(c) /\ Verified(c) /\ ~Worse(c, x)

(* A block that may be chosen and is not a candidate is covered by one.     *)
Covered ==
  job # "invalidate" =>
    \A x \in linked : ~Failed(x) /\ x \notin candidates => \E c \in Blocks : Covers(c, x)

(* When no activation is due, no good candidate has more work than the tip. *)
Settled ==
  job \in {"none", "flush"} /\ ~pending =>
    \A c \in candidates : Good(c) => ChainWork[c] <= ChainWork[tip]

CovInv == Covered /\ Settled

(* WorseOrders in the next state. *)
LEMMA WorseOrdersNext ==
  ASSUME seq' \in [Blocks -> Nat], address' \in Addresses
  PROVE  /\ \A a \in Blocks : ~Worse(a, a)'
         /\ \A a, b, c \in Blocks : ~Worse(a, b)' /\ ~Worse(b, c)' => ~Worse(a, c)'
         /\ \A a, b \in Blocks : Worse(a, b)' => ~Worse(b, a)'
<1>1. /\ \A a \in Blocks : ~Worse(a, a)'
      /\ \A a, b, c \in Blocks : Worse(a, b)' /\ Worse(b, c)' => Worse(a, c)'
      /\ \A a, b \in Blocks : a # b => Worse(a, b)' \/ Worse(b, a)'
  BY ComparatorOrders DEF Worse
<1> QED
  BY <1>1

(* A candidate that has been verified covers the tip: perhaps the tip.      *)
LEMMA TipCovered ==
  ASSUME IInv, ActInv, CovInv, job # "invalidate"
  PROVE  \E c \in Blocks : Covers(c, tip)
<1>1. tip \in Blocks /\ tip \in linked /\ Good(tip) /\ ~Failed(tip)
  BY PathFacts DEF IInv, TypeOK, TipsLinked, ActInv, ActiveGood, Good
<1>2. Verified(tip) /\ ~Worse(tip, tip)
  BY <1>1, WorseOrders DEF IInv, UndoActive, Verified
<1> QED
  BY <1>1, <1>2 DEF CovInv, Covered, Covers

(* What is best is at least as good as every good block. *)
LEMMA BestHasMostWork ==
  ASSUME IInv, IsBest(tip), NEW c \in candidates
  PROVE  ChainWork[c] <= ChainWork[tip]
BY WorseOrders DEF IsBest, IInv, TypeOK

(* A cover stays one while it stays a candidate, is not marked as failed,   *)
(* and the order does not change.                                           *)
LEMMA CoverStays ==
  ASSUME NEW c \in Blocks, NEW x \in Blocks, Covers(c, x), c \in candidates',
         \A a \in Path[c] : Failed(a)' => Failed(a),
         \A a \in Path[c] : "undo" \in nStatus[a] => "undo" \in nStatus'[a],
         UNCHANGED <<seq, address>>
  PROVE  Covers(c, x)'
<1>1. ~Worse(c, x)'
  BY SameOrder DEF Covers
<1> QED
  BY <1>1 DEF Covers, Good, Verified

LEMMA CovSame ==
  ASSUME IInv, CovInv, UNCHANGED <<seq, address, candidates, linked>>, job # "invalidate",
         \A a \in linked : Failed(a)' <=> Failed(a),
         \A a \in linked : "undo" \in nStatus[a] => "undo" \in nStatus'[a]
  PROVE  Covered'
<1> SUFFICES ASSUME NEW x \in linked, ~Failed(x)', x \notin candidates
             PROVE  \E c \in Blocks : Covers(c, x)'
  BY DEF Covered
<1>1. PICK c \in Blocks : Covers(c, x)
  BY DEF CovInv, Covered
<1>2. c \in linked /\ x \in Blocks
  BY <1>1 DEF Covers, IInv, LinkedTree, TypeOK
<1>3. \A a \in Path[c] : a \in linked
  BY <1>2, PathFacts DEF IInv, LinkedTree
<1> QED
  BY <1>1, <1>2, <1>3, CoverStays DEF Covers

(* Nothing that Settled speaks of changes. *)
LEMMA SettledSame ==
  ASSUME IInv, CovInv, UNCHANGED <<candidates, tip, pending>>,
         job \in {"none", "flush"}, \A a \in linked : Failed(a)' <=> Failed(a)
  PROVE  Settled'
<1>1. \A c \in candidates : c \in linked /\ \A a \in Path[c] : a \in linked
  BY PathFacts DEF IInv, LinkedTree
<1> QED
  BY <1>1 DEF CovInv, Settled, Good

LEMMA SameFlags ==
  ASSUME UNCHANGED nStatus
  PROVE  /\ \A a \in linked : Failed(a)' <=> Failed(a)
         /\ \A a \in linked : "undo" \in nStatus[a] => "undo" \in nStatus'[a]
BY DEF Failed

(* Steps in which control alone moves, and an activation or a rewinding is  *)
(* at work afterwards.                                                      *)
LEMMA ControlCovers ==
  ASSUME IInv, CovInv,
         \/ \E b \in Blocks : AcceptKnownBlock(b) \/ ChooseCandidate(b)
         \/ \E n \in Rewinds : DisconnectBlocksAndReprocess(n)
         \/ Accepted \/ ActivateUnheld \/ StepDisconnect \/ RewindDisconnect \/ RewindReturns
  PROVE  CovInv'
<1>1. UNCHANGED <<nStatus, seq, address, candidates, linked>>
  BY DEF AcceptKnownBlock, ChooseCandidate, DisconnectBlocksAndReprocess, Accepted,
         ActivateUnheld, StepDisconnect, RewindDisconnect, RewindReturns, memory
<1>2. job # "invalidate"
  BY DEF AcceptKnownBlock, CanAccept, ChooseCandidate, DisconnectBlocksAndReprocess, Accepted,
         ActivateUnheld, StepDisconnect, RewindDisconnect, RewindReturns, IInv, ControlConsistent
<1>3. job' \in {"activate", "rewind"} \/ pending'
  BY DEF AcceptKnownBlock, StartHeldActivation, ChooseCandidate, DisconnectBlocksAndReprocess,
         Accepted, Goto, ActivateUnheld, StepDisconnect, RewindDisconnect, RewindReturns, Release,
         IInv, ControlConsistent
<1>4. Covered'
  BY <1>1, <1>2, SameFlags, CovSame
<1>5. Settled'
  BY <1>3 DEF Settled
<1> QED
  BY <1>4, <1>5 DEF CovInv

LEMMA AcceptBlockHeaderCovers ==
  ASSUME IInv, CovInv, NEW b \in Blocks, AcceptBlockHeader(b) PROVE CovInv'
<1>1. job = "none" /\ UNCHANGED <<seq, address, candidates, linked, tip, pending>>
  BY DEF AcceptBlockHeader, CanAccept, control
<1>2. /\ \A a \in linked : Failed(a)' <=> Failed(a)
      /\ \A a \in linked : "undo" \in nStatus[a] => "undo" \in nStatus'[a]
  BY DEF AcceptBlockHeader, Failed, IInv, TypeOK
<1> QED
  BY <1>1, <1>2, CovSame, SettledSame DEF CovInv

LEMMA RejectBlockCovers ==
  ASSUME IInv, CovInv, NEW b \in Blocks, RejectBlock(b) PROVE CovInv'
<1>1. job = "none" /\ UNCHANGED <<seq, address, candidates, linked, tip, pending>>
  BY DEF RejectBlock, CanAccept, control
<1>2. b \notin linked
  BY PathFacts DEF RejectBlock, IInv, LinkedTree
<1>3. /\ \A a \in linked : Failed(a)' <=> Failed(a)
      /\ \A a \in linked : "undo" \in nStatus[a] => "undo" \in nStatus'[a]
  BY <1>2 DEF RejectBlock, Failed, IInv, TypeOK
<1> QED
  BY <1>1, <1>3, CovSame, SettledSame DEF CovInv

LEMMA FlushRequestedCovers == ASSUME IInv, CovInv, FlushRequested PROVE CovInv'
<1>1. job = "none" /\ UNCHANGED <<nStatus, seq, address, candidates, linked, tip, pending>>
  BY DEF FlushRequested, memory
<1> QED
  BY <1>1, SameFlags, CovSame, SettledSame DEF CovInv

LEMMA WriteBlockIndexCovers ==
  ASSUME IInv, CovInv, NEW b \in Blocks, WriteBlockIndex(b) PROVE CovInv'
<1>1. UNCHANGED <<nStatus, linked, seq, candidates, tip, address, job, pending>>
  BY DEF WriteBlockIndex, control
<1>2. CovInv <=> CovInv'
  BY <1>1 DEF CovInv, Covered, Covers, Settled, Good, Failed, Verified, Worse, WorseBy
<1> QED
  BY <1>2

(* The activation returns with the best of the candidates. *)
LEMMA NothingBetterCovers == ASSUME IInv, ActInv, CovInv, NothingBetter PROVE CovInv'
<1>1. job = "activate" /\ UNCHANGED <<nStatus, seq, address, candidates, linked, tip>>
  BY DEF NothingBetter, memory, IInv, ControlConsistent
<1>2. IsBest(tip)
  BY <1>1, TipCovered DEF NothingBetter, Covers
<1>3. Settled'
  BY <1>1, <1>2, BestHasMostWork DEF Settled
<1> QED
  BY <1>1, <1>3, SameFlags, CovSame DEF CovInv

LEMMA FinishActivationCovers ==
  ASSUME IInv, ActInv, CovInv, FinishActivation PROVE CovInv'
<1>1. job = "activate" /\ UNCHANGED <<nStatus, seq, address, candidates, linked, tip>>
  BY DEF FinishActivation, memory, IInv, ControlConsistent
<1>2. IsBest(tip)
  BY DEF FinishActivation, ActInv, TowardsTarget, Arrived
<1>3. Settled'
  BY <1>1, <1>2, BestHasMostWork DEF Settled
<1> QED
  BY <1>1, <1>3, SameFlags, CovSame DEF CovInv

(* The branch dropped is marked as failed as far as it is linked, and no    *)
(* cover lies on it.                                                        *)
LEMMA DropFacts ==
  ASSUME IInv, NEW c \in Blocks, NEW u \in Blocks, DropCandidate(c, u)
  PROVE  /\ Failed(u) /\ u \in Path[c] /\ u \notin Path[tip] /\ c \in linked
         /\ job = "activate" /\ phase = "find"
         /\ UNCHANGED <<seq, address, linked, job, tip, held, phase, pending>>
         /\ candidates' = candidates \ ((Path[c] \ Path[u]) \cup {u})
         /\ \A d \in Path[c] \ Path[u] : d \in Blocks /\ u \in Path[d]
         /\ \A a \in Blocks : nStatus'[a] = IF a \in Path[c] \ Path[u]
                                            THEN nStatus[a] \cup {"failedChild"} ELSE nStatus[a]
<1>1. c \in linked
  BY DEF DropCandidate, IsBest, IInv, LinkedTree
<1>2. u \in Path[c] /\ u \notin Path[tip] /\ (Failed(u) \/ ~HasData(u))
  BY DEF DropCandidate, FirstUnusable, Unusable, Branch
<1>3. Failed(u)
  BY <1>1, <1>2 DEF IInv, LinkedTree
<1>4. \A d \in Path[c] \ Path[u] : d \in Blocks /\ u \in Path[d]
  BY <1>2, TreeAssumption, PathFacts
<1> QED
  BY <1>1, <1>2, <1>3, <1>4 DEF DropCandidate, control, IInv, ControlConsistent

LEMMA DropCandidateCovers ==
  ASSUME IInv, CovInv, NEW c \in Blocks, NEW u \in Blocks, DropCandidate(c, u) PROVE CovInv'
<1> SUFFICES ASSUME NEW x \in linked', ~Failed(x)', x \notin candidates'
             PROVE  \E d \in Blocks : Covers(d, x)'
  BY DropFacts DEF CovInv, Covered, Settled
<1>1. x \in linked /\ x \in Blocks
  BY DropFacts DEF IInv, TypeOK
<1>2. ~Failed(x) /\ x \notin candidates
  <2>0. nStatus'[x] = IF x \in Path[c] \ Path[u] THEN nStatus[x] \cup {"failedChild"} ELSE nStatus[x]
    BY <1>1, DropFacts
  <2>1. ~Failed(x) /\ x \notin Path[c] \ Path[u]
    BY <2>0 DEF Failed
  <2>2. x # u
    BY <2>1, DropFacts
  <2> QED
    BY <2>1, <2>2, DropFacts
<1>3. PICK d \in Blocks : Covers(d, x)
  BY <1>1, <1>2, DropFacts DEF CovInv, Covered
<1>4. u \notin Path[d]
  BY <1>3, DropFacts DEF Covers, Good
<1>5. \A a \in Path[d] : a \in Blocks /\ a \notin Path[c] \ Path[u]
  BY <1>4, PathFacts, DropFacts
<1>6. d \in candidates'
  BY <1>3, <1>4, <1>5, PathFacts, DropFacts DEF Covers
<1>7. \A a \in Path[d] : nStatus'[a] = nStatus[a]
  BY <1>5, DropFacts
<1> QED
  BY <1>1, <1>3, <1>6, <1>7, DropFacts, CoverStays DEF Failed

LEMMA StepRejectFacts ==
  ASSUME IInv, NEW b \in Blocks, StepReject(b)
  PROVE  /\ job = "activate" /\ phase = "step" /\ UNCHANGED <<seq, address, linked, tip>>
         /\ candidates' = candidates \ {b} /\ b # Genesis /\ b \in Path[target] /\ tip # target
         /\ Parent[b] = tip
         /\ nStatus'[b] = nStatus[b] \cup {"failedValid"}
         /\ \A a \in Blocks : a # b => nStatus'[a] = nStatus[a]
         /\ IF held THEN job' = "activate" /\ phase' = "find" /\ held'
                    ELSE job' = "none" /\ phase' = "run" /\ pending'
<1>1. b # Genesis /\ Parent[b] = tip /\ b \in Path[target] /\ b \notin Path[tip]
  BY PathFacts DEF StepReject, IsNext
<1>2. tip # target
  BY <1>1
<1>3. Continue(tip, TRUE) /\ job = "activate" /\ phase = "step"
  BY DEF StepReject, IInv, ControlConsistent
<1>4. IF held THEN job' = "activate" /\ phase' = "find" /\ held'
              ELSE job' = "none" /\ phase' = "run" /\ pending'
  BY <1>2, <1>3 DEF Continue, Goto, Release
<1>5. /\ nStatus'[b] = nStatus[b] \cup {"failedValid"}
      /\ \A a \in Blocks : a # b => nStatus'[a] = nStatus[a]
      /\ candidates' = candidates \ {b}
  BY DEF StepReject, InvalidBlockFound, IInv, TypeOK
<1> QED
  BY <1>1, <1>2, <1>3, <1>4, <1>5 DEF StepReject

LEMMA StepRejectCovers ==
  ASSUME IInv, CovInv, NEW b \in Blocks, StepReject(b), "undo" \notin nStatus[b] PROVE CovInv'
<1> SUFFICES ASSUME NEW x \in linked', ~Failed(x)', x \notin candidates'
             PROVE  \E d \in Blocks : Covers(d, x)'
  BY StepRejectFacts DEF CovInv, Covered, Settled
<1>1. x \in linked /\ x \in Blocks
  BY StepRejectFacts DEF IInv, TypeOK
<1>2. x # b /\ ~Failed(x) /\ x \notin candidates
  BY <1>1, StepRejectFacts DEF Failed
<1>3. PICK d \in Blocks : Covers(d, x)
  BY <1>1, <1>2, StepRejectFacts DEF CovInv, Covered
<1>4. b \notin Path[d]
  BY <1>3, StepRejectFacts DEF Covers, Verified
<1>5. d # b /\ \A a \in Path[d] : nStatus'[a] = nStatus[a]
  BY <1>4, PathFacts, StepRejectFacts
<1> QED
  BY <1>1, <1>3, <1>5, StepRejectFacts, CoverStays DEF Covers, Failed

LEMMA InvalidationCovers ==
  ASSUME \/ \E b \in Blocks : InvalidateBlock(b)
         \/ InvalidateDisconnect
  PROVE  CovInv'
<1>1. job' = "invalidate"
  BY DEF InvalidateBlock, InvalidateDisconnect, DisconnectTip
<1> QED
  BY <1>1 DEF CovInv, Covered, Settled

(* All that may be chosen and is not worse than the tip is readmitted. *)
LEMMA InvalidateReturnsCovers ==
  ASSUME IInv, ActInv, ActInv', InvalidateReturns PROVE CovInv'
<1>1. job' = "none" /\ pending' /\ UNCHANGED <<nStatus, linked, seq, tip, address>>
      /\ candidates' = candidates \cup Readmitted
  BY DEF InvalidateReturns, Release
<1>2. tip \in Blocks /\ tip \in linked /\ \A x \in linked : HasData(x) /\ x \in Blocks
  BY PathFacts DEF IInv, TypeOK, TipsLinked, LinkedTree
<1>3. Good(tip) /\ ~Failed(tip)
  BY <1>1, <1>2, PathFacts DEF ActInv, ActiveGood, Good, Failed
<1>4. PICK t \in Blocks : t = tip
  BY <1>2
<1>5. t \in candidates' /\ Good(t)' /\ Verified(t)'
  BY <1>1, <1>2, <1>3, <1>4, WorseOrders DEF Readmitted, Good, Failed, Verified, IInv, UndoActive
<1>6. ASSUME NEW x \in linked, ~Failed(x)', x \notin candidates' PROVE Covers(t, x)'
  <2>1. ~Failed(x)
    BY <1>1, <1>6 DEF Failed
  <2>2. Worse(x, tip)
    BY <1>1, <1>2, <1>6, <2>1 DEF Readmitted
  <2>3. ~Worse(tip, x)
    BY <1>2, <2>2, WorseOrders
  <2>4. ~Worse(t, x)'
    BY <1>1, <1>4, <2>3 DEF Worse, WorseBy
  <2> QED
    BY <1>5, <2>4 DEF Covers
<1>7. Covered'
  BY <1>1, <1>6 DEF Covered
<1> QED
  BY <1>1, <1>7 DEF CovInv, Settled

(* The blocks that are no longer marked and may be chosen are candidates    *)
(* again if they are better than the tip.                                   *)
LEMMA ReconsiderFacts ==
  ASSUME IInv, NEW b \in Blocks, ReconsiderBlock(b), \A a \in Path[b] \ {b} : ~Failed(a)
  PROVE  /\ job = "none" /\ phase = "run" /\ job' = "none" /\ phase' = "run" /\ pending'
         /\ UNCHANGED <<seq, address, linked, tip, target>> /\ candidates \subseteq candidates'
         /\ \A a \in Blocks :
              \/ nStatus'[a] = nStatus[a]
              \/ /\ nStatus'[a] = nStatus[a] \ {"failedValid", "failedChild"}
                 /\ b \in Path[a]
         /\ \A a \in Blocks : b \in Path[a] /\ Known(a) /\ Failed(a) =>
              nStatus'[a] = nStatus[a] \ {"failedValid", "failedChild"}
         /\ \A x \in linked : Failed(x) /\ ~Failed(x)' /\ Worse(tip, x) => x \in candidates'
<1> DEFINE below == {d \in Blocks : b \in Path[d] /\ Known(d) /\ (Failed(d) \/ ~HasData(d))}
           above == {d \in Path[b] : Failed(d)}
<1>1. /\ nStatus' = [d \in Blocks |-> IF d \in below \cup above
                                       THEN nStatus[d] \ {"failedValid", "failedChild"}
                                       ELSE nStatus[d]]
      /\ candidates' = candidates \cup {d \in below \cap linked : HasData(d) /\ Worse(tip, d)}
  BY DEF ReconsiderBlock
<1>2. above \subseteq below
  <2>1. above \subseteq {b}
    OBVIOUS
  <2> QED
    BY <2>1, PathFacts DEF ReconsiderBlock
<1>3. \A x \in linked : x \in Blocks /\ HasData(x)
  BY PathFacts DEF IInv, LinkedTree
<1>4. \A x \in linked : Failed(x) /\ ~Failed(x)' => x \in below
  BY <1>1, <1>2, <1>3 DEF Failed
<1>5. \A x \in linked : Failed(x) /\ ~Failed(x)' /\ Worse(tip, x) => x \in candidates'
  BY <1>1, <1>3, <1>4
<1>6. \A a \in Blocks :
        \/ nStatus'[a] = nStatus[a]
        \/ nStatus'[a] = nStatus[a] \ {"failedValid", "failedChild"} /\ b \in Path[a]
  BY <1>1, <1>2
<1>7. \A a \in Blocks : b \in Path[a] /\ Known(a) /\ Failed(a) =>
        nStatus'[a] = nStatus[a] \ {"failedValid", "failedChild"}
  BY <1>1
<1>8. /\ job = "none" /\ phase = "run" /\ job' = "none" /\ phase' = "run" /\ pending'
      /\ UNCHANGED <<seq, address, linked, tip, target>>
  BY DEF ReconsiderBlock, IInv, ControlConsistent
<1> QED
  BY <1>1, <1>5, <1>6, <1>7, <1>8

LEMMA ReconsiderBlockCovers ==
  ASSUME IInv, ActInv, CovInv, NEW b \in Blocks, ReconsiderBlock(b),
         \A a \in Path[b] \ {b} : ~Failed(a)
  PROVE  CovInv'
<1> SUFFICES ASSUME NEW x \in linked', ~Failed(x)', x \notin candidates'
             PROVE  \E c \in Blocks : Covers(c, x)'
  BY ReconsiderFacts DEF CovInv, Covered, Settled
<1>1. x \in linked /\ x \in Blocks /\ x \notin candidates /\ tip \in Blocks /\ job # "invalidate"
  BY ReconsiderFacts DEF IInv, TypeOK
<1>2. PICK c \in Blocks : Covers(c, x)
  <2>1. CASE ~Failed(x)
    BY <1>1, <2>1 DEF CovInv, Covered
  <2>2. CASE Failed(x)
    <3>1. PICK c \in Blocks : Covers(c, tip)
      BY <1>1, TipCovered
    <3>2. ~Worse(tip, x)
      BY <1>1, <2>2, ReconsiderFacts
    <3>3. ~Worse(c, x)
      BY <1>1, <3>1, <3>2, WorseOrders DEF Covers
    <3> QED
      BY <3>1, <3>3 DEF Covers
  <2> QED
    BY <2>1, <2>2
<1>3. \A a \in Blocks : /\ Failed(a)' => Failed(a)
                        /\ "undo" \in nStatus[a] => "undo" \in nStatus'[a]
  <2> SUFFICES ASSUME NEW a \in Blocks
               PROVE  /\ Failed(a)' => Failed(a)
                      /\ "undo" \in nStatus[a] => "undo" \in nStatus'[a]
    OBVIOUS
  <2>1. nStatus'[a] = nStatus[a] \/ nStatus'[a] = nStatus[a] \ {"failedValid", "failedChild"}
    BY ReconsiderFacts
  <2> QED
    BY <2>1 DEF Failed
<1>4. c \in candidates' /\ Path[c] \subseteq Blocks
  BY <1>2, ReconsiderFacts, PathFacts DEF Covers
<1> QED
  BY <1>1, <1>2, <1>3, <1>4, ReconsiderFacts, CoverStays

(* A new block that is not a candidate is worse than the tip, and so than   *)
(* what covers the tip.                                                     *)
LEMMA AcceptBlockCovers ==
  ASSUME IInv, IInv', ActInv, CovInv, NEW b \in Blocks, AcceptBlock(b) PROVE CovInv'
<1>1. job = "none" /\ job' = "activate" /\ seq' \in [Blocks -> Nat] /\ address' \in Addresses
      /\ linked \subseteq Blocks /\ linked' \subseteq Blocks /\ tip \in linked
      /\ candidates \subseteq linked
  BY DEF AcceptBlock, CanAccept, StartHeldActivation, IInv, TypeOK, TipsLinked, LinkedTree
<1>2. \A a \in Blocks : /\ Failed(a)' <=> Failed(a)
                        /\ "undo" \in nStatus[a] => "undo" \in nStatus'[a]
  BY DEF AcceptBlock, Failed, IInv, TypeOK
<1> SUFFICES ASSUME NEW x \in linked', ~Failed(x)', x \notin candidates'
             PROVE  \E c \in Blocks : Covers(c, x)'
  BY <1>1 DEF CovInv, Covered, Settled
<1>3. ASSUME NEW y \in linked, NEW c \in Blocks, Covers(c, y)
      PROVE  c \in candidates' /\ Good(c)' /\ Verified(c)' /\ ~Worse(c, y)'
  <2>1. c \in linked /\ c \in candidates' /\ Path[c] \subseteq Blocks
    BY <1>1, <1>3, AcceptBlockOrder, PathFacts DEF Covers
  <2>2. ~Worse(c, y)'
    BY <1>3, <2>1, AcceptBlockOrder DEF Covers
  <2>3. Good(c)' /\ Verified(c)'
    BY <1>2, <1>3, <2>1 DEF Covers, Good, Verified
  <2> QED
    BY <2>1, <2>2, <2>3
<1>4. CASE x \in linked
  <2>1. PICK c \in Blocks : Covers(c, x)
    BY <1>1, <1>2, <1>4, AcceptBlockOrder DEF CovInv, Covered
  <2> QED
    BY <1>3, <1>4, <2>1 DEF Covers
<1>5. CASE x \notin linked
  <2>1. PICK c \in Blocks : Covers(c, tip)
    BY <1>1, TipCovered
  <2>2. c \in candidates' /\ Good(c)' /\ Verified(c)' /\ ~Worse(c, tip)'
    <3>1. PICK t \in linked : t = tip
      BY <1>1
    <3>2. c \in candidates' /\ Good(c)' /\ Verified(c)' /\ ~Worse(c, t)'
      BY <1>3, <2>1, <3>1
    <3>3. tip' = t
      BY <3>1, AcceptBlockOrder
    <3> QED
      BY <3>2, <3>3 DEF Worse
  <2>3. Worse(x, tip)' /\ tip' \in Blocks /\ x \in Blocks
    BY <1>1, <1>5, AcceptBlockOrder
  <2>4. ~Worse(c, x)'
    <3>1. PICK t \in Blocks : t = tip'
      BY <2>3
    <3>2. ~Worse(c, t)' /\ Worse(x, t)'
      BY <2>2, <2>3, <3>1 DEF Worse
    <3> QED
      BY <1>1, <2>3, <3>2, WorseOrdersNext
  <2> QED
    BY <2>2, <2>4 DEF Covers
<1> QED
  BY <1>4, <1>5

(* What a new tip drives out is worse than it, and it is covered itself. *)
LEMMA ConnectedCovers ==
  ASSUME IInv, ActInv, CovInv, NEW b \in Blocks, job = "activate", Working, b \in Path[target],
         \A a \in Blocks : Failed(a)' <=> Failed(a),
         \A a \in Blocks : "undo" \in nStatus[a] => "undo" \in nStatus'[a],
         UNCHANGED <<seq, address, linked>>, tip' = b, coins' = b, Connected(b), Verified(b)'
  PROVE  CovInv'
<1>1. candidates' = Kept(b) /\ target \in Kept(b) /\ Good(b)
  BY ConnectedActs
<1>2. b \in linked /\ ~Failed(b)
  <2>1. target \in linked
    BY DEF IInv, ControlConsistent
  <2> QED
    BY <1>1, <2>1, PathFacts DEF IInv, LinkedTree, Good
<1>3. Settled'
  <2>1. job' = "activate" \/ pending'
    BY <1>1 DEF Connected, Continue, Goto, Release
  <2> QED
    BY <2>1 DEF Settled
<1>4. \A c \in Blocks, x \in Blocks :
        c \in Kept(b) /\ Good(c) /\ Verified(c) /\ ~Worse(c, x) => Covers(c, x)'
  <2> SUFFICES ASSUME NEW c \in Blocks, NEW x \in Blocks,
                      c \in Kept(b), Good(c), Verified(c), ~Worse(c, x)
               PROVE  Covers(c, x)'
    OBVIOUS
  <2>1. Path[c] \subseteq Blocks /\ Covers(c, x) /\ c \in candidates'
    BY <1>1, PathFacts DEF Covers, Kept
  <2> QED
    BY <2>1, CoverStays
<1>5. PICK e \in Blocks : /\ e \in Kept(b) /\ ~Worse(e, b)
                          /\ \A x \in Blocks : ~Worse(e, x) => Covers(e, x)'
  <2>1. CASE b \in candidates
    <3>1. b \in Kept(b) /\ ~Worse(b, b)
      BY <2>1, WorseOrders DEF Kept
    <3>2. ASSUME NEW x \in Blocks, ~Worse(b, x) PROVE Covers(b, x)'
      <4>1. Good(b)' /\ ~Worse(b, x)'
        BY <1>1, <3>2, PathFacts, SameOrder DEF Good
      <4> QED
        BY <1>1, <3>1, <4>1 DEF Covers
    <3> QED
      BY <3>1, <3>2
  <2>2. CASE b \notin candidates
    <3>1. PICK e \in Blocks : Covers(e, b)
      BY <1>2, <2>2 DEF CovInv, Covered
    <3>2. e \in Kept(b)
      BY <3>1 DEF Covers, Kept
    <3> QED
      BY <1>4, <3>1, <3>2 DEF Covers
  <2> QED
    BY <2>1, <2>2
<1>6. ASSUME NEW x \in linked, ~Failed(x)', x \notin Kept(b)
      PROVE  \E c \in Blocks : Covers(c, x)'
  <2>1. x \in Blocks /\ ~Failed(x)
    BY <1>6 DEF IInv, TypeOK
  <2>2. CASE x \in candidates
    <3>1. Worse(x, b)
      BY <1>6, <2>2 DEF Kept
    <3>2. ~Worse(e, x)
      BY <1>5, <2>1, <3>1, WorseOrders
    <3> QED
      BY <1>5, <2>1, <3>2
  <2>3. CASE x \notin candidates
    <3>1. PICK f \in Blocks : Covers(f, x)
      BY <2>1, <2>3 DEF CovInv, Covered
    <3>2. CASE f \in Kept(b)
      BY <1>4, <2>1, <3>1, <3>2 DEF Covers
    <3>3. CASE f \notin Kept(b)
      <4>1. Worse(f, b) /\ ~Worse(f, x)
        BY <3>1, <3>3 DEF Covers, Kept
      <4>2. ~Worse(e, x)
        BY <1>5, <2>1, <4>1, WorseOrders
      <4> QED
        BY <1>5, <2>1, <4>2
    <3> QED
      BY <3>2, <3>3
  <2> QED
    BY <2>2, <2>3
<1> QED
  BY <1>1, <1>3, <1>6 DEF CovInv, Covered

LEMMA StepConnectCovers ==
  ASSUME IInv, ActInv, CovInv, NEW b \in Blocks, StepConnect(b) PROVE CovInv'
<1>1. \A a \in Blocks : "undo" \in nStatus[a] => "undo" \in nStatus'[a]
  BY DEF StepConnect, StatusConnected, IInv, TypeOK
<1>2. CASE tip' = b /\ Connected(b)
  <2>1. Verified(b)'
    BY <1>2, StepConnectKeeps DEF IInv, UndoActive, Verified
  <2> QED
    BY <1>1, <1>2, <2>1, StepConnectFacts, ConnectedCovers
<1>3. CASE Goto("flush") /\ UNCHANGED <<tip, candidates>>
  <2>1. job' = "activate" /\ job = "activate"
    BY <1>3, StepConnectFacts DEF Goto
  <2>2. Settled'
    BY <2>1 DEF Settled
  <2>3. linked \subseteq Blocks
    BY DEF IInv, TypeOK
  <2>4. Covered'
    BY <1>1, <1>3, <2>1, <2>3, StepConnectFacts, CovSame
  <2> QED
    BY <2>2, <2>4 DEF CovInv
<1> QED
  BY <1>2, <1>3 DEF StepConnect

LEMMA FlushCoinsCovers == ASSUME IInv, ActInv, CovInv, FlushCoins PROVE CovInv'
<1>1. phase = "flush" /\ tip' = coins /\ UNCHANGED <<nStatus, linked, seq, coins, address>>
      /\ tip \in Blocks /\ coins \in Blocks
      /\ job \in {"activate", "invalidate", "rewind", "flush"}
  BY DEF FlushCoins, ActInv, CoinsFollow, IInv, TypeOK
<1>2. CASE coins = tip /\ job \in {"activate", "flush"}
  <2>1. job' = "none" /\ UNCHANGED <<candidates, tip>> /\ (job = "flush" => pending' = pending)
    BY <1>1, <1>2, PathFacts DEF FlushCoins, ActivationReturns, Release
  <2>2. Covered'
    BY <1>1, <1>2, <2>1, SameFlags, CovSame
  <2>3. CASE job = "activate"
    <3>1. IsBest(tip)
      BY <1>1, <1>2, <2>3 DEF ActInv, TowardsTarget, Arrived
    <3>2. Settled'
      BY <2>1, <3>1, BestHasMostWork DEF Settled
    <3> QED
      BY <2>2, <3>2 DEF CovInv
  <2>4. CASE job = "flush"
    <3>1. pending' = pending
      BY <2>1, <2>4
    <3> QED
      BY <1>1, <2>1, <2>2, <2>4, <3>1, SameFlags, SettledSame DEF CovInv
  <2> QED
    BY <1>2, <2>3, <2>4
<1>3. CASE coins # tip /\ coins \in Path[tip] /\ job = "activate"
  <2>1. job' = "activate" /\ UNCHANGED candidates
    BY <1>3 DEF FlushCoins, Goto
  <2> QED
    BY <1>1, <1>3, <2>1, SameFlags, CovSame DEF CovInv, Settled
<1>4. CASE coins \notin Path[tip] /\ job = "activate"
  <2>0. PICK b \in Blocks : b = coins
    BY <1>1
  <2>1. b # tip
    BY <1>1, <1>4, <2>0, PathFacts
  <2>2. Connected(b) /\ Working
    BY <1>1, <1>4, <2>0, <2>1 DEF FlushCoins, Working
  <2>3. b \in Path[target]
    BY <1>4, <2>0, <2>2 DEF ActInv, TowardsTarget
  <2>4. Verified(b)'
    BY <1>1, <2>0 DEF Verified, IInv, UndoActive
  <2> QED
    BY <1>1, <1>4, <2>0, <2>2, <2>3, <2>4, FailedSame, ConnectedCovers
<1>5. CASE job \in {"invalidate", "rewind"}
  <2>1. job' = job /\ UNCHANGED candidates
    BY <1>5 DEF FlushCoins, Goto
  <2>2. job = "rewind" => Covered'
    BY <1>1, <2>1, SameFlags, CovSame
  <2> QED
    BY <1>5, <2>1, <2>2 DEF CovInv, Covered, Settled
<1> QED
  <2>1. job = "flush" => coins = tip
    BY <1>1, <1>5 DEF FlushCoins
  <2> QED
    BY <1>1, <1>2, <1>3, <1>4, <1>5, <2>1

LEMMA CrashAndRestartCovers ==
  ASSUME IInv, CrashAndRestart, Good(tip)' PROVE CovInv'
<1>1. pending' /\ linked' \subseteq Blocks /\ seq' \in [Blocks -> Nat] /\ address' \in Addresses
  BY DEF CrashAndRestart, LoadedLinked
<1>2. PICK t \in Blocks : t = tip'
  BY RestartFacts
<1>3. t \in candidates' /\ Good(t)' /\ Verified(t)'
  <2>1. nStatus' = diskStatus /\ tip' = diskCoins
    BY DEF CrashAndRestart
  <2> QED
    BY <1>2, <2>1, RestartFacts DEF Good, Verified, IInv, DiskRecoverable
<1>4. ASSUME NEW x \in linked', ~Failed(x)', x \notin candidates' PROVE Covers(t, x)'
  <2>1. Worse(x, t)'
    BY <1>2, <1>4, RestartFacts DEF Worse
  <2>2. ~Worse(t, x)'
    BY <1>1, <2>1, WorseOrdersNext
  <2> QED
    BY <1>3, <2>2 DEF Covers
<1> QED
  BY <1>1, <1>4 DEF CovInv, Covered, Settled

LEMMA InitCov == Init => CovInv
BY DEF Init, CovInv, Covered, Settled

LEMMA CovInductive ==
  IInv /\ ActInv /\ CovInv /\ [Next]_vars /\ [GoodRestart]_vars /\ [LastingVerdict]_vars /\ [InOrder]_vars
    => CovInv'
<1> SUFFICES ASSUME IInv, ActInv, CovInv, [Next]_vars, [GoodRestart]_vars, [LastingVerdict]_vars,
                    [InOrder]_vars
             PROVE  CovInv'
  OBVIOUS
<1>0. IInv' /\ ActInv'
  BY Inductive, ActInductive
<1>1. CASE UNCHANGED vars
  BY <1>1 DEF vars, memory, disk, control, CovInv, Covered, Covers, Settled, Good, Failed,
              Verified, Worse, WorseBy
<1>2. CASE Next /\ ~UNCHANGED vars
  <2>1. GoodRestart /\ LastingVerdict /\ InOrder /\ Next
    BY <1>2
  <2>2. ASSUME Internal PROVE CovInv'
    <3>1. CASE Accepted \/ StepDisconnect \/ RewindDisconnect \/ RewindReturns
      BY <3>1, ControlCovers
    <3>2. CASE NothingBetter \/ FinishActivation
      BY <3>2, NothingBetterCovers, FinishActivationCovers
    <3>3. ASSUME NEW c \in Blocks, NEW u \in Blocks, ChooseCandidate(c) \/ DropCandidate(c, u)
          PROVE  CovInv'
      BY <3>3, ControlCovers, DropCandidateCovers
    <3>4. ASSUME NEW b \in Blocks, StepConnect(b) \/ WriteBlockIndex(b)
          PROVE  CovInv'
      BY <3>4, StepConnectCovers, WriteBlockIndexCovers
    <3>5. ASSUME NEW b \in Blocks, StepReject(b)
          PROVE  CovInv'
      BY <2>1, <3>5, StepRejectCovers DEF LastingVerdict
    <3>6. CASE InvalidateDisconnect \/ InvalidateReturns
      BY <1>0, <3>6, InvalidationCovers, InvalidateReturnsCovers
    <3>7. CASE FlushCoins
      BY <3>7, FlushCoinsCovers
    <3> QED
      BY <2>2, <3>1, <3>2, <3>3, <3>4, <3>5, <3>6, <3>7 DEF Internal
  <2>3. ASSUME NEW b \in Blocks, AcceptBlockHeader(b) \/ RejectBlock(b) \/ AcceptBlock(b) \/ AcceptKnownBlock(b)
        PROVE  CovInv'
    BY <1>0, <2>3, AcceptBlockHeaderCovers, RejectBlockCovers, AcceptBlockCovers, ControlCovers
  <2>4. ASSUME NEW b \in Invalidatable, InvalidateBlock(b) PROVE CovInv'
    BY <2>4, InvalidationCovers, InputAssumption
  <2>5. ASSUME NEW b \in Reconsiderable, ReconsiderBlock(b) PROVE CovInv'
    <3>1. PICK d \in Blocks : ReconsiderBlock(d) /\ \A a \in Path[d] \ {d} : ~Failed(a)
      BY <2>1, <2>5, InputAssumption DEF InOrder
    <3> QED
      BY <3>1, ReconsiderBlockCovers
  <2>6. ASSUME NEW n \in Rewinds, DisconnectBlocksAndReprocess(n) PROVE CovInv'
    BY <2>6, ControlCovers
  <2>7. CASE ActivateUnheld \/ FlushRequested
    BY <2>7, ControlCovers, FlushRequestedCovers
  <2>8. CASE CrashAndRestart
    <3>1. crashes' # crashes
      BY <2>8 DEF CrashAndRestart, IInv, TypeOK
    <3> QED
      BY <2>1, <2>8, <3>1, CrashAndRestartCovers DEF GoodRestart
  <2> QED
    BY <2>1, <2>2, <2>3, <2>4, <2>5, <2>6, <2>7, <2>8 DEF Next
<1> QED
  BY <1>1, <1>2

(* CovInv holds throughout, under the hypotheses its steps need. *)
LEMMA CovInvariant ==
  Spec /\ [][GoodRestart]_vars /\ [][LastingVerdict]_vars /\ [][InOrder]_vars => []CovInv
BY Invariant, ActInvariant, InitCov, CovInductive, PTL DEF Spec

(* ActivateBestChain keeps its promise for every tree and any interleaving  *)
(* of two activations with blocks that arrive: when none is left to do, no  *)
(* chain that is there with all its data and without a failed block has     *)
(* more work than the active one.  A block that was pruned as worse than a  *)
(* tip since disconnected is covered by a chain that was verified.          *)
THEOREM BestChainActiveTheorem ==
  Spec /\ [][GoodRestart]_vars /\ [][LastingVerdict]_vars /\ [][InOrder]_vars => []BestChainActive
<1>1. IInv /\ CovInv => BestChainActive
  <2> SUFFICES ASSUME IInv, CovInv, job = "none", ~pending, NEW b \in linked,
                      \A a \in Path[b] : ~Failed(a)
               PROVE  ChainWork[b] <= ChainWork[tip]
    BY DEF BestChainActive
  <2>1. b \in Blocks /\ tip \in Blocks /\ ~Failed(b) /\ Good(b)
    BY PathFacts DEF IInv, TypeOK, Good
  <2>2. CASE b \in candidates
    BY <2>1, <2>2 DEF CovInv, Settled
  <2>3. CASE b \notin candidates
    <3>1. PICK c \in Blocks : Covers(c, b)
      BY <2>1, <2>3 DEF CovInv, Covered
    <3>2. ChainWork[b] <= ChainWork[c] /\ ChainWork[c] <= ChainWork[tip]
      BY <2>1, <3>1, WorseOrders DEF Covers, CovInv, Settled
    <3> QED
      BY <2>1, <3>2, TreeAssumption
  <2> QED
    BY <2>2, <2>3
<1> QED
  BY <1>1, Invariant, CovInvariant, PTL

-----------------------------------------------------------------------------
(* The flags of the index entries.                                          *)

(* A flag is set only on an entry that was made, in memory and on disk. *)
EntriesMade ==
  \A b \in Blocks : /\ nStatus[b] # {} => "tree" \in nStatus[b]
                    /\ diskStatus[b] # {} => "tree" \in diskStatus[b]

(* The flags as CheckBlockIndex wants them, at every moment.  The block     *)
(* being invalidated is marked itself, which justifies the marks of the     *)
(* blocks that are disconnected.  MarkInv leaves out rewinding, after which *)
(* the candidates are not what CompleteInv says.                            *)
MarkInv ==
  /\ FailedMask
  /\ ScriptsMask
  /\ EntriesMade
  /\ job = "invalidate" => "failedValid" \in nStatus[target]
  /\ job # "rewind"

LEMMA MarksSame ==
  ASSUME MarkInv, UNCHANGED <<nStatus, diskStatus>>, job' # "rewind",
         job' = "invalidate" => job = "invalidate" /\ target' = target
  PROVE  MarkInv'
BY DEF MarkInv, FailedMask, Failed, ScriptsMask, EntriesMade

(* One entry is given more flags. *)
LEMMA OneMarked ==
  ASSUME IInv, MarkInv, UNCHANGED diskStatus, NEW b \in Blocks, NEW F,
         nStatus' = [nStatus EXCEPT ![b] = @ \cup F],
         "tree" \in F \/ nStatus[b] # {},
         "failedChild" \in F => \E a \in Path[b] : "failedValid" \in nStatus[a],
         "undo" \in F => \A a \in Path[b] \ {Genesis} : a = b \/ "undo" \in nStatus[a],
         job' # "rewind", job' = "invalidate" => "failedValid" \in nStatus'[target']
  PROVE  MarkInv'
<1>1. /\ \A a \in Blocks : a # b => nStatus'[a] = nStatus[a]
      /\ nStatus'[b] = nStatus[b] \cup F
  BY DEF IInv, TypeOK
<1>2. \A a \in Blocks : nStatus[a] \subseteq nStatus'[a]
  BY <1>1
<1>3. FailedMask'
  <2> SUFFICES ASSUME NEW d \in Blocks, Failed(d)'
               PROVE  \E a \in Path[d] : "failedValid" \in nStatus'[a]
    BY DEF FailedMask
  <2>0. Path[d] \subseteq Blocks /\ d \in Path[d]
    BY PathFacts
  <2>1. CASE \E a \in Path[d] : "failedValid" \in nStatus[a]
    BY <1>2, <2>0, <2>1
  <2>2. CASE ~\E a \in Path[d] : "failedValid" \in nStatus[a]
    <3>1. ~Failed(d)
      BY <2>2 DEF MarkInv, FailedMask
    <3>2. d = b /\ F \cap {"failedValid", "failedChild"} # {}
      BY <1>1, <3>1 DEF Failed
    <3>3. "failedValid" \in F
      BY <2>2, <3>2
    <3> QED
      BY <1>1, <2>0, <3>2, <3>3
  <2> QED
    BY <2>1, <2>2
<1>4. ScriptsMask'
  <2> SUFFICES ASSUME NEW d \in Blocks, "undo" \in nStatus'[d], NEW a \in Path[d] \ {Genesis}
               PROVE  "undo" \in nStatus'[a]
    BY DEF ScriptsMask
  <2>0. a \in Blocks
    BY PathFacts
  <2>1. CASE "undo" \in nStatus[d]
    BY <1>2, <2>0, <2>1 DEF MarkInv, ScriptsMask
  <2>2. CASE "undo" \notin nStatus[d]
    <3>1. d = b /\ "undo" \in F
      BY <1>1, <2>2
    <3> QED
      BY <1>1, <1>2, <2>0, <3>1
  <2> QED
    BY <2>1, <2>2
<1>5. EntriesMade'
  BY <1>1 DEF MarkInv, EntriesMade
<1> QED
  BY <1>3, <1>4, <1>5 DEF MarkInv

LEMMA LinkedKnown == ASSUME IInv PROVE \A x \in linked : x \in Blocks /\ nStatus[x] # {}
BY PathFacts DEF IInv, LinkedTree, HasData

LEMMA ControlMarks ==
  ASSUME IInv, MarkInv,
         \/ \E b \in Blocks : AcceptKnownBlock(b) \/ ChooseCandidate(b)
         \/ Accepted \/ ActivateUnheld \/ NothingBetter \/ StepDisconnect \/ FinishActivation
         \/ InvalidateReturns \/ RewindDisconnect \/ RewindReturns \/ FlushRequested
  PROVE  MarkInv'
<1>1. UNCHANGED <<nStatus, diskStatus>>
  BY DEF AcceptKnownBlock, ChooseCandidate, Accepted, ActivateUnheld, NothingBetter, StepDisconnect,
         FinishActivation, InvalidateReturns, RewindDisconnect, RewindReturns, FlushRequested,
         memory, disk
<1>2. job' \notin {"rewind", "invalidate"}
  BY DEF AcceptKnownBlock, StartHeldActivation, ChooseCandidate, Accepted, Goto, ActivateUnheld,
         NothingBetter, ActivationReturns, Release, StepDisconnect, FinishActivation,
         InvalidateReturns, RewindDisconnect, RewindReturns, FlushRequested,
         MarkInv, IInv, ControlConsistent
<1> QED
  BY <1>1, <1>2, MarksSame

LEMMA ReceiveMarks ==
  ASSUME IInv, MarkInv, NEW b \in Blocks, AcceptBlockHeader(b) \/ RejectBlock(b) \/ AcceptBlock(b)
  PROVE  MarkInv'
<1>1. job' \in {"none", "activate"} /\ diskStatus' = diskStatus
  BY DEF AcceptBlockHeader, RejectBlock, AcceptBlock, CanAccept, StartHeldActivation, control, disk
<1>2. \E F \in {{"tree"}, {"tree", "failedValid"}, {"tree", "data"}} :
        nStatus' = [nStatus EXCEPT ![b] = @ \cup F]
  BY DEF AcceptBlockHeader, RejectBlock, AcceptBlock
<1> QED
  BY <1>1, <1>2, OneMarked

LEMMA StepConnectMarks ==
  ASSUME IInv, ActInv, MarkInv, NEW b \in Blocks, StepConnect(b) PROVE MarkInv'
<1>1. job' \notin {"rewind", "invalidate"}
  BY StepConnectFacts DEF StepConnect, Connected, Continue, Goto, Release, Abort
<1>2. b \in linked /\ b # Genesis /\ Parent[b] = tip
  <2>1. b \in Path[target] /\ target \in linked
    BY StepConnectFacts DEF IInv, ControlConsistent
  <2> QED
    BY <2>1, PathFacts DEF StepConnect, IsNext, IInv, LinkedTree
<1>3. \A a \in Path[b] \ {Genesis} : a = b \/ "undo" \in nStatus[a]
  BY <1>2, PathFacts DEF IInv, UndoActive
<1>4. /\ \E F \in {{"undo"}} : nStatus' = [nStatus EXCEPT ![b] = @ \cup F]
      /\ diskStatus' = diskStatus
  BY DEF StepConnect, StatusConnected, disk
<1> QED
  BY <1>1, <1>2, <1>3, <1>4, LinkedKnown, OneMarked

LEMMA StepRejectMarks ==
  ASSUME IInv, MarkInv, NEW b \in Blocks, StepReject(b) PROVE MarkInv'
<1>1. job' \notin {"rewind", "invalidate"}
  BY StepRejectFacts
<1>2. b \in linked
  <2>1. b \in Path[target] /\ target \in linked
    BY StepRejectFacts DEF IInv, ControlConsistent
  <2> QED
    BY <2>1, PathFacts DEF IInv, LinkedTree
<1>3. /\ \E F \in {{"failedValid"}} : nStatus' = [nStatus EXCEPT ![b] = @ \cup F]
      /\ diskStatus' = diskStatus
  BY DEF StepReject, InvalidBlockFound, disk
<1> QED
  BY <1>1, <1>2, <1>3, LinkedKnown, OneMarked

LEMMA InvalidateBlockMarks ==
  ASSUME IInv, MarkInv, NEW b \in Blocks, InvalidateBlock(b) PROVE MarkInv'
<1>1. job' = "invalidate" /\ target' = b /\ nStatus[b] # {} /\ diskStatus' = diskStatus
      /\ \E F \in {{"failedValid"}} : nStatus' = [nStatus EXCEPT ![b] = @ \cup F]
  BY DEF InvalidateBlock, Known, disk
<1>2. "failedValid" \in nStatus'[b]
  BY <1>1 DEF IInv, TypeOK
<1> QED
  BY <1>1, <1>2, OneMarked

LEMMA InvalidateDisconnectMarks ==
  ASSUME IInv, MarkInv, InvalidateDisconnect PROVE MarkInv'
<1>1. job = "invalidate" /\ job' = "invalidate" /\ target' = target /\ diskStatus' = diskStatus
      /\ nStatus' = [nStatus EXCEPT ![tip] = @ \cup {"failedChild"}]
      /\ target \in Path[tip]
  BY DEF InvalidateDisconnect, Active, disk
<1>2. tip \in Blocks /\ nStatus[tip] # {} /\ target \in Blocks
  BY LinkedKnown DEF IInv, TypeOK, TipsLinked
<1>3. "failedValid" \in nStatus[target] /\ "failedValid" \in nStatus'[target]
  BY <1>1, <1>2 DEF MarkInv, IInv, TypeOK
<1> QED
  BY <1>1, <1>2, <1>3, OneMarked

(* The failed block that justified the drop justifies the marks. *)
LEMMA DropCandidateMarks ==
  ASSUME IInv, MarkInv, NEW c \in Blocks, NEW u \in Blocks, DropCandidate(c, u) PROVE MarkInv'
<1>1. \A a \in Blocks : nStatus'[a] = IF a \in Path[c] \ Path[u]
                                      THEN nStatus[a] \cup {"failedChild"} ELSE nStatus[a]
  BY DropFacts
<1>2. FailedMask'
  <2> SUFFICES ASSUME NEW d \in Blocks, Failed(d)'
               PROVE  \E a \in Path[d] : "failedValid" \in nStatus'[a]
    BY DEF FailedMask
  <2>1. Failed(d) \/ d \in Path[c] \ Path[u]
    BY <1>1 DEF Failed
  <2>2. \E a \in Path[d] : Failed(a) /\ a \in Blocks
    BY <2>1, DropFacts, PathFacts
  <2>3. \E a \in Path[d] : "failedValid" \in nStatus[a]
    BY <2>2, PathFacts DEF MarkInv, FailedMask
  <2>4. Path[d] \subseteq Blocks
    BY PathFacts
  <2> QED
    BY <1>1, <2>3, <2>4
<1>3. ScriptsMask'
  <2>1. ASSUME NEW a \in Blocks PROVE "undo" \in nStatus'[a] <=> "undo" \in nStatus[a]
    <3>1. nStatus'[a] = nStatus[a] \/ nStatus'[a] = nStatus[a] \cup {"failedChild"}
      BY <1>1
    <3> QED
      BY <3>1
  <2> QED
    BY <2>1, PathFacts DEF MarkInv, ScriptsMask
<1>4. EntriesMade'
  <2>1. \A a \in Path[c] \ Path[u] : nStatus[a] # {}
    BY DropFacts, PathFacts DEF IInv, LinkedTree, HasData
  <2>2. diskStatus' = diskStatus
    BY DEF DropCandidate, disk
  <2> QED
    BY <1>1, <2>1, <2>2 DEF MarkInv, EntriesMade
<1> QED
  BY <1>2, <1>3, <1>4, DropFacts DEF MarkInv

(* What stays marked does not descend from b, and its invalid ancestor      *)
(* stays marked too.                                                        *)
LEMMA ReconsiderBlockMarks ==
  ASSUME IInv, MarkInv, NEW b \in Blocks, ReconsiderBlock(b),
         \A a \in Path[b] \ {b} : ~Failed(a)
  PROVE  MarkInv'
<1>1. \A a \in Blocks :
        \/ nStatus'[a] = nStatus[a]
        \/ nStatus'[a] = nStatus[a] \ {"failedValid", "failedChild"} /\ b \in Path[a]
  BY ReconsiderFacts
<1>2. FailedMask'
  <2> SUFFICES ASSUME NEW d \in Blocks, Failed(d)'
               PROVE  \E a \in Path[d] : "failedValid" \in nStatus'[a]
    BY DEF FailedMask
  <2>1. Failed(d)
    BY <1>1 DEF Failed
  <2>2. Known(d)
    BY <2>1 DEF Known, Failed, MarkInv, EntriesMade
  <2>3. b \notin Path[d]
    <3> SUFFICES ASSUME b \in Path[d] PROVE FALSE
      OBVIOUS
    <3>1. nStatus'[d] = nStatus[d] \ {"failedValid", "failedChild"}
      BY <2>1, <2>2, ReconsiderFacts
    <3> QED
      BY <3>1 DEF Failed
  <2>4. PICK a \in Path[d] : "failedValid" \in nStatus[a]
    BY <2>1 DEF MarkInv, FailedMask
  <2>5. a \in Blocks /\ b \notin Path[a]
    BY <2>3, PathFacts
  <2> QED
    BY <1>1, <2>4, <2>5
<1>3. ScriptsMask'
  <2>1. \A a \in Blocks : "undo" \in nStatus'[a] <=> "undo" \in nStatus[a]
    BY <1>1
  <2> QED
    BY <2>1, PathFacts DEF MarkInv, ScriptsMask
<1>4. EntriesMade'
  <2>1. \A a \in Blocks : nStatus'[a] # {} => "tree" \in nStatus'[a]
    BY <1>1 DEF MarkInv, EntriesMade
  <2>2. diskStatus' = diskStatus
    BY DEF ReconsiderBlock, disk
  <2> QED
    BY <2>1, <2>2 DEF MarkInv, EntriesMade
<1> QED
  BY <1>2, <1>3, <1>4, ReconsiderFacts DEF MarkInv

LEMMA FlushMarks ==
  ASSUME IInv, ActInv, MarkInv, FlushCoins \/ \E b \in Blocks : WriteBlockIndex(b) PROVE MarkInv'
<1>1. CASE FlushCoins
  <2>1. UNCHANGED <<nStatus, diskStatus>>
    BY <1>1 DEF FlushCoins
  <2>2. job' # "rewind" /\ (job' = "invalidate" => job = "invalidate" /\ target' = target)
    BY <1>1 DEF FlushCoins, ActivationReturns, Connected, Continue, Goto, Release, Abort, MarkInv
  <2> QED
    BY <2>1, <2>2, MarksSame
<1>2. ASSUME NEW b \in Blocks, WriteBlockIndex(b) PROVE MarkInv'
  <2>1. UNCHANGED <<nStatus, job, target>> /\ diskStatus' = [diskStatus EXCEPT ![b] = nStatus[b]]
    BY <1>2 DEF WriteBlockIndex, control
  <2>2. EntriesMade'
    BY <2>1 DEF MarkInv, EntriesMade, IInv, TypeOK
  <2> QED
    BY <2>1, <2>2 DEF MarkInv, FailedMask, Failed, ScriptsMask
<1> QED
  BY <1>1, <1>2

LEMMA CrashAndRestartMarks ==
  ASSUME MarkInv, CrashAndRestart, FailedMask', ScriptsMask' PROVE MarkInv'
<1>1. EntriesMade'
  BY DEF CrashAndRestart, disk, MarkInv, EntriesMade
<1>2. job' \notin {"rewind", "invalidate"}
  BY DEF CrashAndRestart
<1> QED
  BY <1>1, <1>2 DEF MarkInv

LEMMA InitMark == Init => MarkInv
<1> SUFFICES ASSUME Init PROVE MarkInv
  OBVIOUS
<1>1. \A b \in Blocks : ~Failed(b) /\ "undo" \notin nStatus[b]
  BY DEF Init, Failed
<1>2. EntriesMade /\ job = "none"
  BY DEF Init, EntriesMade
<1> QED
  BY <1>1, <1>2 DEF MarkInv, FailedMask, ScriptsMask

-----------------------------------------------------------------------------
(* The candidates.                                                          *)

(* Every block that may be chosen and is not worse than t is a candidate. *)
AllIn(t) == \A x \in linked : ~Failed(x) /\ ~Worse(x, t) => x \in candidates

(* While an activation that does not hold the lock is at work, the blocks   *)
(* missing are those it has already overtaken.                              *)
Overtaken ==
  \A x \in linked : ~Failed(x) /\ ~Worse(x, oldTip) =>
    x \in candidates \/ (tip \in Path[target] /\ Worse(x, tip))

(* No candidate is missing between operations, when a block has been        *)
(* accepted, and when an activation that lets go of the lock makes its      *)
(* choice; on its way only what it has overtaken is missing, and while it   *)
(* disconnects blocks it has overtaken nothing.                             *)
CompleteInv ==
  /\ job \in {"none", "flush"} \/ phase = "accepted" \/ (phase = "find" /\ ~held) => AllIn(tip)
  /\ Working /\ ~held => Overtaken
  /\ Working /\ coins # tip /\ coins \in Path[tip] => tip \notin Path[target]

(* The best of the candidates, if it is the tip, is the only one needed.    *)
LEMMA BestMeansAllIn ==
  ASSUME IInv, CovInv, job # "invalidate", IsBest(tip)
  PROVE  AllIn(tip)
<1> SUFFICES ASSUME NEW x \in linked, ~Failed(x), ~Worse(x, tip), x \notin candidates PROVE FALSE
  BY DEF AllIn
<1>1. x \in Blocks /\ tip \in Blocks
  BY DEF IInv, TypeOK
<1>2. PICK c \in Blocks : Covers(c, x)
  BY DEF CovInv, Covered
<1>3. ~Worse(tip, c) /\ ~Worse(c, x)
  BY <1>2 DEF IsBest, Covers
<1>4. ~Worse(tip, x)
  BY <1>1, <1>3, WorseOrders
<1>5. x = tip
  BY <1>1, <1>4, WorseOrders
<1> QED
  BY <1>5 DEF IsBest

(* Steps after which the same blocks are linked, marked and candidates, in  *)
(* the same order and with the same tip.                                    *)
LEMMA SameAllIn ==
  ASSUME IInv, AllIn(tip), UNCHANGED <<linked, seq, address, tip>>,
         \A x \in linked : Failed(x) => Failed(x)',
         \A x \in candidates : x \in candidates' \/ Failed(x)'
  PROVE  AllIn(tip)'
<1>1. linked \subseteq Blocks /\ tip \in Blocks
  BY DEF IInv, TypeOK
<1> QED
  BY <1>1, SameOrder DEF AllIn

LEMMA SameOvertaken ==
  ASSUME IInv, Overtaken, UNCHANGED <<nStatus, linked, candidates, seq, address, tip, target, oldTip>>
  PROVE  Overtaken'
BY DEF Overtaken, Failed, Worse, WorseBy

(* Steps that leave an activation searching with the lock, or start one.    *)
LEMMA StartCompletes ==
  ASSUME IInv, CompleteInv,
         \/ \E b \in Blocks : AcceptKnownBlock(b)
         \/ Accepted \/ ActivateUnheld \/ FlushRequested
  PROVE  CompleteInv'
<1>1. UNCHANGED <<nStatus, linked, seq, address, tip, candidates>>
  BY DEF AcceptKnownBlock, Accepted, ActivateUnheld, FlushRequested, memory
<1>2. AllIn(tip)
  BY DEF AcceptKnownBlock, CanAccept, Accepted, ActivateUnheld, FlushRequested, CompleteInv
<1>3. phase' \in {"accepted", "find"} \/ (phase' = "flush" /\ job' = "flush")
  BY DEF AcceptKnownBlock, StartHeldActivation, Accepted, Goto, ActivateUnheld, FlushRequested
<1>4. ~Working'
  BY <1>3 DEF Working
<1>5. AllIn(tip)'
  BY <1>1, <1>2, SameAllIn DEF Failed
<1> QED
  BY <1>4, <1>5 DEF CompleteInv

(* A block that is received and not linked changes nothing. *)
LEMMA UnlinkedCompletes ==
  ASSUME IInv, CompleteInv, NEW b \in Blocks, AcceptBlockHeader(b) \/ RejectBlock(b)
  PROVE  CompleteInv'
<1>1. job = "none" /\ phase = "run" /\ UNCHANGED <<job, phase, linked, seq, address, tip, candidates>>
  BY DEF AcceptBlockHeader, RejectBlock, CanAccept, control, IInv, ControlConsistent
<1>2. \A x \in linked : Failed(x) => Failed(x)'
  <2>1. \A x \in Blocks : nStatus[x] \subseteq nStatus'[x]
    BY DEF AcceptBlockHeader, RejectBlock, IInv, TypeOK
  <2> QED
    BY <2>1, LinkedKnown DEF Failed
<1>3. AllIn(tip)'
  BY <1>1, <1>2, SameAllIn DEF CompleteInv
<1>4. ~Working'
  BY <1>1 DEF Working
<1> QED
  BY <1>3, <1>4 DEF CompleteInv

LEMMA AcceptBlockCompletes ==
  ASSUME IInv, CompleteInv, NEW b \in Blocks, AcceptBlock(b) PROVE CompleteInv'
<1>1. job = "none" /\ phase' = "accepted" /\ tip \in linked /\ linked \subseteq Blocks
  BY DEF AcceptBlock, CanAccept, StartHeldActivation, IInv, TipsLinked, TypeOK
<1>2. \A a \in Blocks : Failed(a)' <=> Failed(a)
  BY DEF AcceptBlock, Failed, IInv, TypeOK
<1>3. AllIn(tip)'
  <2> SUFFICES ASSUME NEW x \in linked', ~Failed(x)', ~Worse(x, tip)' PROVE x \in candidates'
    BY DEF AllIn
  <2>1. CASE x \in linked
    <3>1. PICK t \in linked : t = tip
      BY <1>1
    <3>2. ~Worse(x, t)'
      BY <3>1, AcceptBlockOrder DEF Worse
    <3>3. ~Worse(x, tip)
      BY <2>1, <3>1, <3>2, AcceptBlockOrder
    <3>4. x \in candidates
      BY <1>1, <1>2, <2>1, <3>3 DEF CompleteInv, AllIn
    <3> QED
      BY <3>4, AcceptBlockOrder
  <2>2. CASE x \notin linked
    BY <2>2, AcceptBlockOrder
  <2> QED
    BY <2>1, <2>2
<1>4. ~Working' /\ phase' # "find"
  BY <1>1 DEF Working
<1> QED
  BY <1>3, <1>4 DEF CompleteInv

LEMMA ChooseCandidateCompletes ==
  ASSUME IInv, ActInv, CompleteInv, NEW c \in Blocks, ChooseCandidate(c) PROVE CompleteInv'
<1>1. /\ job' = "activate" /\ phase = "find" /\ phase' = "step" /\ oldTip' = tip /\ held' = held
      /\ coins' = tip' /\ UNCHANGED <<nStatus, linked, seq, address, tip, candidates>>
  BY DEF ChooseCandidate, memory, IInv, ControlConsistent, ActInv, CoinsFollow
<1>2. ~held => Overtaken'
  <2> SUFFICES ASSUME ~held PROVE Overtaken'
    OBVIOUS
  <2>1. AllIn(tip)'
    BY <1>1, SameAllIn DEF CompleteInv, Failed
  <2> QED
    BY <1>1, <2>1 DEF AllIn, Overtaken, Worse
<1> QED
  BY <1>1, <1>2 DEF CompleteInv

(* The activation returns on the best of the candidates. *)
LEMMA ReturnCompletes ==
  ASSUME IInv, ActInv, CovInv, CompleteInv, NothingBetter \/ FinishActivation PROVE CompleteInv'
<1>1. job = "activate" /\ UNCHANGED <<nStatus, linked, seq, address, tip, candidates>>
  BY DEF NothingBetter, FinishActivation, memory, IInv, ControlConsistent
<1>2. IsBest(tip)
  <2>1. CASE NothingBetter
    BY <1>1, <2>1, TipCovered DEF NothingBetter, Covers
  <2>2. CASE FinishActivation
    BY <2>2 DEF FinishActivation, ActInv, TowardsTarget, Arrived
  <2> QED
    BY <2>1, <2>2
<1>3. AllIn(tip)'
  BY <1>1, <1>2, BestMeansAllIn, SameAllIn DEF Failed
<1>4. ~Working'
  <2>1. phase' = "run" \/ (phase' = "flush" /\ phase = "finish")
    BY DEF NothingBetter, FinishActivation, ActivationReturns, Release, Goto
  <2>2. phase = "finish" => coins' = tip'
    BY DEF ActInv, CoinsFollow, NothingBetter, FinishActivation, memory
  <2> QED
    BY <2>1, <2>2 DEF Working
<1> QED
  BY <1>3, <1>4 DEF CompleteInv

LEMMA DropCandidateCompletes ==
  ASSUME IInv, CompleteInv, NEW c \in Blocks, NEW u \in Blocks, DropCandidate(c, u)
  PROVE  CompleteInv'
<1>1. \A x \in Blocks : \/ nStatus'[x] = nStatus[x]
                        \/ nStatus'[x] = nStatus[x] \cup {"failedChild"}
  BY DropFacts
<1>2. \A x \in linked : Failed(x) => Failed(x)'
  <2> SUFFICES ASSUME NEW x \in linked, Failed(x) PROVE Failed(x)'
    OBVIOUS
  <2>1. nStatus[x] \subseteq nStatus'[x]
    BY <1>1, LinkedKnown
  <2> QED
    BY <2>1 DEF Failed
<1>3. \A x \in candidates : x \in candidates' \/ Failed(x)'
  <2> SUFFICES ASSUME NEW x \in candidates, x \notin candidates' PROVE Failed(x)'
    OBVIOUS
  <2>1. x \in linked /\ x \in Blocks
    BY DEF IInv, LinkedTree, TypeOK
  <2>2. CASE x = u
    BY <1>2, <2>1, <2>2, DropFacts
  <2>3. CASE x \in Path[c] \ Path[u]
    <3>1. nStatus'[x] = nStatus[x] \cup {"failedChild"}
      <4>1. \A a \in Blocks : a \in Path[c] \ Path[u] => nStatus'[a] = nStatus[a] \cup {"failedChild"}
        BY DropFacts
      <4> QED
        BY <2>1, <2>3, <4>1
    <3> QED
      BY <3>1 DEF Failed
  <2> QED
    BY <2>2, <2>3, DropFacts
<1>4. phase' = "find" /\ job' = "activate" /\ held' = held /\ phase = "find"
  BY DropFacts
<1>5. ~held => AllIn(tip)'
  BY <1>2, <1>3, <1>4, DropFacts, SameAllIn DEF CompleteInv
<1> QED
  BY <1>4, <1>5 DEF CompleteInv, Working

LEMMA StepDisconnectCompletes ==
  ASSUME IInv, ActInv, CompleteInv, StepDisconnect PROVE CompleteInv'
<1>1. /\ job' = "activate" /\ phase = "step" /\ phase' = "flush" /\ held' = held
      /\ UNCHANGED <<nStatus, linked, seq, address, tip, candidates, target, oldTip>>
      /\ tip \notin Path[target]
  BY DEF StepDisconnect, DisconnectTip, IInv, ControlConsistent
<1>2. ~held => Overtaken'
  BY <1>1, SameOvertaken DEF CompleteInv, Working
<1> QED
  BY <1>1, <1>2 DEF CompleteInv

(* What is overtaken is worse than the block connected, and every block     *)
(* better than that one is a candidate still.                               *)
LEMMA ConnectedCompletes ==
  ASSUME IInv, ActInv, CompleteInv, NEW b \in Blocks, job = "activate", Working,
         b \in Path[target], b \notin Path[tip],
         \A a \in Blocks : Failed(a)' <=> Failed(a),
         UNCHANGED <<seq, address, linked>>, tip' = b, coins' = b, Connected(b)
  PROVE  CompleteInv'
<1>1. candidates' = Kept(b) /\ target \in Kept(b)
  BY ConnectedActs
<1>2. tip \in Blocks /\ oldTip \in Blocks /\ target \in Blocks /\ linked \subseteq Blocks
  BY DEF IInv, TypeOK
<1>3. tip \in Path[target] => Worse(tip, b)
  <2> SUFFICES ASSUME tip \in Path[target] PROVE Worse(tip, b)
    OBVIOUS
  <2>1. tip \in Path[b]
    BY <1>2, TreeAssumption
  <2>2. tip # b
    BY PathFacts
  <2> QED
    BY <1>2, <2>1, <2>2, WorseOrders
<1>4. ASSUME ~held, NEW x \in linked, ~Failed(x)', ~Worse(x, oldTip)
      PROVE  x \in Kept(b) \/ Worse(x, b)
  <2>1. x \in candidates \/ (tip \in Path[target] /\ Worse(x, tip))
    BY <1>2, <1>4 DEF CompleteInv, Overtaken
  <2>2. CASE x \in candidates
    BY <2>2 DEF Kept
  <2>3. CASE tip \in Path[target] /\ Worse(x, tip)
    BY <1>2, <1>3, <2>3, WorseOrders
  <2> QED
    BY <2>1, <2>2, <2>3
<1>5. Continue(b, ChainWork[b] > ChainWork[oldTip])
  BY <1>1 DEF Connected
<1>6. CASE phase' = "finish" \/ (phase' = "find" /\ held' /\ job' = "activate")
  <2>1. job' = "activate"
    BY <1>5, <1>6 DEF Continue, Goto, Release
  <2> QED
    BY <1>6, <2>1 DEF CompleteInv, Working
<1>7. CASE phase' = "step" /\ job' = "activate" /\ UNCHANGED <<target, oldTip, held>>
  <2>1. ~held => Overtaken'
    <3> SUFFICES ASSUME ~held, NEW x \in linked, ~Failed(x)', ~Worse(x, oldTip)'
                 PROVE  x \in candidates' \/ (b \in Path[target] /\ Worse(x, tip)')
      BY <1>7 DEF Overtaken
    <3>1. ~Worse(x, oldTip)
      BY <1>7 DEF Worse, WorseBy
    <3>2. x \in Kept(b) \/ Worse(x, b)
      BY <1>4, <3>1
    <3>3. Worse(x, b) => Worse(x, tip)'
      BY DEF Worse, WorseBy
    <3> QED
      BY <1>1, <3>2, <3>3
  <2> QED
    BY <1>7, <2>1 DEF CompleteInv
<1>8. CASE ~held /\ job' = "none" /\ phase' = "run" /\ ChainWork[b] > ChainWork[oldTip]
  <2>1. AllIn(tip)'
    <3> SUFFICES ASSUME NEW x \in linked, ~Failed(x)', ~Worse(x, tip)' PROVE x \in candidates'
      BY DEF AllIn
    <3>1. ~Worse(x, b)
      BY DEF Worse, WorseBy
    <3>2. ~Worse(b, oldTip)
      BY <1>2, <1>8, TreeAssumption DEF Worse, WorseBy
    <3>3. ~Worse(x, oldTip)
      BY <1>2, <3>1, <3>2, WorseOrders
    <3> QED
      BY <1>1, <1>4, <1>8, <3>1, <3>3
  <2> QED
    BY <1>8, <2>1 DEF CompleteInv, Working
<1> QED
  BY <1>5, <1>6, <1>7, <1>8 DEF Continue, Goto, Release

LEMMA StepConnectCompletes ==
  ASSUME IInv, ActInv, CompleteInv, NEW b \in Blocks, StepConnect(b) PROVE CompleteInv'
<1>1. b \notin Path[tip] /\ tip \in Blocks
  BY PathFacts DEF StepConnect, IsNext, IInv, TypeOK
<1>2. CASE tip' = b /\ Connected(b)
  BY <1>1, <1>2, StepConnectFacts, ConnectedCompletes
<1>3. CASE Goto("flush") /\ UNCHANGED <<tip, candidates>>
  <2>1. /\ job' = "activate" /\ phase' = "flush" /\ UNCHANGED <<held, oldTip, target>>
        /\ coins' = b /\ linked \subseteq Blocks
    BY <1>3, StepConnectFacts DEF Goto, IInv, TypeOK
  <2>2. ~held => Overtaken'
    <3> SUFFICES ASSUME ~held PROVE Overtaken'
      OBVIOUS
    <3>1. Overtaken
      BY StepConnectFacts DEF CompleteInv
    <3> QED
      BY <1>1, <1>3, <2>1, <3>1, StepConnectFacts DEF Overtaken, Worse, WorseBy
  <2> QED
    BY <1>1, <1>3, <2>1, <2>2 DEF CompleteInv
<1> QED
  BY <1>2, <1>3 DEF StepConnect

LEMMA StepRejectCompletes ==
  ASSUME IInv, CompleteInv, NEW b \in Blocks, StepReject(b), held \/ oldTip \in Path[tip]
  PROVE  CompleteInv'
<1>1. tip \in Blocks /\ oldTip \in Blocks /\ linked \subseteq Blocks
  BY DEF IInv, TypeOK
<1>2. CASE held
  BY <1>2, StepRejectFacts DEF CompleteInv, Working
<1>3. CASE ~held
  <2>1. job' = "none" /\ phase' = "run" /\ UNCHANGED <<seq, address, linked, tip>>
        /\ candidates' = candidates \ {b} /\ Overtaken
    BY <1>3, StepRejectFacts DEF CompleteInv, Working
  <2>2. ~Worse(tip, oldTip)
    <3>1. oldTip = tip \/ Worse(oldTip, tip)
      BY <1>1, <1>3, WorseOrders
    <3> QED
      BY <1>1, <3>1, WorseOrders
  <2>3. AllIn(tip)'
    <3> SUFFICES ASSUME NEW x \in linked, ~Failed(x)', ~Worse(x, tip)' PROVE x \in candidates'
      BY <2>1 DEF AllIn
    <3>1. x # b
      BY StepRejectFacts DEF Failed
    <3>2. ~Failed(x)
      BY <1>1, <3>1, StepRejectFacts DEF Failed
    <3>3. ~Worse(x, tip)
      BY <2>1 DEF Worse, WorseBy
    <3>4. ~Worse(x, oldTip)
      BY <1>1, <2>2, <3>3, WorseOrders
    <3> QED
      BY <2>1, <3>1, <3>2, <3>3, <3>4 DEF Overtaken
  <2> QED
    BY <2>1, <2>3 DEF CompleteInv, Working
<1> QED
  BY <1>2, <1>3

LEMMA InvalidationCompletes ==
  ASSUME IInv, CompleteInv, InvalidateDisconnect \/ \E b \in Blocks : InvalidateBlock(b)
  PROVE  CompleteInv'
<1>1. job' = "invalidate" /\ phase' \in {"run", "flush"}
  BY DEF InvalidateBlock, InvalidateDisconnect, DisconnectTip, IInv, ControlConsistent
<1> QED
  BY <1>1 DEF CompleteInv, Working

LEMMA InvalidateReturnsCompletes ==
  ASSUME IInv, CompleteInv, InvalidateReturns PROVE CompleteInv'
<1>1. job' = "none" /\ phase' = "run" /\ UNCHANGED <<nStatus, linked, seq, address, tip>>
      /\ candidates' = candidates \cup Readmitted
  BY DEF InvalidateReturns, Release
<1>2. AllIn(tip)'
  <2> SUFFICES ASSUME NEW x \in linked, ~Failed(x), ~Worse(x, tip) PROVE x \in candidates'
    BY <1>1 DEF AllIn, Failed, Worse
  <2>1. HasData(x)
    BY PathFacts DEF IInv, LinkedTree
  <2> QED
    BY <1>1, <2>1 DEF Readmitted
<1> QED
  BY <1>1, <1>2 DEF CompleteInv, Working

LEMMA ReconsiderBlockCompletes ==
  ASSUME IInv, ActInv, CompleteInv, NEW b \in Blocks, ReconsiderBlock(b),
         \A a \in Path[b] \ {b} : ~Failed(a)
  PROVE  CompleteInv'
<1>1. job = "none" /\ phase' = "run" /\ UNCHANGED <<seq, address, linked, tip>>
      /\ candidates \subseteq candidates'
  BY ReconsiderFacts
<1>2. tip \in Blocks /\ linked \subseteq Blocks /\ ~Failed(tip) /\ AllIn(tip)
  BY <1>1, PathFacts DEF IInv, TypeOK, ActInv, ActiveGood, Good, CompleteInv
<1>3. AllIn(tip)'
  <2> SUFFICES ASSUME NEW x \in linked, ~Failed(x)', ~Worse(x, tip)' PROVE x \in candidates'
    BY <1>1 DEF AllIn
  <2>1. ~Worse(x, tip)
    BY <1>1 DEF Worse, WorseBy
  <2>2. CASE ~Failed(x)
    BY <1>1, <1>2, <2>1, <2>2 DEF AllIn
  <2>3. CASE Failed(x)
    <3>1. Worse(tip, x)
      BY <1>2, <2>1, <2>3, WorseOrders
    <3> QED
      BY <2>3, <3>1, ReconsiderFacts
  <2> QED
    BY <2>2, <2>3
<1> QED
  BY <1>1, <1>3 DEF CompleteInv, Working

LEMMA WriteBlockIndexCompletes ==
  ASSUME CompleteInv, NEW b \in Blocks, WriteBlockIndex(b) PROVE CompleteInv'
BY DEF WriteBlockIndex, control, CompleteInv, AllIn, Overtaken, Working, Failed, Worse, WorseBy

LEMMA FlushCoinsCompletes ==
  ASSUME IInv, ActInv, CovInv, MarkInv, CompleteInv, FlushCoins PROVE CompleteInv'
<1>1. /\ phase = "flush" /\ tip' = coins /\ coins' = coins
      /\ UNCHANGED <<nStatus, linked, seq, address>>
  BY DEF FlushCoins
<1>2. CASE coins = tip /\ UNCHANGED candidates /\ job' = "none" /\ phase' = "run"
           /\ job \in {"activate", "flush"}
  <2>1. AllIn(tip)
    <3>1. CASE job = "activate"
      <4>1. IsBest(tip)
        BY <1>1, <1>2, <3>1 DEF ActInv, TowardsTarget, Arrived
      <4> QED
        BY <3>1, <4>1, BestMeansAllIn
    <3>2. CASE job = "flush"
      BY <3>2 DEF CompleteInv
    <3> QED
      BY <1>2, <3>1, <3>2
  <2>2. AllIn(tip)'
    BY <1>1, <1>2, <2>1, SameAllIn DEF Failed
  <2> QED
    BY <1>2, <2>2 DEF CompleteInv, Working
<1>3. CASE coins # tip /\ job = "activate" /\ coins \in Path[tip] /\ Goto("step") /\ UNCHANGED candidates
  <2>1. phase' = "step" /\ job' = "activate" /\ UNCHANGED <<held, target, oldTip>>
    BY <1>3 DEF Goto
  <2>2. Working /\ tip \notin Path[target]
    BY <1>1, <1>3 DEF Working, CompleteInv
  <2>3. ~held => Overtaken'
    <3> SUFFICES ASSUME ~held, NEW x \in linked, ~Failed(x), ~Worse(x, oldTip)
                 PROVE  x \in candidates'
      BY <1>1, <2>1 DEF Overtaken, Failed, Worse
    <3> QED
      BY <1>3, <2>2 DEF CompleteInv, Overtaken
  <2> QED
    BY <1>1, <2>1, <2>3 DEF CompleteInv
<1>4. CASE coins \notin Path[tip] /\ job = "activate" /\ Connected(coins)
  <2>1. Working /\ coins \in Path[target] /\ coins \in Blocks
    <3>1. coins # tip /\ coins \in Blocks
      BY <1>4, PathFacts DEF IInv, TypeOK
    <3> QED
      BY <1>1, <1>4, <3>1 DEF Working, ActInv, TowardsTarget
  <2>2. \A a \in Blocks : Failed(a)' <=> Failed(a)
    BY <1>1 DEF Failed
  <2> QED
    BY <1>1, <1>4, <2>1, <2>2, ConnectedCompletes
<1>5. CASE job = "invalidate" /\ Goto("run")
  BY <1>5 DEF Goto, CompleteInv, Working
<1> QED
  BY <1>1, <1>2, <1>3, <1>4, <1>5 DEF FlushCoins, ActivationReturns, Release, MarkInv

LEMMA CrashAndRestartCompletes ==
  ASSUME IInv, CrashAndRestart, Good(tip)' PROVE CompleteInv'
<1>1. AllIn(tip)'
  BY RestartFacts DEF AllIn
<1>2. phase' = "run"
  BY DEF CrashAndRestart
<1> QED
  BY <1>1, <1>2 DEF CompleteInv, Working

LEMMA InitComplete == Init => CompleteInv
BY DEF Init, CompleteInv, AllIn, Working

-----------------------------------------------------------------------------
(* CheckBlockIndex.                                                         *)

(* Sound restarts are good ones. *)
LEMMA SoundIsGood == [SoundRestart]_vars => [GoodRestart]_vars
BY DEF SoundRestart, GoodRestart

(* One case per action. *)
LEMMA CheckInductive ==
  ASSUME Rewinds = {}
  PROVE  IInv /\ ActInv /\ CovInv /\ MarkInv /\ CompleteInv
           /\ [Next]_vars /\ [SoundRestart]_vars /\ [InOrder]_vars /\ [RejectsOnTop]_vars
         => MarkInv' /\ CompleteInv'
<1> SUFFICES ASSUME IInv, ActInv, CovInv, MarkInv, CompleteInv,
                    [Next]_vars, [SoundRestart]_vars, [InOrder]_vars, [RejectsOnTop]_vars
             PROVE  MarkInv' /\ CompleteInv'
  OBVIOUS
<1>1. CASE UNCHANGED vars
  BY <1>1 DEF vars, memory, disk, control, MarkInv, FailedMask, ScriptsMask, EntriesMade,
              CompleteInv, AllIn, Overtaken, Working, Failed, Worse, WorseBy
<1>2. CASE Next /\ ~UNCHANGED vars
  <2>1. SoundRestart /\ InOrder /\ RejectsOnTop
    BY <1>2
  <2>2. CASE \/ \E b \in Blocks : AcceptKnownBlock(b) \/ ChooseCandidate(b)
             \/ Accepted \/ ActivateUnheld \/ NothingBetter \/ StepDisconnect \/ FinishActivation
             \/ FlushRequested
    BY <2>2, ControlMarks, StartCompletes, ChooseCandidateCompletes, ReturnCompletes,
       StepDisconnectCompletes
  <2>3. ASSUME NEW b \in Blocks, AcceptBlockHeader(b) \/ RejectBlock(b) \/ AcceptBlock(b)
        PROVE  MarkInv' /\ CompleteInv'
    BY <2>3, ReceiveMarks, UnlinkedCompletes, AcceptBlockCompletes
  <2>4. ASSUME NEW c \in Blocks, NEW u \in Blocks, DropCandidate(c, u)
        PROVE  MarkInv' /\ CompleteInv'
    BY <2>4, DropCandidateMarks, DropCandidateCompletes
  <2>5. ASSUME NEW b \in Blocks, StepConnect(b) PROVE MarkInv' /\ CompleteInv'
    BY <2>5, StepConnectMarks, StepConnectCompletes
  <2>6. ASSUME NEW b \in Blocks, StepReject(b) PROVE MarkInv' /\ CompleteInv'
    BY <2>1, <2>6, StepRejectMarks, StepRejectCompletes DEF RejectsOnTop
  <2>7. ASSUME NEW b \in Blocks, WriteBlockIndex(b) PROVE MarkInv' /\ CompleteInv'
    BY <2>7, FlushMarks, WriteBlockIndexCompletes
  <2>8. CASE FlushCoins
    BY <2>8, FlushMarks, FlushCoinsCompletes
  <2>9. ASSUME NEW b \in Blocks, InvalidateBlock(b) PROVE MarkInv' /\ CompleteInv'
    BY <2>9, InvalidateBlockMarks, InvalidationCompletes
  <2>10. CASE InvalidateDisconnect
    BY <2>10, InvalidateDisconnectMarks, InvalidationCompletes
  <2>11. CASE InvalidateReturns
    BY <2>11, ControlMarks, InvalidateReturnsCompletes
  <2>12. CASE RewindDisconnect \/ RewindReturns
    BY <2>12 DEF RewindDisconnect, RewindReturns, MarkInv
  <2>13. ASSUME NEW b \in Reconsiderable, ReconsiderBlock(b) PROVE MarkInv' /\ CompleteInv'
    <3>1. PICK d \in Blocks : ReconsiderBlock(d) /\ \A a \in Path[d] \ {d} : ~Failed(a)
      BY <2>1, <2>13, InputAssumption DEF InOrder
    <3> QED
      BY <3>1, ReconsiderBlockMarks, ReconsiderBlockCompletes
  <2>14. CASE CrashAndRestart
    <3>1. crashes' # crashes
      BY <2>14 DEF CrashAndRestart, IInv, TypeOK
    <3>2. Good(tip)' /\ FailedMask' /\ ScriptsMask'
      BY <2>1, <3>1 DEF SoundRestart
    <3> QED
      BY <2>14, <3>2, CrashAndRestartMarks, CrashAndRestartCompletes
  <2>15. ASSUME Internal PROVE MarkInv' /\ CompleteInv'
    BY <2>2, <2>4, <2>5, <2>6, <2>7, <2>8, <2>10, <2>11, <2>12, <2>15 DEF Internal
  <2> QED
    BY <1>2, <2>2, <2>3, <2>9, <2>13, <2>14, <2>15, InputAssumption DEF Next
<1> QED
  BY <1>1, <1>2

(* All the invariants together. *)
LEMMA CheckInvariant ==
  ASSUME Rewinds = {}
  PROVE  Spec /\ [][SoundRestart]_vars /\ [][LastingVerdict]_vars /\ [][InOrder]_vars
           /\ [][RejectsOnTop]_vars => [](IInv /\ ActInv /\ CovInv /\ MarkInv /\ CompleteInv)
<1>1. IInv /\ ActInv /\ CovInv /\ MarkInv /\ CompleteInv
        /\ [Next]_vars /\ [SoundRestart]_vars /\ [InOrder]_vars /\ [RejectsOnTop]_vars
      => MarkInv' /\ CompleteInv'
  BY CheckInductive
<1>2. Init => MarkInv /\ CompleteInv
  BY InitMark, InitComplete
<1> QED
  BY <1>1, <1>2, SoundIsGood, Invariant, ActInvariant, CovInvariant, PTL DEF Spec

(* All that CheckBlockIndex asserts, whenever ProcessNewBlock or            *)
(* ActivateBestChain calls it, for every tree, order of arrival and         *)
(* interleaving: exactly the linked blocks that are not worse than the tip  *)
(* and have no invalid ancestor are candidates, every failed block has an   *)
(* invalid ancestor, and SCRIPTS valid is inherited from the parents.       *)
THEOREM CheckBlockIndexTheorem ==
  ASSUME Rewinds = {}
  PROVE  Spec /\ [][SoundRestart]_vars /\ [][LastingVerdict]_vars /\ [][InOrder]_vars
           /\ [][RejectsOnTop]_vars => []CheckBlockIndex
<1>1. IInv /\ ActInv /\ CovInv /\ MarkInv /\ CompleteInv => CheckBlockIndex
  <2> SUFFICES ASSUME IInv, ActInv, CovInv, MarkInv, CompleteInv PROVE CheckBlockIndex
    OBVIOUS
  <2>1. LinkedTree
    BY DEF IInv
  <2>2. FailedMaskAssertion /\ ScriptsValidAssertion
    BY DEF MarkInv, FailedMask, ScriptsMask, FailedMaskAssertion, ScriptsValidAssertion
  <2>3. CandidatesAssertion
    <3> SUFFICES ASSUME CheckPoint, NEW b \in linked
                 PROVE  IF Worse(b, tip) THEN b \notin candidates
                        ELSE (\A a \in Path[b] : "failedValid" \notin nStatus[a]) => b \in candidates
      BY DEF CandidatesAssertion
    <3>1. AllIn(tip)
      <4>1. CASE job = "none" \/ phase = "accepted"
        BY <4>1 DEF CompleteInv
      <4>2. CASE phase = "finish"
        <5>1. IsBest(tip) /\ job # "invalidate"
          BY <4>2 DEF ActInv, TowardsTarget, Arrived, IInv, ControlConsistent
        <5> QED
          BY <5>1, BestMeansAllIn
      <4> QED
        BY <4>1, <4>2 DEF CheckPoint
    <3>2. b \in Blocks
      BY DEF IInv, TypeOK
    <3>3. Worse(b, tip) => b \notin candidates
      BY DEF ActInv, Pruned
    <3>4. (\A a \in Path[b] : "failedValid" \notin nStatus[a]) => ~Failed(b)
      BY <3>2 DEF MarkInv, FailedMask
    <3> QED
      BY <3>1, <3>3, <3>4 DEF AllIn
  <2> QED
    BY <2>1, <2>2, <2>3 DEF CheckBlockIndex
<1> QED
  BY <1>1, CheckInvariant, PTL
=============================================================================
