---------------------------- MODULE BlockDownload ----------------------------
(***************************************************************************)
(* Block download from several peers (main.cpp): what each peer is known   *)
(* to have, the blocks in flight, the window, stalling and timeouts, and   *)
(* peers that come and go. Every action holds cs_main from end to end.     *)
(* All blocks have the same proof, so that work is height. Time is         *)
(* abstract: a peer outside Honest may exceed any of the time limits, a    *)
(* peer in Honest answers within them. Validation and the choice of the    *)
(* best chain are reduced to what the download sees of ChainState.         *)
(*                                                                         *)
(* Some definitions have a variant just before them that nothing uses      *)
(* (FinalizeKeepsFlight before FinalizeFlight): the definition with a      *)
(* plausible programming error, kept to confirm that the properties notice *)
(* it.                                                                     *)
(***************************************************************************)
EXTENDS Integers, Sequences, FiniteSets, FiniteSetsExt, Functions

CONSTANTS
    Blocks, Genesis,
    Path,           \* Path[b]: the blocks from Genesis to b
    Invalid,        \* blocks that CheckBlock or AcceptBlock rejects
    Announced,      \* blocks that peers announce
    Recent,         \* blocks less than 6 hours old
    Peers,
    Honest,         \* peers that stay and answer in time
    Preferred,      \* outbound or whitelisted peers
    MAX_IN_TRANSIT, \* MAX_BLOCKS_IN_TRANSIT_PER_PEER
    WINDOW,         \* BLOCK_DOWNLOAD_WINDOW
    MaxSessions,    \* bound on the connections with other peers
    None

VARIABLES
    index,          \* mapBlockIndex
    data,           \* blocks with BLOCK_HAVE_DATA
    failed,         \* blocks with BLOCK_FAILED_VALID
    tip,            \* chainActive.Tip()
    node,           \* mapNodeState, None for a peer that is not connected
    mapBlocksInFlight,
    nPreferredDownload,
    nSyncStarted,
    nQueuedValidatedHeaders,
    sessions

vars == <<index, data, failed, tip, node, mapBlocksInFlight, nPreferredDownload,
          nSyncStarted, nQueuedValidatedHeaders, sessions>>

blockVars == <<index, data, failed, tip>>

Ancestors(b) == Range(Path[b])
Height(b) == Len(Path[b]) - 1

ASSUME TreeAssumption ==
    /\ None \notin Blocks \cup Peers /\ IsFiniteSet(Blocks)
    /\ Genesis \in Blocks /\ Announced \subseteq Blocks
    /\ Path \in [Blocks -> Seq(Blocks) \ {<< >>}]
    /\ \A b \in Blocks : Path[b][1] = Genesis /\ Path[b][Len(Path[b])] = b
    /\ \A b \in Blocks : \A k \in DOMAIN Path[b] : Path[Path[b][k]] = SubSeq(Path[b], 1, k)

ASSUME LimitAssumption ==
    /\ IsFiniteSet(Peers) /\ Honest \subseteq Peers /\ Preferred \subseteq Peers
    /\ MAX_IN_TRANSIT \in Nat \ {0} /\ WINDOW \in Nat \ {0} /\ MaxSessions \in Nat

Connected(p) == node[p] # None
Active(p) == Connected(p) /\ ~node[p].fDisconnect
InFlight(b) == mapBlocksInFlight[b] # None
One(b) == IF b THEN 1 ELSE 0
HaveTx(b, d) == Ancestors(b) \subseteq d
Prev(b) == Path[b][Len(Path[b]) - 1]

\* The elements of s that are in S, in order.
Keep(s, S) ==
    LET kept[k \in 0..Len(s)] ==
            IF k = 0 THEN << >>
            ELSE IF s[k] \in S THEN Append(kept[k - 1], s[k]) ELSE kept[k - 1]
    IN  kept[Len(s)]

\* s without its first b
Without(s, b) ==
    LET k == Min({l \in DOMAIN s : s[l] = b})
    IN  SubSeq(s, 1, k - 1) \o SubSeq(s, k + 1, Len(s))

-----------------------------------------------------------------------------
(* What a peer has *)

Better(old, b) == IF old = None THEN b ELSE IF Height(b) >= Height(old) THEN b ELSE old

ProcessBlockAvailability(n, idx) ==
    IF n.unknown \in idx
    THEN [n EXCEPT !.best = Better(@, n.unknown), !.unknown = None]
    ELSE n

UpdateBlockAvailability(n, b, idx) ==
    LET m == ProcessBlockAvailability(n, idx) IN
    IF b \in idx THEN [m EXCEPT !.best = Better(@, b)] ELSE [m EXCEPT !.unknown = b]

LastCommonAncestor(a, b) ==
    Path[a][Max({k \in DOMAIN Path[a] \cap DOMAIN Path[b] : Path[a][k] = Path[b][k]})]

-----------------------------------------------------------------------------
(* Blocks in flight *)

MarkBlockAsReceivedKeepsStall(b, nodes) ==
    LET p == mapBlocksInFlight[b] IN
    IF p = None THEN nodes
    ELSE [nodes EXCEPT ![p].flight = Without(@, b), ![p].nBlocksInFlight = @ - 1]

\* The peer that b was asked of is not stalling any more.
MarkBlockAsReceived(b, nodes) ==
    LET p == mapBlocksInFlight[b] IN
    IF p = None THEN nodes
    ELSE [nodes EXCEPT ![p].flight = Without(@, b),
                       ![p].nBlocksInFlight = @ - 1, ![p].stalling = FALSE]

Unmarked(b) == [mapBlocksInFlight EXCEPT ![b] = None]

Dequeued(b) == nQueuedValidatedHeaders - One(InFlight(b))

\* MarkBlockAsInFlight for each of wanted, none of which is in flight
MarkBlocksAsInFlight(p, n, wanted) ==
    /\ node' = [node EXCEPT ![p] = [n EXCEPT !.flight = @ \o wanted,
                                             !.nBlocksInFlight = @ + Len(wanted)]]
    /\ mapBlocksInFlight' = [b \in Blocks |-> IF b \in Range(wanted) THEN p ELSE mapBlocksInFlight[b]]
    /\ nQueuedValidatedHeaders' = nQueuedValidatedHeaders + Len(wanted)

-----------------------------------------------------------------------------
(* FindNextBlocksToDownload, for the node state n of peer p *)

Room(n) == MAX_IN_TRANSIT - n.nBlocksInFlight

Interesting(n) == n.best # None /\ Height(n.best) >= Height(tip)

CommonStartKept(n) ==
    IF n.common # None THEN n.common ELSE Path[tip][Min({Height(n.best), Height(tip)}) + 1]

\* pindexLastCommonBlock at the start, guessed from the active chain at first
CommonStart(n) ==
    LastCommonAncestor(IF n.common # None THEN n.common
                       ELSE Path[tip][Min({Height(n.best), Height(tip)}) + 1], n.best)

\* The peer that holds up the window, when nothing else can be fetched.
StallerAt(p, walk) == IF walk.fetch = << >> /\ walk.waiting # p THEN walk.waiting ELSE None

WalkBlockAnyData(p, n, end, walk, b) ==
    IF walk.done THEN walk
    ELSE IF b \in failed THEN [walk EXCEPT !.done = TRUE]
    ELSE IF b \in data THEN [walk EXCEPT !.common = b]
    ELSE IF InFlight(b)
    THEN [walk EXCEPT !.waiting = IF @ = None THEN mapBlocksInFlight[b] ELSE @]
    ELSE IF Height(b) > end
    THEN [walk EXCEPT !.done = TRUE, !.staller = StallerAt(p, walk)]
    ELSE [walk EXCEPT !.fetch = Append(@, b), !.done = (Len(walk.fetch) + 1 = Room(n))]

\* One block of the walk towards the peer's best block; end is the window's.
WalkBlock(p, n, end, walk, b) ==
    IF walk.done THEN walk
    ELSE IF b \in failed THEN [walk EXCEPT !.done = TRUE]
    ELSE IF b \in data THEN [walk EXCEPT !.common = IF HaveTx(b, data) THEN b ELSE @]
    ELSE IF InFlight(b)
    THEN [walk EXCEPT !.waiting = IF @ = None THEN mapBlocksInFlight[b] ELSE @]
    ELSE IF Height(b) > end
    THEN [walk EXCEPT !.done = TRUE, !.staller = StallerAt(p, walk)]
    ELSE [walk EXCEPT !.fetch = Append(@, b), !.done = (Len(walk.fetch) + 1 = Room(n))]

\* The walk from start, the last common block, to the peer's best block or one
\* block past the window.
FindNextBlocksToDownload(p, n, start) ==
    LET end == Height(start) + WINDOW
        last == Min({Height(n.best), end + 1})
        walk[k \in Height(start)..last] ==
            IF k = Height(start)
            THEN [common |-> start, fetch |-> << >>, waiting |-> None, staller |-> None, done |-> FALSE]
            ELSE WalkBlock(p, n, end, walk[k - 1], Path[n.best][k + 1])
    IN  walk[last]

-----------------------------------------------------------------------------
(* Peers *)

NewNode(p) ==
    [best |-> None, unknown |-> None, common |-> None, flight |-> << >>, nBlocksInFlight |-> 0,
     stalling |-> FALSE, fSyncStarted |-> FALSE, fDisconnect |-> FALSE]

\* InitializeNode and, with the version message, UpdatePreferredDownload
Connect(p) ==
    /\ ~Connected(p) /\ (p \in Honest \/ sessions < MaxSessions)
    /\ node' = [node EXCEPT ![p] = NewNode(p)]
    /\ nPreferredDownload' = nPreferredDownload + One(p \in Preferred)
    /\ sessions' = sessions + One(p \notin Honest)
    /\ UNCHANGED <<blockVars, mapBlocksInFlight, nSyncStarted, nQueuedValidatedHeaders>>

\* The connection is lost, or the peer misbehaved.
Drop(p) ==
    /\ Active(p) /\ p \notin Honest
    /\ node' = [node EXCEPT ![p].fDisconnect = TRUE]
    /\ UNCHANGED <<blockVars, mapBlocksInFlight, nPreferredDownload, nSyncStarted,
                   nQueuedValidatedHeaders, sessions>>

FinalizeKeepsFlight(p) == mapBlocksInFlight

FinalizeFlight(p) ==
    [b \in Blocks |-> IF b \in Range(node[p].flight) THEN None ELSE mapBlocksInFlight[b]]

FinalizeNode(p) ==
    /\ Connected(p) /\ node[p].fDisconnect
    /\ nSyncStarted' = nSyncStarted - One(node[p].fSyncStarted)
    /\ mapBlocksInFlight' = FinalizeFlight(p)
    /\ nPreferredDownload' = nPreferredDownload - One(p \in Preferred)
    /\ node' = [node EXCEPT ![p] = None]
    /\ UNCHANGED <<blockVars, nQueuedValidatedHeaders, sessions>>

-----------------------------------------------------------------------------
(* Messages *)

\* "inv" of a block. A getdata for an unknown block is not tracked.
Inv(p, b) ==
    /\ Active(p)
    /\ node' = [node EXCEPT ![p] = UpdateBlockAvailability(@, b, index)]
    /\ UNCHANGED <<blockVars, mapBlocksInFlight, nPreferredDownload, nSyncStarted,
                   nQueuedValidatedHeaders, sessions>>

\* What the "headers" handler asks for at once: the missing blocks of the branch
\* to b, oldest first, unless the walk down to the active chain finds too many.
\* (CanDirectFetch always answers true, main.cpp:463.)
DirectFetch(n, b) ==
    LET branch == Keep(Path[b], Blocks \ Ancestors(tip))
        missing == Keep(branch, {c \in Blocks \ data : ~InFlight(c)})
        found == IF Len(missing) > MAX_IN_TRANSIT
                 THEN missing[Len(missing) - MAX_IN_TRANSIT] ELSE Genesis
    IN  IF Height(b) < Height(tip) \/ (found # Genesis /\ found # Head(branch)) THEN << >>
        ELSE SubSeq(missing, 1, Min({Len(missing), Room(n)}))

LastKnown(b) == Path[b][Max({k \in DOMAIN Path[b] : Path[b][k] \in index})]

\* Headers that lead to b, and then to one that is refused.
HeadersRefused(p, b) ==
    /\ Active(p) /\ LastKnown(b) \notin failed
    /\ index' = index \cup Ancestors(b)
    /\ UNCHANGED <<data, failed, tip, node, mapBlocksInFlight, nPreferredDownload, nSyncStarted,
                   nQueuedValidatedHeaders, sessions>>

\* "headers" that lead to b from a block we know
Headers(p, b) ==
    /\ Active(p) /\ LastKnown(b) \notin failed
    /\ index' = index \cup Ancestors(b)
    /\ LET n == UpdateBlockAvailability(node[p], b, index')
       IN  MarkBlocksAsInFlight(p, n, DirectFetch(n, b))
    /\ UNCHANGED <<data, failed, tip, nPreferredDownload, nSyncStarted, sessions>>

\* ActivateBestChain: more work than the tip, with all its data
BestTip(d, f) ==
    LET cand == {b \in Blocks : HaveTx(b, d) /\ Ancestors(b) \cap f = {} /\ Height(b) > Height(tip)}
    IN  IF cand = {} THEN {tip} ELSE {b \in cand : \A c \in cand : Height(c) <= Height(b)}

\* "block" from a peer, asked for or not: ProcessNewBlock, unless the block is on
\* disk and not above the tip. The block is stored, or marked invalid in the index
\* (ContextualCheckBlock), or just dropped (CheckBlock, CheckWork, a failed parent).
Block(p, b) ==
    /\ Active(p)
    /\ b # Genesis /\ Prev(b) \in index
    /\ ~(b \in data /\ Height(b) <= Height(tip))
    /\ node' = MarkBlockAsReceived(b, node)
    /\ mapBlocksInFlight' = Unmarked(b)
    /\ nQueuedValidatedHeaders' = Dequeued(b)
    /\ LET refused == {b, Prev(b)} \cap failed # {} IN
       \/ /\ ~refused /\ b \notin Invalid
          /\ index' = index \cup {b} /\ data' = data \cup {b}
          /\ tip' \in BestTip(data', failed)
          /\ UNCHANGED failed
       \/ /\ ~refused /\ b \in Invalid
          /\ index' = index \cup {b} /\ failed' = failed \cup {b}
          /\ UNCHANGED <<data, tip>>
       \/ /\ refused \/ b \in Invalid
          /\ UNCHANGED blockVars
    /\ UNCHANGED <<nPreferredDownload, nSyncStarted, sessions>>

-----------------------------------------------------------------------------
(* SendMessages *)

FFetch(p) == p \in Preferred \/ nPreferredDownload = 0

\* the start of block sync: from one peer, or from all when our headers are recent
SyncStart(p) == ~node[p].fSyncStarted /\ FFetch(p) /\ (nSyncStarted = 0 \/ index \cap Recent # {})

\* the state of p after the start of block sync and ProcessBlockAvailability, which
\* every call makes, whether or not it comes to fetch blocks
Refreshed(p) == ProcessBlockAvailability([node[p] EXCEPT !.fSyncStarted = @ \/ SyncStart(p)], index)

\* The peer has been stalling, or a block in flight from it, for too long.
SendTimeout(p) ==
    /\ Active(p) /\ p \notin Honest
    /\ node[p].stalling \/ node[p].flight # << >>
    /\ \E n \in {Refreshed(p)} : node' = [node EXCEPT ![p] = [n EXCEPT !.fDisconnect = TRUE]]
    /\ nSyncStarted' = nSyncStarted + One(SyncStart(p))
    /\ UNCHANGED <<blockVars, mapBlocksInFlight, nPreferredDownload, nQueuedValidatedHeaders, sessions>>

\* getdata for blocks, to peer p whose state is n so far
SendGetData(p, n) ==
    IF ~FFetch(p) \/ Room(n) <= 0 \/ ~Interesting(n)
    THEN node' = [node EXCEPT ![p] = n] /\ UNCHANGED <<mapBlocksInFlight, nQueuedValidatedHeaders>>
    ELSE \E start \in {CommonStart(n)} :
         \E found \in {FindNextBlocksToDownload(p, n, start)} :
        IF n.nBlocksInFlight = 0 /\ found.staller # None
        THEN /\ node' = [node EXCEPT ![p] = [n EXCEPT !.common = found.common],
                                     ![found.staller].stalling = TRUE]
             /\ UNCHANGED <<mapBlocksInFlight, nQueuedValidatedHeaders>>
        ELSE MarkBlocksAsInFlight(p, [n EXCEPT !.common = found.common], found.fetch)

SendMessages(p) ==
    /\ Active(p)
    /\ nSyncStarted' = nSyncStarted + One(SyncStart(p))
    /\ \E n \in {Refreshed(p)} : SendGetData(p, n)
    /\ UNCHANGED <<blockVars, nPreferredDownload, sessions>>

-----------------------------------------------------------------------------

Init ==
    /\ index = {Genesis} /\ data = {Genesis} /\ failed = {} /\ tip = Genesis
    /\ node = [p \in Peers |-> None]
    /\ mapBlocksInFlight = [b \in Blocks |-> None]
    /\ nPreferredDownload = 0 /\ nSyncStarted = 0 /\ nQueuedValidatedHeaders = 0
    /\ sessions = 0

Next ==
    \E p \in Peers :
        \/ Connect(p) \/ Drop(p) \/ FinalizeNode(p)
        \/ \E b \in Announced : Inv(p, b) \/ Headers(p, b) \/ HeadersRefused(p, b)
        \/ \E b \in Blocks : Block(p, b)
        \/ SendTimeout(p) \/ SendMessages(p)

Spec == Init /\ [][Next]_vars

\* An honest peer answers a getdata in order.
Answer(p) == Connected(p) /\ node[p].flight # << >> /\ Block(p, Head(node[p].flight))

\* The message thread serves every peer, limits that are exceeded are noticed and
\* sockets are closed; honest peers send the blocks they are asked for.
FairSpec ==
    /\ Spec
    /\ \A p \in Peers \ Honest : WF_vars(FinalizeNode(p)) /\ WF_vars(SendTimeout(p))
    /\ \A p \in Honest : WF_vars(SendMessages(p)) /\ WF_vars(Answer(p))

-----------------------------------------------------------------------------
(* Properties *)

NodeState == [best : Blocks \cup {None}, unknown : Blocks \cup {None}, common : Blocks \cup {None},
              flight : Seq(Blocks), nBlocksInFlight : Nat, stalling : BOOLEAN,
              fSyncStarted : BOOLEAN, fDisconnect : BOOLEAN]

ASSUME NoneAssumption == None \notin NodeState

TypeOK ==
    /\ index \subseteq Blocks /\ data \subseteq index /\ failed \subseteq index /\ tip \in index
    /\ node \in [Peers -> NodeState \cup {None}]
    /\ mapBlocksInFlight \in [Blocks -> Peers \cup {None}]
    /\ nPreferredDownload \in Nat /\ nSyncStarted \in Nat /\ nQueuedValidatedHeaders \in Nat

\* mapBlocksInFlight and the peers' lists agree, each block is asked of one
\* connected peer at a time and listed once: the iterators in the map and
\* State(staller) are never dangling, whoever disconnects or sends blocks unasked.
InFlightExact ==
    /\ \A b \in Blocks, p \in Peers :
        mapBlocksInFlight[b] = p <=> Connected(p) /\ b \in Range(node[p].flight)
    /\ \A p \in Peers : Connected(p) =>
        /\ IsInjective(node[p].flight)
        /\ node[p].nBlocksInFlight = Len(node[p].flight)

\* No peer is asked for more than MAX_BLOCKS_IN_TRANSIT_PER_PEER at a time.
InFlightBounded == \A p \in Peers : Connected(p) => node[p].nBlocksInFlight <= MAX_IN_TRANSIT

\* A block that is on disk is not waited for any more.
StoredNotInFlight == \A b \in data : ~InFlight(b)

\* A peer counts as stalling only while it owes us a block.
StallerOwesBlock == \A p \in Peers : Connected(p) /\ node[p].stalling => node[p].flight # << >>

\* "The last full block we both have": pindexLastCommonBlock has the data of all
\* its ancestors, so that no download starts above a gap.
CommonIsFull ==
    \A p \in Peers : Connected(p) /\ node[p].common # None => HaveTx(node[p].common, data)

\* The counters over all peers agree with the peers' flags.
CountersExact ==
    /\ nPreferredDownload = Cardinality({p \in Preferred : Connected(p)})
    /\ nSyncStarted = Cardinality({p \in Peers : Connected(p) /\ node[p].fSyncStarted})

\* The maps, lists and counters of all peers agree and stay within their limits,
\* whoever connects, disconnects, times out or sends blocks unasked.
BookkeepingExact ==
    TypeOK /\ InFlightExact /\ InFlightBounded /\ StoredNotInFlight /\ CountersExact

\* A valid block with the most work that an honest, preferred peer has announced
\* is downloaded with its ancestors, although other peers took it over and stall.
DownloadCompletes ==
    \A p \in Honest \cap Preferred :
        \A b \in {c \in Announced : Ancestors(c) \cap Invalid = {} /\
                       \A d \in Blocks \ {c} : Height(d) < Height(c)} :
            (Connected(p) /\ node[p].best = b) ~> HaveTx(b, data)
=============================================================================
