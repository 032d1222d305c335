---------------------------- MODULE MCChainState ----------------------------
(***************************************************************************)
(* Two branches from the genesis block: A, B and C, D, E, all blocks with  *)
(* the same proof: B and D tie, E has the most work.                       *)
(***************************************************************************)
EXTENDS ChainState, TLC

CONSTANTS G, A, B, C, D, E

TwoBranches == {G, A, B, C, D, E}
TwoParents == A :> G @@ B :> A @@ C :> G @@ D :> C @@ E :> D
TwoPaths == G :> {G} @@ A :> {G, A} @@ B :> {G, A, B}
            @@ C :> {G, C} @@ D :> {G, C, D} @@ E :> {G, C, D, E}
TwoWork == G :> 1 @@ A :> 2 @@ B :> 3 @@ C :> 2 @@ D :> 3 @@ E :> 4

(* The branches A and C, D, E. *)
LongBlocks == TwoBranches \ {B}
LongParents == [b \in LongBlocks \ {G} |-> TwoParents[b]]
LongPaths == [b \in LongBlocks |-> TwoPaths[b]]
LongWork == [b \in LongBlocks |-> TwoWork[b]]

(* Index entries in one order of addresses, and in the other. *)
Up == G :> 1 @@ A :> 2 @@ B :> 3 @@ C :> 4 @@ D :> 5 @@ E :> 6
Down == G :> 6 @@ A :> 5 @@ B :> 4 @@ C :> 3 @@ D :> 2 @@ E :> 1
TwoOrders == {Up, Down}
LongOrders == {[b \in LongBlocks |-> order[b]] : order \in TwoOrders}
=============================================================================
