---------------------------- MODULE MCChainCoins ----------------------------
(***************************************************************************)
(* G - A - B - C     ta is spent in part by B, then entirely by C          *)
(*       - D - E     ta is spent entirely by D, and mined again in E       *)
(*       - F         mines ta again while it is unspent                    *)
(*       - X         its second transaction spends what is not there       *)
(*       - Y         could be connected, but another check rejects it      *)
(* In B, te spends tb of the same block. Only coinbases with spendable     *)
(* outputs are listed.                                                     *)
(***************************************************************************)
EXTENDS ChainCoins

CONSTANTS G, A, B, C, D, E, F, X, Y, ta, tb, tc, td, te, tz

MCHashes == {G, A, B, C, D, E, F, X, Y}
MCTxIds == {ta, tb, tc, td, te, tz}
MCParent == A :> G @@ B :> A @@ C :> B @@ D :> A @@ E :> D @@ F :> A @@ X :> A @@ Y :> A
MCHeight == G :> 0 @@ A :> 1 @@ B :> 2 @@ C :> 3 @@ D :> 2 @@ E :> 3 @@ F :> 2 @@ X :> 2 @@ Y :> 2
MCVtx == G :> << >> @@ A :> <<ta>> @@ B :> <<tb, te>> @@ C :> <<tc>> @@ D :> <<td>>
         @@ E :> <<ta>> @@ F :> <<ta>> @@ X :> <<tb, tz>> @@ Y :> <<tb>>
MCVin == ta :> << >> @@ tb :> << <<ta, 1>> >> @@ te :> << <<tb, 1>> >>
         @@ tc :> << <<ta, 2>>, <<te, 1>> >> @@ td :> << <<ta, 1>>, <<ta, 2>> >> @@ tz :> << <<te, 1>> >>
MCOutputs == {1, 2}
MCVout == ta :> {1, 2} @@ tb :> {1} @@ tc :> {1} @@ td :> {1} @@ te :> {1} @@ tz :> {1}
MCPruned == [outs |-> {}, height |-> 0, stake |-> FALSE]
MCValues == [outs : (SUBSET MCOutputs) \ {{}}, height : 0..3, stake : BOOLEAN]
U == [t \in MCTxIds |-> MCPruned]
Coin(t, o, h) == [outs |-> o, height |-> h, stake |-> t \in Stakes]
MCUtxo == G :> U @@ A :> [U EXCEPT ![ta] = Coin(ta, {1, 2}, 1)]
          @@ B :> [U EXCEPT ![ta] = Coin(ta, {2}, 1), ![te] = Coin(te, {1}, 2)]
          @@ C :> [U EXCEPT ![tc] = Coin(tc, {1}, 3)]
          @@ D :> [U EXCEPT ![td] = Coin(td, {1}, 2)]
          @@ E :> [U EXCEPT ![td] = Coin(td, {1}, 2), ![ta] = Coin(ta, {1, 2}, 3)]
          @@ F :> U @@ X :> U @@ Y :> U
=============================================================================
