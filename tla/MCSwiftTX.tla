------------------------------ MODULE MCSwiftTX ------------------------------
(***************************************************************************)
(* f is in the active chain at start-up, under an empty block.             *)
(***************************************************************************)
EXTENDS SwiftTX, TLC

CONSTANTS f, g, p, q, c, d, s, u, m1, m2, n1, n2

(* p and q both spend f; q may come in a block with coinbase g. The votes of *)
(* m2 can name two heights.                                                  *)
LockTxs == {f, g, p, q}
LockVin == f :> << >> @@ g :> << >> @@ p :> << <<f, 1>> >> @@ q :> << <<f, 1>> >>
LockVout == [t \in LockTxs |-> 1]
LockBlocks == {<<g, q>>}
LockQuorum == {<<m1, 3>>, <<m2, 3>>, <<m2, 4>>}

(* p and q conflict, c spends p, d spends p and c. The coinbases g and s come *)
(* with blocks, u spends s.                                                   *)
PoolTxs == {f, g, p, q, c, d, s, u}
PoolVin == f :> << >> @@ g :> << >> @@ p :> << <<f, 1>> >> @@ q :> << <<f, 1>>, <<f, 2>> >>
           @@ c :> << <<p, 1>>, <<f, 2>> >> @@ d :> << <<p, 2>>, <<c, 1>> >>
           @@ s :> << >> @@ u :> << <<s, 1>>, <<f, 3>> >>
PoolVout == f :> 3 @@ g :> 1 @@ p :> 2 @@ q :> 1 @@ c :> 1 @@ d :> 1 @@ s :> 1 @@ u :> 1
PoolBlocks == {<<s, p>>, <<g>>, <<q>>, <<u>>, <<p, c>>}

Chain == << <<f>>, << >> >>
=============================================================================
