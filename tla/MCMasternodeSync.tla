-------------------------- MODULE MCMasternodeSync --------------------------
(***************************************************************************)
(* Two peers, one of them outdated but still paid for (SPORK_10 is not     *)
(* active), and a masternode to hear of.                                   *)
(***************************************************************************)
EXTENDS MasternodeSync, TLC

CONSTANT mn

OneMasternode == mn :> "list"
=============================================================================
