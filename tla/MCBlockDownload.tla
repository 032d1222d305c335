--------------------------- MODULE MCBlockDownload ---------------------------
(***************************************************************************)
(* G - A - B is the best chain, D a valid fork of it and E an invalid one  *)
(* that is only ever sent unasked. h is an honest outbound peer; s may     *)
(* stall, reorganise, send anything and leave.                             *)
(***************************************************************************)
EXTENDS BlockDownload, TLC

CONSTANTS G, A, B, D, E, h, s

MCPath == G :> <<G>> @@ A :> <<G, A>> @@ B :> <<G, A, B>> @@ D :> <<G, D>> @@ E :> <<G, E>>
=============================================================================
