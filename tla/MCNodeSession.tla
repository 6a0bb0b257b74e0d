----------------------------- MODULE MCNodeSession -----------------------------
(* An instance of NodeSession for TLC: version 5 starts before 4, and the  *)
(* client, which knows version 3, gets messages of versions 3 and 4.       *)
EXTENDS NodeSession

MCStartEpoch == (3 :> 0) @@ (4 :> 2) @@ (5 :> 1) @@ (6 :> 3)
MCMessageVersion == <<3, 3, 4>>
=============================================================================
