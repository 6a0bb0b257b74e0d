----------------------------- MODULE MCManaDecay -----------------------------
(* An instance of ManaDecay for TLC: half words of 6 bits, epochs of 4     *)
(* slots, a decay of 5/8 per epoch.                                        *)
EXTENDS ManaDecay

MCDecayFactors == <<40, 25, 15>>
=============================================================================
