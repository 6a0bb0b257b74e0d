----------------------------- MODULE MCCommitments -----------------------------
(***************************************************************************)
(* Instances for TLC of what depends on the slot of a block although the   *)
(* virtual machine only knows a commitment.  A behaviour watches an output *)
(* with an expiration and a timelock, a delegation, or an account.         *)
(***************************************************************************)
EXTENDS CommitmentWindow, Delegations, AccountFeatures

VARIABLE part

window == <<expiration, timelock, spends>>
rewards == <<delegation, StartEpoch, EndEpoch, created, ended>>
features == <<account, issuer, staking, history>>

vars == <<slot, window, rewards, features, part>>

Init ==
    /\ part \in {"window", "delegation", "account"}
    /\ WindowInit /\ DelegationInit /\ AccountInit
    /\ part # "window" => expiration = 0 /\ timelock = 0

Next ==
    \/ part = "window" /\ WindowNext /\ UNCHANGED <<rewards, features, part>>
    \/ part = "delegation" /\ DelegationNext /\ UNCHANGED <<window, features, part>>
    \/ part = "account" /\ AccountNext /\ UNCHANGED <<window, rewards, part>>

Spec == Init /\ [][Next]_vars
=============================================================================
