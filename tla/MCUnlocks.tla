------------------------------ MODULE MCUnlocks ------------------------------
(***************************************************************************)
(* Instances of Unlocks for TLC: two keys, one of which owns both an       *)
(* Ed25519 and an implicit account creation address, an account, an anchor,*)
(* a multi address of an Ed25519 address and the account, and a restricted *)
(* address around the multi address.                                       *)
(***************************************************************************)
EXTENDS Unlocks, TLC

CONSTANTS k1, k2

MCKey == {k1, k2}
MCAddressType ==
    [E1 |-> "Ed25519", I1 |-> "ImplicitAccountCreation", E2 |-> "Ed25519",
     Acc |-> "Account", Nft |-> "NFT", Anc |-> "Anchor", Mul |-> "Multi", Res |-> "Restricted"]
MCAddress == DOMAIN MCAddressType
MCKeyOf == [E1 |-> k1, I1 |-> k1, E2 |-> k2]
MCMembers == [Mul |-> <<"E2", "Acc">>]
MCWeight == [Mul |-> <<2, 1>>]
MCThreshold == [Mul |-> 2]
MCUnderlying == [Res |-> "Mul"]

Out(type, owner, chain) ==
    [type |-> type, owner |-> owner, governor |-> owner, chain |-> chain,
     delta |-> "state", expiration |-> NoExpiration, return |-> owner]
Expiring(owner, return) == [Out("Basic", owner, NoChain) EXCEPT !.expiration = 4, !.return = return]

MCOutput ==
    {Out("Basic", "E1", NoChain), Out("Basic", "I1", NoChain), Out("Basic", "E2", NoChain),
     Out("Basic", "Anc", NoChain), Out("Basic", "Mul", NoChain), Out("NFT", "Res", "Nft"), Out("Delegation", "Nft", NoChain),
     Out("Foundry", "Acc", NoChain), Out("Account", "E1", "Acc"),
     Expiring("Acc", "E1")}
    \cup {[Out("Anchor", "E2", "Anc") EXCEPT !.governor = "Acc", !.delta = d] :
            d \in {"destroy", "gov", "state", "bad"}}

Sig(k, v) == [type |-> "Signature", key |-> k, valid |-> v]
Ref(t, i) == [type |-> t, ref |-> i]
Empty == [type |-> "Empty"]
MultiOf(s) == [type |-> "Multi", unlocks |-> s]

MCUnlock ==
    {Sig(k1, TRUE), Sig(k2, TRUE), Sig(k1, FALSE), Empty}
    \cup {Ref(t, i) : t \in {"Reference", "Account", "Anchor", "NFT"}, i \in 1..MaxInputs}
    \cup {MultiOf(<<x, y>>) :
            x \in {Sig(k1, TRUE), Sig(k2, TRUE), Empty} \cup {Ref("Reference", i) : i \in 1..2},
            y \in {Empty, MultiOf(<<>>)} \cup {Ref("Account", i) : i \in 1..2}}
    \cup {MultiOf(<<Sig(k2, TRUE)>>)}
=============================================================================
