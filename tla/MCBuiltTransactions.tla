-------------------------- MODULE MCBuiltTransactions --------------------------
(***************************************************************************)
(* Instances of BuiltTransactions for TLC.  One wallet has outputs of all  *)
(* kinds of owners and no mana; one has accounts and mana to distribute;   *)
(* one wraps its transaction into a block; one builds a validation block.  *)
(***************************************************************************)
EXTENDS BuiltTransactions, TLC

MCAddressType ==
    [E1 |-> "Ed25519", I1 |-> "ImplicitAccountCreation", E2 |-> "Ed25519", R1 |-> "Restricted",
     AccA |-> "Account", AccB |-> "Account", Nft |-> "NFT", Anc |-> "Anchor", Mul |-> "Multi"]
MCKeyOf == [E1 |-> "k1", I1 |-> "k1", E2 |-> "k2"]
MCUnderlying == [R1 |-> "E1"]
MCMembers == [Mul |-> <<"E1", "E2">>]
MCWeight == [Mul |-> <<1, 1>>]
MCThreshold == [Mul |-> 1]
MCWork == [block |-> 1, input |-> 0, context |-> 1, output |-> 0, allotment |-> 1, signature |-> 1]

Slots == 0..1
Held(id, type, owner, chain) ==
    [id |-> id, type |-> type, owner |-> owner, governor |-> owner, chain |-> chain, delta |-> "state",
     expiration |-> 0, return |-> owner, new |-> FALSE, created |-> 0,
     stored |-> [s \in Slots |-> 0], potential |-> [s \in Slots |-> 0], issuer |-> FALSE]
WithMana(h, m) == [h EXCEPT !.stored = [s \in Slots |-> m - s], !.potential = [s \in Slots |-> 2 * s]]
Wanted(type, owner, account, mana, timelock) ==
    [type |-> type, owner |-> owner, account |-> account, mana |-> mana, timelock |-> timelock]

OwnersWallet ==
    [held |-> {Held(1, "Basic", "E1", "NoChain"), Held(2, "Basic", "I1", "NoChain"),
               [Held(3, "Basic", "R1", "NoChain") EXCEPT !.expiration = 4, !.return = "E2"],
               Held(4, "NFT", "E1", "Nft"), Held(5, "Account", "Nft", "AccA"),
               Held(6, "Foundry", "AccA", "NoChain"), [Held(7, "Account", "E2", "AccB") EXCEPT !.new = TRUE],
               Held(8, "Basic", "AccB", "NoChain"), Held(9, "Basic", "Mul", "NoChain"),
               [Held(10, "Anchor", "E2", "Anc") EXCEPT !.delta = "gov"], Held(11, "Basic", "Anc", "NoChain"),
               Held(12, "NFT", "AccA", "Nft")},
     wanted |-> {Wanted("Basic", "E1", NoAccount, 0, 0)}, mapped |-> {"E1", "I1", "E2"},
     rewards |-> {}, allot |-> {}, slots |-> {}, commitments |-> {1, 3}, issuers |-> {}, rmc |-> {},
     then |-> "vm"]

ManaWallet ==
    [held |-> {[WithMana(Held(1, "Account", "E1", "AccA"), 4) EXCEPT !.issuer = TRUE],
               WithMana(Held(2, "Basic", "E1", "NoChain"), 3),
               WithMana([Held(3, "Account", "E1", "AccB") EXCEPT !.created = 1], 2)},
     wanted |-> {Wanted("Account", "E1", "AccA", 1, 0), Wanted("Basic", "AccA", NoAccount, 2, 5),
                 Wanted("Foundry", "AccA", NoAccount, 0, 0)},
     mapped |-> {"E1"}, rewards |-> {2}, allot |-> {1}, slots |-> Slots, commitments |-> {0},
     issuers |-> {"AccA", "AccB"}, rmc |-> {2}, then |-> "nothing"]

BlockWallet ==
    [held |-> {Held(1, "Basic", "E1", "NoChain")},
     wanted |-> {Wanted("Basic", "AccA", NoAccount, 0, t) : t \in {3, 5, 8}},
     mapped |-> {"E1"}, rewards |-> {}, allot |-> {}, slots |-> {}, commitments |-> {0, 1, 2}, issuers |-> {"AccA"},
     rmc |-> {1, 1000}, then |-> "block"]

ValidatorWallet ==
    [held |-> {}, wanted |-> {}, mapped |-> {}, rewards |-> {}, allot |-> {}, slots |-> {}, commitments |-> {},
     issuers |-> {"AccA"}, rmc |-> {}, then |-> "validate"]

MCWallet == {OwnersWallet, ManaWallet, BlockWallet, ValidatorWallet}
MCParents == {<<1>>, <<2, 1>>, <<2, 3, 2>>}
=============================================================================
