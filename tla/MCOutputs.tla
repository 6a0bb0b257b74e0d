------------------------------- MODULE MCOutputs -------------------------------
(***************************************************************************)
(* Instances for TLC.  A behaviour uses a builder, runs transactions over  *)
(* one of three sets of outputs (anchors, NFTs, basic outputs with         *)
(* deposits), or those of an account with its foundries.                   *)
(***************************************************************************)
EXTENDS OutputBuilder, OutputLedger, Foundries, TLC

VARIABLE part

vars == <<builderVars, ledgerVars, foundriesVars, part>>

MCAddressType ==
    [none |-> "none", dummy |-> "Ed25519", E1 |-> "Ed25519", E2 |-> "Ed25519", I1 |-> "ImplicitAccountCreation",
     R2 |-> "Restricted", Anc |-> "Anchor", Nft |-> "NFT", a |-> "none", b |-> "none"]
MCReceives == [I1 |-> {"NativeToken", "Mana"}, R2 |-> {"Mana", "Anchor"}]
MCUnderlying == [R2 |-> "E2"]
MCChainID == [Anchor |-> "Anc", NFT |-> "Nft"]
MCScore ==
    [cost |-> 1, factor |-> 1, overhead |-> 1, metadata |-> 0, key |-> 1, staking |-> 1, delegation |-> 1,
     size |-> [t \in {"Basic", "Account", "Anchor", "NFT", "Foundry", "Delegation"} |-> 0], element |-> 0,
     address |-> [x \in DOMAIN MCAddressType |-> IF MCAddressType[x] = "Restricted" THEN 1 ELSE 0]]

Basic(a, n, conds) == [ReturnOutput(a, n) EXCEPT !.conds = @ \o conds]
Some(t, vs) == {<<>>} \cup {<<Feature(t, v, 0)>> : v \in vs}

-----------------------------------------------------------------------------
Anchor(id, index, n, s, g, feats, imm) ==
    [type |-> "Anchor", id |-> id, index |-> index, amount |-> n, mana |-> 0, aux |-> "",
     conds |-> <<UnlockCondition(UC.StateController, s, 0), UnlockCondition(UC.Governor, g, 0)>>,
     feats |-> feats, imm |-> imm]
Anchors(n) ==
    {Anchor(at[1], at[2], n, "E1", g, f \o h, m) :
        at \in {<<EmptyID, 0>>, <<"Anc", 0>>, <<"Anc", 1>>, <<"Anc", 2>>}, g \in {"E2", "R2"},
        f \in Some(FT.Metadata, {"a"}), h \in Some(FT.StateMetadata, {"a"}), m \in Some(FT.Issuer, {"E1"})}
AnchorCandidates ==
    {<<a>> : a \in Anchors(3)}
    \cup {<<[a EXCEPT !.mana = 1]>> : a \in {b \in Anchors(3) : b.feats = <<>> /\ b.imm = <<>>}}
    \cup {<<a, Basic("E1", 1, <<>>)>> : a \in Anchors(2)} \cup {<<Basic("E1", 3, <<>>)>>}

UpToTwo(S) == {<<x>> : x \in S} \cup (S \X S)

Nft(id, a, imm) ==
    [DummyOutput("NFT", <<>>) EXCEPT !.id = id, !.amount = 2, !.conds = <<UnlockCondition(UC.Address, a, 0)>>, !.imm = imm]
NFTs ==
    {Nft(id, a, m) : id \in {EmptyID, "Nft"}, a \in {"E1", "E2", "Nft"},
                     m \in Some(FT.Issuer, {"E1", "R2"}) \cup {<<Feature(FT.Issuer, "R2", 0), Feature(FT.Metadata, "a", 0)>>}}
NFTCandidates == {<<n>> : n \in NFTs} \cup (NFTs \X {Basic("E1", 2, <<>>)}) \cup {<<Basic(a, 2, <<>>)>> : a \in {"E1", "E2"}}

Deposit(a, n) == UnlockCondition(UC.StorageDepositReturn, a, n)
DepositCandidates ==
    UpToTwo({Basic("E1", 4, <<Deposit(r, n)>>) : r \in {"E2", "R2", "I1"}, n \in 1..2}
    \cup {Basic("E1", 4, <<Deposit("E2", 1), UnlockCondition(UC.Expiration, "E2", 1)>>)}
    \cup {Basic(a, n, <<>>) : a \in {"E1", "E2", "I1"}, n \in {1, 2, 4}} \cup {Basic("E1", 7, <<>>)})

MCCandidates == [anchor |-> AnchorCandidates, nft |-> NFTCandidates, deposit |-> DepositCandidates]
MCMaxTransactions == [anchor |-> 3, nft |-> 3, deposit |-> 2]
MCGenesis ==
    [anchor |-> <<Basic("E1", 3, <<>>), Basic("E2", 1, <<>>)>>, nft |-> <<Basic("E1", 2, <<>>), Basic("E2", 2, <<>>)>>,
     deposit |-> <<Basic("E1", 4, <<>>), Basic("E2", 8, <<>>)>>]

-----------------------------------------------------------------------------
MCPrevious ==
    {Anchor(id, 1, 2, "E1", "E2", <<Feature(FT.Metadata, "a", 0)>>, <<Feature(FT.Issuer, "E1", 0)>>) : id \in {EmptyID, "Anc"}}
    \cup {Nft("Nft", "E1", <<>>)}
    \cup {[DummyOutput("Account", <<[Feature(FT.BlockIssuer, "", 0) EXCEPT !.keys = ks], Feature(FT.Staking, "", 1)>>)
             EXCEPT !.id = "a"] : ks \in {<<2>>, <<1, 2, 3>>}}
MCKeySlices == {<<>>, <<4>>, <<2, 4>>, <<4, 2>>, <<2, 2>>}

Init ==
    /\ part \in {"builder", "ledger", "foundries"}
    /\ LedgerInit /\ (part # "ledger" => candidates = "deposit")
    /\ FoundriesInit
    /\ IF part = "builder" THEN BuilderInit ELSE
          /\ prev = NoOutput /\ output = NoOutput /\ stateCtrlReq = FALSE /\ govCtrlReq = FALSE
          /\ array = <<<<>>, <<>>>> /\ prevKeys = 0 /\ outKeys = [arr |-> 2, len |-> 0]
          /\ orderly = TRUE /\ built = NoOutput /\ builds = 0 /\ setters = 0
Next ==
    \/ part = "builder" /\ BuilderNext /\ UNCHANGED <<ledgerVars, foundriesVars, part>>
    \/ part = "ledger" /\ LedgerNext /\ UNCHANGED <<builderVars, foundriesVars, part>>
    \/ part = "foundries" /\ FoundriesNext /\ UNCHANGED <<builderVars, ledgerVars, part>>

Spec == Init /\ [][Next]_vars
=============================================================================
