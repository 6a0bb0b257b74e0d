----------------------------- MODULE OutputSyntax -----------------------------
(***************************************************************************)
(* What a node checks of the outputs of a transaction before it looks at   *)
(* any input (output.go, called from Transaction.SyntacticallyValidate),   *)
(* with the storage scores (storagescore.go).                              *)
(*                                                                         *)
(* An output is a record: type, chain id, index (StateIndex or foundry     *)
(* counter), amount, mana, its unlock conditions and features in the order *)
(* of the slices, and `aux' (validator of a delegation, token scheme of a  *)
(* foundry).  A condition has a type, an address and a number (slot or     *)
(* amount); a feature has a type, a value, a number (staked amount) and    *)
(* block issuer keys.                                                      *)
(***************************************************************************)
EXTENDS Integers, Sequences, FiniteSets, SequencesExt, FiniteSetsExt

CONSTANTS
    AddressType,    \* [Address -> type of the address]
    Receives,       \* [Address with capabilities -> what it can receive]
    TokenSupply, MaxManaValue,
    MaxBlockIssuerKeysCount,
    MaxMetadata,    \* the values of metadata features that are too long
    ScoreParams     \* cost, factor, overhead, metadata, key, staking, delegation; the
                    \* size of each type of output, of an element and of each address

EmptyID == "empty"

(* UnlockConditionType and FeatureType *)
UC == [Address |-> 0, StorageDepositReturn |-> 1, Timelock |-> 2, Expiration |-> 3,
       StateController |-> 4, Governor |-> 5, ImmutableAccount |-> 6]
FT == [Sender |-> 0, Issuer |-> 1, Metadata |-> 2, StateMetadata |-> 3,
       Tag |-> 4, NativeToken |-> 5, BlockIssuer |-> 6, Staking |-> 7]

UnlockCondition(t, a, n) == [t |-> t, addr |-> a, n |-> n]
Feature(t, v, n) == [t |-> t, v |-> v, n |-> n, keys |-> <<>>]

(* UnlockConditionSet and FeatureSet: the elements of a type. *)
All(s, t) == {x \in ToSet(s) : x.t = t}
Has(s, t) == All(s, t) # {}
The(s, t) == CHOOSE x \in ToSet(s) : x.t = t
IsChainOutput(o) == o.type \notin {"Basic"}
Owner(o) == The(o.conds, IF o.type = "Foundry" THEN UC.ImmutableAccount ELSE UC.Address).addr
IsSimpleTransfer(o) == o.type = "Basic" /\ o.feats = <<>> /\ Len(o.conds) = 1

-----------------------------------------------------------------------------
(* Storage scores.                                                         *)
Size(o) ==
    ScoreParams.size[o.type] + (Len(o.conds) + Len(o.feats) + Len(o.imm)) * ScoreParams.element
    + MapThenSumSet(LAMBDA i : ScoreParams.address[o.conds[i].addr], DOMAIN o.conds)
KeyCount(fs) == MapThenSumSet(LAMBDA i : Len(fs[i].keys), DOMAIN fs)

Implicits(o) ==
    LET implicit(a) == AddressType[a] = "ImplicitAccountCreation"
        named(fs) == {f \in All(fs, FT.Sender) \cup All(fs, FT.Issuer) : implicit(f.v)}
    IN  Cardinality({i \in DOMAIN o.conds : implicit(o.conds[i].addr)})
        + Cardinality(named(o.feats)) + Cardinality(named(o.imm))

(* The score of an output without OffsetOutput, given what an implicit     *)
(* account creation address adds.                                          *)
ScoreWith(o, implicit) ==
    ScoreParams.factor * Size(o)
    + implicit * Implicits(o)
    + ScoreParams.key * KeyCount(o.feats)
    + (IF Has(o.feats, FT.Staking) THEN ScoreParams.staking ELSE 0)
    + (IF o.type = "Delegation" THEN ScoreParams.delegation ELSE 0)

DummyOutput(type, feats) ==
    [type |-> type, id |-> EmptyID, index |-> 0, amount |-> 0, mana |-> 0, aux |-> "",
     conds |-> <<UnlockCondition(UC.Address, "dummy", 0)>>, feats |-> feats, imm |-> <<>>]
DummyAccount == DummyOutput("Account", <<[Feature(FT.BlockIssuer, "", 0) EXCEPT !.keys = <<0>>]>>)

(* NewStorageScoreStructure *)
OffsetImplicitAccountCreationAddress ==
    ScoreWith(DummyAccount, 0) - ScoreWith(DummyOutput("Basic", <<>>), 0)
OffsetOutput == ScoreParams.overhead + ScoreParams.factor * ScoreParams.metadata

StorageScore(o) == OffsetOutput + ScoreWith(o, OffsetImplicitAccountCreationAddress)
MinDeposit(o) == ScoreParams.cost * StorageScore(o)

ReturnOutput(a, n) ==
    [DummyOutput("Basic", <<>>) EXCEPT !.conds = <<UnlockCondition(UC.Address, a, 0)>>, !.amount = n]
MinStorageDepositForReturnOutput(a) == MinDeposit(ReturnOutput(a, 0))

-----------------------------------------------------------------------------
(***************************************************************************)
(* What the API of version 3 decodes (api_v3.go): for each type of output  *)
(* the registered unlock conditions and features, and the ones that must   *)
(* occur; most conditions refuse implicit account creation addresses.      *)
(***************************************************************************)
ArrayRules(must, may, feats, imm) == [must |-> must, may |-> must \cup may, feats |-> feats, imm |-> imm]

BasicOutputRules ==
    ArrayRules({UC.Address}, {UC.StorageDepositReturn, UC.Timelock, UC.Expiration},
               {FT.Sender, FT.Metadata, FT.Tag, FT.NativeToken}, {})
AccountOutputRules ==
    ArrayRules({UC.Address}, {}, {FT.Sender, FT.Metadata, FT.BlockIssuer, FT.Staking}, {FT.Issuer, FT.Metadata})
AnchorOutputRules ==
    ArrayRules({UC.StateController, UC.Governor}, {}, {FT.Metadata, FT.StateMetadata}, {FT.Issuer, FT.Metadata})
FoundryOutputRules == ArrayRules({UC.ImmutableAccount}, {}, {FT.Metadata, FT.NativeToken}, {FT.Metadata})
NFTOutputRules ==
    ArrayRules({UC.Address}, {UC.StorageDepositReturn, UC.Timelock, UC.Expiration},
               {FT.Sender, FT.Metadata, FT.Tag}, {FT.Issuer, FT.Metadata})
DelegationOutputRules == ArrayRules({UC.Address}, {}, {}, {})

OutputRules ==
    [Basic |-> BasicOutputRules, Account |-> AccountOutputRules, Anchor |-> AnchorOutputRules,
     Foundry |-> FoundryOutputRules, NFT |-> NFTOutputRules, Delegation |-> DelegationOutputRules]

disallowImplicitAccountCreationAddress(o) ==
    \A t \in {UC.StorageDepositReturn, UC.Expiration, UC.StateController, UC.Governor} :
        \A c \in All(o.conds, t) : AddressType[c.addr] # "ImplicitAccountCreation"

Types(s) == {x.t : x \in ToSet(s)}
ArraysDecodable(o) ==
    LET r == OutputRules[o.type]
    IN  /\ r.must \subseteq Types(o.conds) /\ Types(o.conds) \subseteq r.may /\ Len(o.conds) <= Cardinality(r.may)
        /\ Types(o.feats) \subseteq r.feats /\ Len(o.feats) <= Cardinality(r.feats)
        /\ Types(o.imm) \subseteq r.imm /\ Len(o.imm) <= Cardinality(r.imm)
        /\ disallowImplicitAccountCreationAddress(o)

(* blockIssuerKeysArrRules and the validator of BlockIssuerKeys. *)
MinBlockIssuerKeysCount == 1
KeyCountAllowed(ks) == MinBlockIssuerKeysCount <= Len(ks) /\ Len(ks) <= MaxBlockIssuerKeysCount
KeysInOrder(ks) == \A i \in 2..Len(ks) : ks[i - 1] < ks[i]
BlockIssuerKeysDecodable(ks) == KeyCountAllowed(ks) /\ KeysInOrder(ks)

Decodable(o) ==
    ArraysDecodable(o) /\ \A f \in All(o.feats, FT.BlockIssuer) : BlockIssuerKeysDecodable(f.keys)

-----------------------------------------------------------------------------
(* The validators; each sees the whole sequence of outputs.                *)
LexicalOrderAndUniqueness(s) == \A i \in 2..Len(s) : s[i - 1].t < s[i].t

UnlockConditionLexicalOrderAndUniqueness(o) == LexicalOrderAndUniqueness(o.conds)
FeaturesLexicalOrderAndUniqueness(o) ==
    LexicalOrderAndUniqueness(o.feats) /\ LexicalOrderAndUniqueness(o.imm)

(* Only the mutable features are looked at. *)
MetadataFeatureMaxSize(o) ==
    \A f \in All(o.feats, FT.Metadata) \cup All(o.feats, FT.StateMetadata) : f.v \notin MaxMetadata

DepositAmount(outs) ==
    /\ \A k \in DOMAIN outs :
          /\ outs[k].amount > 0 /\ outs[k].amount >= MinDeposit(outs[k])
          /\ \A c \in All(outs[k].conds, UC.StorageDepositReturn) :
                MinStorageDepositForReturnOutput(c.addr) <= c.n /\ c.n <= outs[k].amount
    /\ MapThenSumSet(LAMBDA k : outs[k].amount, DOMAIN outs) <= TokenSupply

ExpirationAndTimelock(o) == \A c \in All(o.conds, UC.Expiration) \cup All(o.conds, UC.Timelock) : c.n # 0
NativeTokens(o) == \A f \in All(o.feats, FT.NativeToken) : f.n # 0
StoredMana(outs) == MapThenSumSet(LAMBDA k : outs[k].mana, DOMAIN outs) <= MaxManaValue

ChainConstrainedOutputUniqueness(outs) ==
    \A j, k \in DOMAIN outs :
        j # k /\ IsChainOutput(outs[j]) /\ outs[j].id # EmptyID =>
            <<outs[j].type, outs[j].id>> # <<outs[k].type, outs[k].id>>

SyntacticalFoundry(o) ==
    o.type = "Foundry" =>
        o.aux # "invalid scheme" /\ \A f \in All(o.feats, FT.NativeToken) : f.v = o.id

SyntacticalAccount(o) ==
    o.type = "Account" =>
        /\ o.id = EmptyID => o.index = 0
        /\ Owner(o) # o.id
        /\ \A f \in All(o.feats, FT.Staking) : o.amount >= f.n /\ Has(o.feats, FT.BlockIssuer)

SyntacticalAnchor(o) ==
    o.type = "Anchor" =>
        IF o.id = EmptyID
        THEN o.index = 0
        ELSE \A t \in {UC.StateController, UC.Governor} : The(o.conds, t).addr # o.id

SyntacticalNFT(o) == o.type = "NFT" => o.id = EmptyID \/ Owner(o) # o.id
SyntacticalDelegation(o) == o.type = "Delegation" => o.aux # EmptyID

(* checkAddressRestrictions *)
checkAddressRestrictions(o, a) ==
    a \in DOMAIN Receives =>
        /\ Has(o.feats, FT.NativeToken) => "NativeToken" \in Receives[a]
        /\ o.mana # 0 => "Mana" \in Receives[a]
        /\ \A t \in {"Timelock", "Expiration", "StorageDepositReturn"} : Has(o.conds, UC[t]) => t \in Receives[a]
        /\ o.type \in {"Account", "Anchor", "NFT", "Delegation"} => o.type \in Receives[a]

AddressRestrictions(o) ==
    \A t \in {UC.Address, UC.StateController, UC.Governor, UC.Expiration} :
        \A c \in All(o.conds, t) : checkAddressRestrictions(o, c.addr)

ImplicitAccountCreationAddress(o) ==
    o.type \in {"Account", "NFT", "Delegation", "Anchor"} =>
        \A t \in {UC.Address, UC.StateController, UC.Governor} :
            \A c \in All(o.conds, t) : AddressType[c.addr] # "ImplicitAccountCreation"

CommitmentInput(o, hasCommitmentInput) ==
    Has(o.feats, FT.Staking) \/ Has(o.feats, FT.BlockIssuer) \/ o.type = "Delegation" => hasCommitmentInput

(* SyntacticallyValidateOutputs, as Transaction.SyntacticallyValidate      *)
(* calls it.                                                               *)
SyntacticallyValid(outs, hasCommitmentInput) ==
    /\ DepositAmount(outs) /\ StoredMana(outs) /\ ChainConstrainedOutputUniqueness(outs)
    /\ \A k \in DOMAIN outs :
          LET o == outs[k]
          IN  /\ UnlockConditionLexicalOrderAndUniqueness(o) /\ FeaturesLexicalOrderAndUniqueness(o)
              /\ MetadataFeatureMaxSize(o) /\ ExpirationAndTimelock(o) /\ NativeTokens(o)
              /\ SyntacticalFoundry(o) /\ SyntacticalAccount(o) /\ SyntacticalAnchor(o)
              /\ SyntacticalNFT(o) /\ SyntacticalDelegation(o)
              /\ AddressRestrictions(o) /\ ImplicitAccountCreationAddress(o)
              /\ CommitmentInput(o, hasCommitmentInput)
=============================================================================
