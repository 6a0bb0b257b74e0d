--------------------------- MODULE ChainTransitions ---------------------------
(***************************************************************************)
(* The rules of the virtual machine for anchors, NFTs and base tokens      *)
(* (vm/nova/vm.go, vm/vm.go, output_anchor.go).  A consumed output is      *)
(* [out, chain]: the output and its chain ID, which is not yet in the      *)
(* first output of a chain.  `unlocked' is the set of unlocked addresses.  *)
(***************************************************************************)
EXTENDS OutputSyntax

CONSTANTS
    Underlying,     \* the address inside of a restricted address
    IndexLimit      \* stands for 2^32, the limit of StateIndex

resolveUnderlyingAddress(a) == IF AddressType[a] = "Restricted" THEN Underlying[a] ELSE a

StateControllerOf(o) == The(o.conds, UC.StateController).addr
GovernorOf(o) == The(o.conds, UC.Governor).addr
NextIndex(o) == (o.index + 1) % IndexLimit

FeatureUnchanged(t, fs, gs) == All(fs, t) = All(gs, t)

IsIssuerOnOutputUnlocked(o, unlocked) ==
    \A f \in All(o.imm, FT.Issuer) : resolveUnderlyingAddress(f.v) \in unlocked

SenderUnlocked(outs, unlocked) ==
    \A k \in DOMAIN outs : \A f \in All(outs[k].feats, FT.Sender) : resolveUnderlyingAddress(f.v) \in unlocked

-----------------------------------------------------------------------------
(* AnchorOutput.Owner: the address that has to be unlocked. *)
AnchorOwnerExists(o, next) == next.index \in {o.index, NextIndex(o)}
AnchorOwner(o, next) == IF next.index = o.index THEN GovernorOf(o) ELSE StateControllerOf(o)

anchorGenesisValid(o, unlocked) == o.id = EmptyID /\ IsIssuerOnOutputUnlocked(o, unlocked)

(* Mutant: governance may write the state metadata. *)
anchorGovernanceSTVFUnguarded(o, next) == o.amount = next.amount /\ o.index = next.index

anchorGovernanceSTVF(o, next) ==
    /\ o.amount = next.amount /\ o.index = next.index
    /\ FeatureUnchanged(FT.StateMetadata, o.feats, next.feats)

anchorStateSTVF(o, next) ==
    /\ StateControllerOf(o) = StateControllerOf(next) /\ GovernorOf(o) = GovernorOf(next)
    /\ next.index = NextIndex(o)
    /\ FeatureUnchanged(FT.Metadata, o.feats, next.feats)

anchorStateChangeValid(o, next) ==
    /\ o.imm = next.imm
    /\ IF o.index = next.index THEN anchorGovernanceSTVF(o, next) ELSE anchorStateSTVF(o, next)

nftGenesisValid(o, unlocked) == o.id = EmptyID /\ IsIssuerOnOutputUnlocked(o, unlocked)

(* Mutant: immutable features may be added. *)
nftStateChangeGrowing(o, next) == ToSet(o.imm) \subseteq ToSet(next.imm)

nftStateChangeValid(o, next) == o.imm = next.imm

(* ChainSTVF, for these types. *)
GenesisValid(o, unlocked) ==
    /\ o.type = "Anchor" => anchorGenesisValid(o, unlocked)
    /\ o.type = "NFT" => nftGenesisValid(o, unlocked)
StateChangeValid(o, next) ==
    /\ o.type = "Anchor" => anchorStateChangeValid(o, next)
    /\ o.type = "NFT" => nftStateChangeValid(o, next)

(* anchorDestructionValid and nftDestructionValid *)
DestructionValid(o, capabilities) == o.type \in {"Anchor", "NFT"} => o.type \in capabilities

-----------------------------------------------------------------------------
(***************************************************************************)
(* ExecFuncBalancedBaseTokens.  Inputs are [out, chain, by]: `by' is the   *)
(* address that unlocked the input.                                        *)
(***************************************************************************)
Amounts(outs) == MapThenSumSet(LAMBDA k : outs[k].amount, DOMAIN outs)

Deposits(ins, a) ==
    UNION {{<<i, c>> : c \in {d \in All(i.out.conds, UC.StorageDepositReturn) : d.addr = a}} :
              i \in {j \in ins : j.by # a}}

(* Mutant: the largest deposit of an address counts, not the sum. *)
inputSumReturnAmountLargest(ins, a) == Max({d[2].n : d \in Deposits(ins, a)} \cup {0})

inputSumReturnAmount(ins, a) == MapThenSumSet(LAMBDA d : d[2].n, Deposits(ins, a))

outputSimpleTransfers(outs, a) ==
    MapThenSumSet(LAMBDA k : outs[k].amount,
                  {k \in DOMAIN outs : IsSimpleTransfer(outs[k]) /\ Owner(outs[k]) = a})

BalancedBaseTokens(ins, outs) ==
    /\ MapThenSumSet(LAMBDA i : i.out.amount, ins) = Amounts(outs)
    /\ \A a \in DOMAIN AddressType : outputSimpleTransfers(outs, a) >= inputSumReturnAmount(ins, a)

AtMostOneImplicitAccountCreationAddress(ins) ==
    Cardinality({i \in ins : i.out.type = "Basic" /\ AddressType[Owner(i.out)] = "ImplicitAccountCreation"}) <= 1
=============================================================================
