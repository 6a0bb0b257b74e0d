----------------------------- MODULE OutputBuilder -----------------------------
(***************************************************************************)
(* The builders of outputs (builder/output_builder_*.go).  A builder       *)
(* starts with a new output or with a clone of a previous one, setters     *)
(* come in any order, and Build may be called more than once.  The block   *)
(* issuer keys of an account are a slice: Clone copies the slice and not   *)
(* its array, so that the previous output and the new one share the array  *)
(* until an append needs a larger one.                                     *)
(***************************************************************************)
EXTENDS ChainTransitions, Sorting

CONSTANTS
    Previous,       \* outputs of the ledger a builder may start from
    Owners, Values, Amount, Slot, Keys,     \* arguments of the setters
    KeySlices,                              \* slices of keys that callers hand over
    MaxCalls                                \* bound on the number of calls

VARIABLES
    prev,           \* the previous output, NoOutput for a new one
    output,         \* the output being built, without its block issuer keys
    stateCtrlReq, govCtrlReq,
    array,          \* the arrays of keys: of the previous output, and another
    prevKeys,       \* number of keys of the previous output
    outKeys,        \* the slice of the new one: which array, how many
    orderly,        \* history: the slice that the caller handed over was in order
    built,          \* what the last call of Build returned, or NoOutput
    builds, setters

builderVars == <<prev, output, stateCtrlReq, govCtrlReq, array, prevKeys, outKeys, orderly, built, builds, setters>>

NoOutput == [type |-> "none"]

-----------------------------------------------------------------------------
(* What each builder can set.                                              *)
Builder(conds, feats, imm, has) == [conds |-> conds, feats |-> feats, imm |-> imm, has |-> has]

BasicOutputBuilder ==
    Builder({UC.Address, UC.StorageDepositReturn, UC.Timelock, UC.Expiration},
            {FT.Sender, FT.Metadata, FT.Tag, FT.NativeToken}, {}, {"mana"})
NFTOutputBuilder ==
    Builder({UC.Address, UC.StorageDepositReturn, UC.Timelock, UC.Expiration},
            {FT.Sender, FT.Metadata, FT.Tag}, {FT.Issuer, FT.Metadata}, {"mana", "id"})
AccountOutputBuilder ==
    Builder({UC.Address}, {FT.Sender, FT.Metadata, FT.BlockIssuer, FT.Staking},
            {FT.Issuer, FT.Metadata}, {"mana", "id", "index", "remove"})
AnchorOutputBuilder ==
    Builder({UC.StateController, UC.Governor}, {FT.Metadata, FT.StateMetadata},
            {FT.Issuer, FT.Metadata}, {"mana", "id"})
FoundryOutputBuilder == Builder({}, {FT.Metadata, FT.NativeToken}, {FT.Metadata}, {"aux"})
DelegationOutputBuilder == Builder({UC.Address}, {}, {}, {"id", "aux"})

Builders ==
    [Basic |-> BasicOutputBuilder, NFT |-> NFTOutputBuilder, Account |-> AccountOutputBuilder,
     Anchor |-> AnchorOutputBuilder, Foundry |-> FoundryOutputBuilder, Delegation |-> DelegationOutputBuilder]

(* New...OutputBuilder *)
NewOutput(type, a) ==
    [type |-> type, id |-> EmptyID, index |-> 0, amount |-> 1, mana |-> 0, aux |-> "",
     conds |-> IF type = "Anchor"
               THEN <<UnlockCondition(UC.StateController, a, 0), UnlockCondition(UC.Governor, a, 0)>>
               ELSE <<UnlockCondition(IF type = "Foundry" THEN UC.ImmutableAccount ELSE UC.Address, a, 0)>>,
     feats |-> <<>>, imm |-> <<>>]

-----------------------------------------------------------------------------
(* Features and UnlockConditions. *)
Upsert(s, x) ==
    IF Has(s, x.t) THEN [i \in DOMAIN s |-> IF s[i].t = x.t THEN x ELSE s[i]] ELSE Append(s, x)
RemoveType(s, t) == IF Has(s, t) THEN RemoveAt(s, Min({i \in DOMAIN s : s[i].t = t})) ELSE s
SortByType(s) == LET f == Sorting([i \in DOMAIN s |-> s[i].t]) IN [i \in DOMAIN s |-> s[f[i]]]

(* The output as others see it, with the keys k. *)
WithKeys(o, k) ==
    [o EXCEPT !.feats = [i \in DOMAIN @ |-> IF @[i].t = FT.BlockIssuer THEN [@[i] EXCEPT !.keys = k] ELSE @[i]]]
OutNow == SubSeq(array[outKeys.arr], 1, outKeys.len)

-----------------------------------------------------------------------------
(* Callers stop to set when they have built. *)
Calls ==
    /\ builds = 0 /\ setters < MaxCalls /\ setters' = setters + 1
    /\ UNCHANGED <<prev, prevKeys, built, builds>>
KeepKeys == UNCHANGED <<array, outKeys, orderly>>
Requires(state, gov) ==
    /\ stateCtrlReq' = (stateCtrlReq \/ (output.type = "Anchor" /\ state))
    /\ govCtrlReq' = (govCtrlReq \/ (output.type = "Anchor" /\ gov))
May(what) == what \in Builders[output.type].has

SetAmount(n) == Calls /\ KeepKeys /\ output' = [output EXCEPT !.amount = n] /\ Requires(TRUE, FALSE)
SetMana(n) == May("mana") /\ Calls /\ KeepKeys /\ output' = [output EXCEPT !.mana = n] /\ Requires(FALSE, FALSE)

(* "Do not call this function if the underlying output is not new." *)
SetID(id) ==
    /\ May("id") /\ output.id = EmptyID /\ prev # NoOutput
    /\ Calls /\ KeepKeys /\ output' = [output EXCEPT !.id = id] /\ Requires(FALSE, FALSE)

FoundriesToGenerate(n) ==
    /\ May("index") /\ Calls /\ KeepKeys
    /\ output' = [output EXCEPT !.index = (@ + n) % IndexLimit] /\ Requires(FALSE, FALSE)

(* TokenScheme, ValidatorAddress *)
SetAux(v) == May("aux") /\ Calls /\ KeepKeys /\ output' = [output EXCEPT !.aux = v] /\ Requires(FALSE, FALSE)

SetCondition(c) ==
    /\ c.t \in Builders[output.type].conds /\ Calls /\ KeepKeys
    /\ output' = [output EXCEPT !.conds = Upsert(@, c)]
    /\ Requires(FALSE, TRUE)

SetFeature(f) ==
    /\ f.t \in Builders[output.type].feats \ {FT.BlockIssuer} /\ Calls /\ KeepKeys
    /\ output' = [output EXCEPT !.feats = Upsert(@, f)]
    /\ Requires(f.t = FT.StateMetadata, f.t = FT.Metadata)

SetImmutableFeature(f) ==
    /\ f.t \in Builders[output.type].imm /\ Calls /\ KeepKeys
    /\ output' = [output EXCEPT !.imm = Upsert(@, f)] /\ Requires(FALSE, FALSE)

RemoveFeature(t) ==
    /\ May("remove") /\ Calls /\ KeepKeys
    /\ output' = [output EXCEPT !.feats = RemoveType(@, t)] /\ Requires(FALSE, FALSE)

-----------------------------------------------------------------------------
(* The keys of an account.  An array is a sequence as long as its          *)
(* capacity; 0 is an unused place.                                         *)
Fill(s, n) == s \o [i \in 1..(n - Len(s)) |-> 0]
Doubled(n) == IF n = 0 THEN 1 ELSE 2 * n
KeyStep == output.type = "Account" /\ Calls /\ Requires(FALSE, FALSE)
HasIssuer == Has(output.feats, FT.BlockIssuer)

(* The slice of the caller is stored as it is, in whatever order. *)
TakeSlice(ks) ==
    /\ array' = [array EXCEPT ![2] = ks] /\ outKeys' = [arr |-> 2, len |-> Len(ks)]
    /\ orderly' = Ascending(ks)

(* AccountOutputBuilder.BlockIssuer *)
SetBlockIssuer(ks) ==
    /\ KeyStep /\ TakeSlice(ks)
    /\ output' = [output EXCEPT !.feats = Upsert(@, Feature(FT.BlockIssuer, "", 0))]

(* BlockIssuerTransition().Keys(ks).  Against the comment of               *)
(* BlockIssuerTransition an output without the feature does not get one:   *)
(* the new feature is set in no output, and what is done to it is lost.    *)
SetKeys(ks) == KeyStep /\ UNCHANGED output /\ IF HasIssuer THEN TakeSlice(ks) ELSE KeepKeys

(* BlockIssuerTransition().AddKeys(k): BlockIssuerKeys.Add appends and     *)
(* sorts, past the maximum too.                                            *)
AddKey(k) ==
    LET inPlace == outKeys.len < Len(array[outKeys.arr])
        grown == Sort(Append(OutNow, k))
        full == array[outKeys.arr]
    IN  /\ KeyStep /\ UNCHANGED output
        /\ IF ~HasIssuer \/ k \in ToSet(OutNow)
           THEN KeepKeys
           ELSE /\ UNCHANGED orderly
                /\ outKeys' = [arr |-> IF inPlace THEN outKeys.arr ELSE 2, len |-> outKeys.len + 1]
                /\ array' = IF inPlace
                            THEN [array EXCEPT ![outKeys.arr] =
                                     grown \o SubSeq(full, outKeys.len + 2, Len(full))]
                            ELSE [array EXCEPT ![2] = Fill(grown, Doubled(outKeys.len))]

(* BlockIssuerTransition().RemoveKey(k): BlockIssuerKeys.Remove moves the  *)
(* keys behind k down, in place, and sorts; the last place keeps its key.  *)
(* The last key can be removed, too.                                       *)
RemoveKey(k) ==
    LET rest == Sort(RemoveAt(OutNow, Min({i \in DOMAIN OutNow : OutNow[i] = k})))
        full == array[outKeys.arr]
    IN  /\ KeyStep /\ UNCHANGED output
        /\ IF ~HasIssuer \/ k \notin ToSet(OutNow)
           THEN KeepKeys
           ELSE /\ UNCHANGED orderly
                /\ outKeys' = [outKeys EXCEPT !.len = @ - 1]
                /\ array' = [array EXCEPT ![outKeys.arr] = rest \o SubSeq(full, outKeys.len, Len(full))]

(* ExpirySlot of BlockIssuerTransition, StakedAmount of StakingTransition. *)
SetInTransition(t, n) ==
    /\ KeyStep /\ KeepKeys
    /\ output' = [output EXCEPT !.feats =
                    [i \in DOMAIN @ |-> IF @[i].t = t THEN [@[i] EXCEPT !.n = n] ELSE @[i]]]

-----------------------------------------------------------------------------
Built(o) == [o EXCEPT !.conds = SortByType(@), !.feats = SortByType(@), !.imm = SortByType(@)]

(* Mutant: Build ignores what the calls require. *)
BuildUncounted ==
    /\ builds < 2 /\ builds' = builds + 1
    /\ output' = Built(output) /\ built' = WithKeys(Built(output), OutNow)
    /\ UNCHANGED <<prev, prevKeys, stateCtrlReq, govCtrlReq, array, outKeys, orderly, setters>>

(* Build *)
Build ==
    LET refused == prev # NoOutput /\ ((govCtrlReq /\ stateCtrlReq) \/ prev.imm # output.imm)
        next == [output EXCEPT !.index = IF prev # NoOutput /\ stateCtrlReq THEN (@ + 1) % IndexLimit ELSE @]
    IN  /\ builds < 2 /\ builds' = builds + 1
        /\ output' = IF prev # NoOutput /\ govCtrlReq /\ stateCtrlReq THEN output
                     ELSE IF refused THEN next ELSE Built(next)
        /\ built' = IF refused THEN NoOutput ELSE WithKeys(Built(next), OutNow)
        /\ UNCHANGED <<prev, prevKeys, stateCtrlReq, govCtrlReq, array, outKeys, orderly, setters>>

-----------------------------------------------------------------------------
(* A decoded output: the slice of its keys grew by appending. *)
KeysOf(o) == LET f == All(o.feats, FT.BlockIssuer) IN IF f = {} THEN <<>> ELSE (CHOOSE x \in f : TRUE).keys
Capacities == {0, 1, 2, 4, 8, 16, 32, 64, 128}
Capacity(n) == CHOOSE c \in Capacities : c >= n /\ \A d \in Capacities : d >= n => c <= d

(* An output that the ledger may hold: a node decoded and validated it. *)
IsLedgerOutput(o) ==
    /\ DOMAIN o = {"type", "id", "index", "amount", "mana", "aux", "conds", "feats", "imm"}
    /\ o.type \in DOMAIN Builders /\ o.index \in 0..(IndexLimit - 1)
    /\ \A s \in {o.conds, o.feats, o.imm} : s \in Seq(ToSet(s))
    /\ \A f \in ToSet(o.feats) : DOMAIN f = {"t", "v", "n", "keys"}
    /\ Decodable(o)
    /\ UnlockConditionLexicalOrderAndUniqueness(o) /\ FeaturesLexicalOrderAndUniqueness(o)
    /\ KeysOf(o) \in Seq(Nat)

(* No builder checks the addresses that callers hand it: they refrain from *)
(* addresses that most unlock conditions refuse.                           *)
ASSUME BuilderAssumption ==
    /\ IndexLimit \in Nat \ {0, 1, 2} /\ MaxBlockIssuerKeysCount \in 1..128
    /\ Keys \subseteq Nat /\ KeySlices \subseteq Seq(Nat)
    /\ \A a \in Owners : AddressType[a] # "ImplicitAccountCreation"
    /\ \A o \in Previous : IsLedgerOutput(o)

BuilderInit ==
    /\ stateCtrlReq = FALSE /\ govCtrlReq = FALSE /\ orderly = TRUE
    /\ built = NoOutput /\ builds = 0 /\ setters = 0
    /\ \/ /\ prev = NoOutput /\ prevKeys = 0 /\ array = <<<<>>, <<>>>>
          /\ outKeys = [arr |-> 2, len |-> 0]
          /\ \E type \in DOMAIN Builders, a \in Owners : output = NewOutput(type, a)
       \/ /\ prev \in Previous /\ prevKeys = Len(KeysOf(prev))
          /\ array = <<Fill(KeysOf(prev), Capacity(prevKeys)), <<>>>>
          /\ outKeys = [arr |-> 1, len |-> prevKeys]
          /\ output = WithKeys(prev, <<>>)

BuilderNext ==
    \/ \E n \in Amount : SetAmount(n) \/ SetMana(n) \/ FoundriesToGenerate(n)
    \/ \E id \in Values : SetID(id) \/ SetAux(id)
    \/ \E t \in {UC[x] : x \in DOMAIN UC}, a \in Owners, n \in Slot : SetCondition(UnlockCondition(t, a, n))
    \/ \E t \in {FT[x] : x \in DOMAIN FT}, v \in Values : SetFeature(Feature(t, v, 1)) \/ SetImmutableFeature(Feature(t, v, 0))
    \/ \E t \in {FT.Metadata, FT.BlockIssuer} : RemoveFeature(t)
    \/ \E ks \in KeySlices : SetBlockIssuer(ks) \/ SetKeys(ks)
    \/ \E k \in Keys : AddKey(k) \/ RemoveKey(k)
    \/ \E t \in {FT.BlockIssuer, FT.Staking}, n \in Slot : SetInTransition(t, n)
    \/ Build

BuilderSpec == BuilderInit /\ [][BuilderNext]_builderVars

-----------------------------------------------------------------------------
(* Whatever the order of the calls, what Build returns holds what the API  *)
(* registers for its type and nothing else, in the order and as free of    *)
(* duplicates as the validators of output.go ask for.  The keys of a block *)
(* issuer can be decoded as well, with two exceptions that no builder      *)
(* checks (output_builder_account.go:89-95, :206-225): there are none left *)
(* or too many of them, or the slice that the caller handed over was out   *)
(* of order or had duplicates.                                             *)
BuiltIsWellFormed ==
    built # NoOutput =>
        /\ ArraysDecodable(built)
        /\ UnlockConditionLexicalOrderAndUniqueness(built) /\ FeaturesLexicalOrderAndUniqueness(built)
        /\ orderly /\ (\A f \in All(built.feats, FT.BlockIssuer) : KeyCountAllowed(f.keys)) => Decodable(built)

(* An anchor built from its previous output is a transition that the       *)
(* virtual machine accepts, and the address it asks to unlock is the one   *)
(* of the calls that were made.  The exception: a second call of Build     *)
(* counts the state index again (output_builder_anchor.go:120), and the    *)
(* virtual machine refuses that anchor if a call needed the state          *)
(* controller.                                                             *)
AnchorTransitionsAsBuilt ==
    built # NoOutput /\ prev # NoOutput /\ built.type = "Anchor" =>
        IF builds = 2 /\ stateCtrlReq
        THEN ~anchorStateChangeValid(prev, built)
        ELSE /\ anchorStateChangeValid(prev, built) /\ AnchorOwnerExists(prev, built)
             /\ AnchorOwner(prev, built) = IF stateCtrlReq THEN StateControllerOf(prev) ELSE GovernorOf(prev)

(* What Build returns is valid on its own and, for an anchor, as the next  *)
(* output of the previous one, but for the exceptions named above.         *)
BuiltIsValid == BuiltIsWellFormed /\ AnchorTransitionsAsBuilt
=============================================================================
