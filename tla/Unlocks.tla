------------------------------- MODULE Unlocks -------------------------------
(***************************************************************************)
(* How the unlocks of a signed transaction are validated.                  *)
(*                                                                         *)
(* The syntactic validator (unlock.go) goes over the unlocks alone, before *)
(* any input is known; the virtual machine (vm/vm.go, ValidateUnlocks)     *)
(* then resolves the inputs one by one and collects the unlocked addresses.*)
(* The transaction is revealed as the code reads it: the syntactic phase   *)
(* picks the next unlock, the semantic phase the next consumed output.     *)
(* Indices are 1-based here and 0-based in the code.                       *)
(***************************************************************************)
EXTENDS Integers, Sequences, FiniteSets, FiniteSetsExt

CONSTANTS
    Key,                \* Ed25519 public keys
    Address,            \* addresses
    AddressType,        \* [Address -> type of the address]
    KeyOf,              \* the public key a direct unlockable address derives from
    Members,            \* the addresses of a multi address, as a sequence
    Weight,             \* their weights
    Threshold,          \* the threshold of a multi address
    Underlying,         \* the address inside a restricted address
    Output,             \* the outputs a transaction may consume
    Unlock,             \* the top-level unlocks a transaction may carry
    CommitmentSlot,     \* the slots a commitment input may name
    MinCommittableAge,
    MaxCommittableAge,
    MaxInputs           \* bound on the number of inputs of a transaction

VARIABLES
    status,         \* where validation stands
    unlocks,        \* the unlocks of the transaction read so far
    inputs,         \* the consumed outputs resolved so far
    commitment,     \* slot of the commitment input, or NoCommitment
    seen,           \* the maps of the syntactic validator
    unlocked,       \* UnlockedAddrsByAddrKey
    sigUnlocked     \* SignatureUnlockedAddrsByIndex

vars == <<status, unlocks, inputs, commitment, seen, unlocked, sigUnlocked>>

ChainTypes == {"Account", "Anchor", "NFT"}
DirectTypes == {"Ed25519", "ImplicitAccountCreation"}

IsChain(a) == AddressType[a] \in ChainTypes
IsDirect(a) == AddressType[a] \in DirectTypes
IsMulti(a) == AddressType[a] = "Multi"
IsRestricted(a) == AddressType[a] = "Restricted"

NoCommitment == -1
NoExpiration == 0       \* an expiration slot of zero is refused by output.go
NoChain == "NoChain"

Index == 1..MaxInputs

-----------------------------------------------------------------------------
(***************************************************************************)
(* Unlocks.  A signature is the key that made it and whether it verifies   *)
(* over the signing message of this transaction.                           *)
(***************************************************************************)
SignatureUnlock == [type : {"Signature"}, key : Key, valid : BOOLEAN]
ReferentialUnlock == [type : {"Reference"} \cup ChainTypes, ref : Index]
EmptyUnlock == [type : {"Empty"}]
NestedMultiUnlock == [type : {"Multi"}, unlocks : {<<>>}]
SubUnlock ==
    SignatureUnlock \cup ReferentialUnlock \cup EmptyUnlock \cup NestedMultiUnlock
MultiUnlock == [type : {"Multi"}, unlocks : Seq(SubUnlock)]
AnyUnlock ==
    SignatureUnlock \cup ReferentialUnlock \cup EmptyUnlock \cup MultiUnlock

IsSignature(u) == u.type = "Signature"
IsReferential(u) == u.type \in {"Reference"} \cup ChainTypes
Chainable(u) == u.type \in ChainTypes
SourceAllowed(u, a) ==
    IF u.type = "Reference" THEN ~IsChain(a) ELSE AddressType[a] = u.type

(***************************************************************************)
(* Consumed outputs.  An anchor output has a governor besides its state    *)
(* controller (the owner), and `delta' is what the transaction does to its *)
(* state index: "destroy" (no next state), "gov" (same index), "state"     *)
(* (index + 1) or "bad" (any other index).  Other outputs ignore both.     *)
(***************************************************************************)
AnyOutput ==
    [type : {"Basic", "Account", "Anchor", "NFT", "Foundry", "Delegation"},
     owner : Address, governor : Address, chain : Address \cup {NoChain},
     delta : {"destroy", "gov", "state", "bad"},
     expiration : Nat, return : Address]

ASSUME CommittableAgeAssumption ==
    /\ MinCommittableAge \in Nat
    /\ MaxCommittableAge \in Nat
    /\ MinCommittableAge <= MaxCommittableAge
    /\ CommitmentSlot \subseteq Nat
    /\ MaxInputs \in Nat

ASSUME AddressAssumption ==
    /\ NoChain \notin Address
    /\ AddressType \in [Address -> ChainTypes \cup DirectTypes \cup {"Multi", "Restricted"}]
    /\ KeyOf \in [{a \in Address : IsDirect(a)} -> Key]
    /\ Members \in [{a \in Address : IsMulti(a)} -> Seq(Address)]
    /\ Weight \in [{a \in Address : IsMulti(a)} -> Seq(Nat \ {0})]
    /\ Threshold \in [{a \in Address : IsMulti(a)} -> Nat \ {0}]
    /\ Underlying \in [{a \in Address : IsRestricted(a)} -> Address]

(* What multiAddressValidatorFunc and restrictedAddressValidatorFunc admit. *)
ValidMultiAddress(a) ==
    /\ Len(Members[a]) = Len(Weight[a])
    /\ \A j \in 1..Len(Members[a]) :
          IsChain(Members[a][j]) \/ AddressType[Members[a][j]] = "Ed25519"
    /\ Threshold[a] <= MapThenSumSet(LAMBDA j : Weight[a][j], 1..Len(Weight[a]))

ValidRestrictedAddress(a) ==
    /\ ~IsRestricted(Underlying[a])
    /\ AddressType[Underlying[a]] # "ImplicitAccountCreation"

ASSUME NestingAssumption ==
    \A a \in Address :
        /\ IsMulti(a) => ValidMultiAddress(a)
        /\ IsRestricted(a) => ValidRestrictedAddress(a)

(* Account, anchor and NFT outputs carry a chain with an address. *)
ASSUME TransactionAssumption ==
    /\ Unlock \subseteq AnyUnlock
    /\ Output \subseteq AnyOutput
    /\ \A o \in Output : IF o.type \in ChainTypes
                         THEN o.chain \in Address /\ AddressType[o.chain] = o.type
                         ELSE o.chain = NoChain

-----------------------------------------------------------------------------
(***************************************************************************)
(* The syntactic validator, SignaturesUniqueAndReferenceUnlocksValidator.  *)
(***************************************************************************)
NothingSeen ==
    [signatures |-> {}, referentials |-> {}, multis |-> {}, signers |-> {},
     signersInMulti |-> {}, multiBytes |-> {}]

SignaturesIn(m) == {j \in DOMAIN m.unlocks : IsSignature(m.unlocks[j])}
SignersIn(m) == {m.unlocks[j].key : j \in SignaturesIn(m)}

(* Mutant: a signer may reappear outside of the multi unlock it was seen in. *)
SignatureOkIgnoringMulti(u) == u.key \notin seen.signers

SignatureOk(u) == u.key \notin seen.signers \cup seen.signersInMulti

ReferentialOk(u) ==
    IF u.ref \in seen.referentials
    THEN Chainable(u)
    ELSE u.ref \in seen.signatures \cup seen.multis

(* The cases of the loop over the unlocks inside a multi unlock. *)
SubUnlockOk(u) ==
    \/ IsSignature(u) /\ u.key \notin seen.signers
    \/ /\ IsReferential(u)
       /\ IF u.ref \in seen.referentials
          THEN Chainable(u)
          ELSE u.ref \in seen.signatures
    \/ u.type = "Empty"

MultiOk(u) ==
    /\ u \notin seen.multiBytes
    /\ \A j \in DOMAIN u.unlocks : SubUnlockOk(u.unlocks[j])

UnlockOk(u) ==
    \/ IsSignature(u) /\ SignatureOk(u)
    \/ IsReferential(u) /\ ReferentialOk(u)
    \/ u.type = "Multi" /\ MultiOk(u)

(* What the validator remembers of the unlock u at index i. *)
Recorded(u, i) ==
    [signatures |-> seen.signatures \cup {x \in {i} : IsSignature(u)},
     referentials |-> seen.referentials \cup {x \in {i} : IsReferential(u)},
     multis |-> seen.multis \cup {x \in {i} : u.type = "Multi"},
     signers |-> seen.signers \cup (IF IsSignature(u) THEN {u.key} ELSE {}),
     signersInMulti |->
        seen.signersInMulti \cup (IF u.type = "Multi" THEN SignersIn(u) ELSE {}),
     multiBytes |-> seen.multiBytes \cup {x \in {u} : u.type = "Multi"}]

(* One call of the validator: it accepts the next unlock, or the           *)
(* transaction is malformed.                                               *)
ValidateUnlock(u) ==
    /\ status = "syntactic"
    /\ Len(unlocks) < MaxInputs
    /\ unlocks' = Append(unlocks, u)
    /\ IF UnlockOk(u)
       THEN seen' = Recorded(u, Len(unlocks) + 1) /\ UNCHANGED status
       ELSE status' = "malformed" /\ UNCHANGED seen
    /\ UNCHANGED <<inputs, commitment, unlocked, sigUnlocked>>

(* Every unlock passed and there are as many as inputs: the transaction    *)
(* goes to the virtual machine, with or without a commitment input.        *)
SyntacticallyValid(c) ==
    /\ status = "syntactic"
    /\ unlocks # <<>>
    /\ status' = "semantic"
    /\ commitment' = c
    /\ UNCHANGED <<unlocks, inputs, seen, unlocked, sigUnlocked>>

-----------------------------------------------------------------------------
(***************************************************************************)
(* Which address has to be unlocked for the output o.                      *)
(***************************************************************************)
HasOwner(o) == o.type = "Anchor" => o.delta # "bad"

addressToUnlock(o) ==
    IF o.type = "Anchor" /\ o.delta \in {"destroy", "gov"} THEN o.governor ELSE o.owner

HasExpiration(o) == o.expiration # NoExpiration
ReturnAddressCanUnlock(o) == commitment + MinCommittableAge >= o.expiration
OwnerAddressCanUnlock(o) == commitment + MaxCommittableAge < o.expiration

CanBeUnlocked(o) ==
    /\ HasOwner(o)
    /\ HasExpiration(o) =>
          /\ commitment # NoCommitment
          /\ ReturnAddressCanUnlock(o) \/ OwnerAddressCanUnlock(o)

resolveUnderlyingAddress(a) == IF IsRestricted(a) THEN Underlying[a] ELSE a

OwnerOf(o) ==
    resolveUnderlyingAddress(
        IF HasExpiration(o) /\ ReturnAddressCanUnlock(o) THEN o.return ELSE addressToUnlock(o))

-----------------------------------------------------------------------------
(***************************************************************************)
(* Unlocking one address.  An entry of `unlocked' says at which input the  *)
(* address was unlocked and which inputs referenced it; `sigUnlocked' has  *)
(* the address and the key of each top-level signature.                    *)
(***************************************************************************)
Nothing == [x \in {} |-> {}]
Upd(f, x, v) == [y \in DOMAIN f \cup {x} |-> IF y = x THEN v ELSE f[y]]
Entry(i) == [at |-> i, refs |-> {}]
AddReference(f, a, i) == [f EXCEPT ![a].refs = @ \cup {i}]

MatchesAddress(k, a) == IsDirect(a) /\ KeyOf[a] = k

(* Mutant: the referenced index is not compared. *)
NonDirectReferenceAnywhere(a, u) == a \in DOMAIN unlocked

(* ReferentialUnlockNonDirectlyUnlockable: its checks. *)
NonDirectReferenceOk(a, u) == a \in DOMAIN unlocked /\ unlocked[a].at = u.ref

(* Mutant: the signature is not matched against the address. *)
DirectReferenceUnmatched(a, u) == u.ref \in DOMAIN sigUnlocked

(* ReferentialUnlockDirectlyUnlockable: its checks. *)
DirectReferenceOk(a, u) ==
    /\ u.ref \in DOMAIN sigUnlocked
    /\ unlocked[sigUnlocked[u.ref].addr].at = u.ref
    /\ MatchesAddress(sigUnlocked[u.ref].key, a)

(* SignatureUnlock: its checks, with the one of its caller. *)
SignatureValid(a, u) ==
    /\ a \notin DOMAIN unlocked
    /\ MatchesAddress(u.key, a)
    /\ u.valid

(* unlockAddress with checkUnlockOnly, for an address that is not a multi  *)
(* address (no member of a multi address is one).                          *)
CheckUnlock(a, u) ==
    IF IsChain(a)
    THEN IsReferential(u) /\ Chainable(u) /\ SourceAllowed(u, a) /\ NonDirectReferenceOk(a, u)
    ELSE /\ IsDirect(a)
         /\ \/ IsReferential(u) /\ ~Chainable(u) /\ SourceAllowed(u, a) /\ DirectReferenceOk(a, u)
            \/ IsSignature(u) /\ SignatureValid(a, u)

Participating(m) == {j \in DOMAIN m.unlocks : m.unlocks[j].type # "Empty"}
WeightOf(a, T) == MapThenSumSet(LAMBDA j : Weight[a][j], T)

(* MultiUnlock: its checks, with the one of its caller. *)
MultiUnlockOk(a, m) ==
    /\ a \notin DOMAIN unlocked
    /\ Len(m.unlocks) = Len(Members[a])
    /\ \A j \in Participating(m) : CheckUnlock(Members[a][j], m.unlocks[j])
    /\ WeightOf(a, Participating(m)) >= Threshold[a]

UnlockAddressOk(a, u) ==
    IF IsMulti(a)
    THEN \/ IsReferential(u) /\ ~Chainable(u) /\ SourceAllowed(u, a) /\ NonDirectReferenceOk(a, u)
         \/ u.type = "Multi" /\ MultiUnlockOk(a, u)
    ELSE CheckUnlock(a, u)

(* Mutant: a new address unlocked by reference is not added. *)
UnlockAddressNotAdded(a, u, i) ==
    IF ~IsReferential(u)
    THEN Upd(unlocked, a, Entry(i))
    ELSE AddReference(unlocked, IF IsDirect(a) THEN sigUnlocked[u.ref].addr ELSE a, i)

(* What unlockAddress leaves in `unlocked' for the input i.  A referential *)
(* unlock of a direct address is booked on the address whose signature it  *)
(* refers to, and the address itself is added when it is new.              *)
UnlockAddress(a, u, i) ==
    IF ~IsReferential(u)
    THEN Upd(unlocked, a, Entry(i))
    ELSE IF IsDirect(a)
         THEN LET booked == AddReference(unlocked, sigUnlocked[u.ref].addr, i)
              IN  IF a \in DOMAIN unlocked THEN booked ELSE Upd(booked, a, Entry(i))
         ELSE AddReference(unlocked, a, i)

(* The chain whose address the unlocked output o unlocks in turn: accounts *)
(* and NFTs always, anchors only on a state transition.                    *)
UnlocksChain(o) ==
    /\ o.type \in ChainTypes
    /\ o.type = "Anchor" => o.delta = "state"

AddUnlockedChain(f, o, i) == IF UnlocksChain(o) THEN Upd(f, o.chain, Entry(i)) ELSE f

(* One iteration of ValidateUnlocks: the output o is the next input.       *)
(* Inputs are distinct, and no two outputs of the ledger share a chain.    *)
NextInput(o) ==
    /\ status = "semantic"
    /\ Len(inputs) < Len(unlocks)
    /\ \A i \in DOMAIN inputs :
          /\ inputs[i] # o
          /\ o.chain # NoChain => inputs[i].chain # o.chain

unlockOutput(o) ==
    LET i == Len(inputs) + 1
        u == unlocks[i]
        a == OwnerOf(o)
    IN  /\ NextInput(o)
        /\ CanBeUnlocked(o)
        /\ UnlockAddressOk(a, u)
        /\ inputs' = Append(inputs, o)
        /\ unlocked' = AddUnlockedChain(UnlockAddress(a, u, i), o, i)
        /\ sigUnlocked' =
              IF IsSignature(u)
              THEN Upd(sigUnlocked, i, [addr |-> a, key |-> u.key])
              ELSE sigUnlocked
        /\ status' = IF i = Len(unlocks) THEN "accepted" ELSE "semantic"
        /\ UNCHANGED <<unlocks, commitment, seen>>

RefuseInput(o) ==
    /\ NextInput(o)
    /\ ~(CanBeUnlocked(o) /\ UnlockAddressOk(OwnerOf(o), unlocks[Len(inputs) + 1]))
    /\ status' = "rejected"
    /\ UNCHANGED <<unlocks, inputs, commitment, seen, unlocked, sigUnlocked>>

-----------------------------------------------------------------------------
Init ==
    /\ status = "syntactic"
    /\ unlocks = <<>>
    /\ inputs = <<>>
    /\ commitment = NoCommitment
    /\ seen = NothingSeen
    /\ unlocked = Nothing
    /\ sigUnlocked = Nothing

Next ==
    \/ \E u \in Unlock : ValidateUnlock(u)
    \/ \E c \in CommitmentSlot \cup {NoCommitment} : SyntacticallyValid(c)
    \/ \E o \in Output : unlockOutput(o) \/ RefuseInput(o)

Spec == Init /\ [][Next]_vars

-----------------------------------------------------------------------------
(***************************************************************************)
(*                              PROPERTIES                                 *)
(***************************************************************************)
(* Type correctness of the validator's state. *)
TypeOK ==
    /\ status \in {"syntactic", "malformed", "semantic", "rejected", "accepted"}
    /\ unlocks \in Seq(Unlock) /\ Len(unlocks) <= MaxInputs
    /\ inputs \in Seq(Output) /\ Len(inputs) <= Len(unlocks)
    /\ commitment \in CommitmentSlot \cup {NoCommitment}
    /\ seen \in [signatures : SUBSET Index, referentials : SUBSET Index, multis : SUBSET Index,
                 signers : SUBSET Key, signersInMulti : SUBSET Key, multiBytes : SUBSET Unlock]
    /\ DOMAIN unlocked \subseteq Address
    /\ unlocked \in [DOMAIN unlocked -> [at : Index, refs : SUBSET Index]]
    /\ DOMAIN sigUnlocked \subseteq Index
    /\ sigUnlocked \in [DOMAIN sigUnlocked -> [addr : Address, key : Key]]

(* The contract of the syntactic validator, over the whole sequence of     *)
(* unlocks instead of its incremental maps: signers are unique outside of  *)
(* multi unlocks and disjoint from those inside; references point strictly *)
(* backwards, a plain one to a signature or multi unlock; multi unlocks    *)
(* are unique and not nested, and inside of them nothing refers to a multi *)
(* unlock; empty unlocks occur only inside of multi unlocks.               *)
SignersOf(u) ==
    IF IsSignature(u) THEN {u.key} ELSE IF u.type = "Multi" THEN SignersIn(u) ELSE {}

RefersBack(u, i, targets) ==
    u.ref < i /\ (~Chainable(u) => unlocks[u.ref].type \in targets)

WellFormedAt(i) ==
    LET u == unlocks[i]
        others == DOMAIN unlocks \ {i}
    IN  /\ u.type # "Empty"
        /\ IsSignature(u) => \A j \in others : u.key \notin SignersOf(unlocks[j])
        /\ IsReferential(u) => RefersBack(u, i, {"Signature", "Multi"})
        /\ u.type = "Multi" =>
              /\ \A j \in others : unlocks[j] # u
              /\ \A s \in DOMAIN u.unlocks :
                    /\ u.unlocks[s].type # "Multi"
                    /\ IsReferential(u.unlocks[s]) =>
                          /\ RefersBack(u.unlocks[s], i, {"Signature"})
                          /\ unlocks[u.unlocks[s].ref].type # "Multi"

(* The incremental validator refuses exactly the transactions that break   *)
(* that contract (unlock.go, SignaturesUniqueAndReferenceUnlocksValidator).*)
(* The contract departs from the validator's doc in one place, rule 3: a   *)
(* chain unlock may refer to a multi unlock; see the next property.        *)
ValidatorIsExact ==
    (status = "malformed") <=> ~(\A i \in DOMAIN unlocks : WellFormedAt(i))

(* Where following the references of chain unlocks from unlock i leads. *)
EndOfChain ==
    LET end[i \in DOMAIN unlocks] == IF Chainable(unlocks[i]) THEN end[unlocks[i].ref] ELSE i IN end

(* Rule 3 of the validator's doc (unlock.go:141): "Following through       *)
(* AccountUnlock(s), AnchorUnlock(s), NFTUnlock(s) refs results to a       *)
(* SignatureUnlock", or to a plain reference to one, and so never to a     *)
(* multi unlock.  The code accepts the reference to a multi unlock.        *)
ChainUnlocksEndInSignature ==
    status # "malformed" =>
        \A i \in DOMAIN unlocks : Chainable(unlocks[i]) => unlocks[EndOfChain[i]].type # "Multi"

(* The keys that really signed this transaction. *)
ProperSignature(u, k) == IsSignature(u) /\ u.key = k /\ u.valid
Signed(k) ==
    \E i \in DOMAIN unlocks :
        \/ ProperSignature(unlocks[i], k)
        \/ /\ unlocks[i].type = "Multi"
           /\ \E s \in DOMAIN unlocks[i].unlocks : ProperSignature(unlocks[i].unlocks[s], k)

(* Sets of addresses closed under the ways to authorise an address: its    *)
(* key signed; members of enough weight are authorised; it is the address  *)
(* of a consumed chain whose owner is authorised.                          *)
Closed(S) ==
    /\ \A a \in Address : IsDirect(a) /\ Signed(KeyOf[a]) => a \in S
    /\ \A a \in Address : IsMulti(a) =>
          \A T \in SUBSET DOMAIN Members[a] :
              (\A j \in T : Members[a][j] \in S) /\ WeightOf(a, T) >= Threshold[a] => a \in S
    /\ \A i \in DOMAIN inputs :
          UnlocksChain(inputs[i]) /\ OwnerOf(inputs[i]) \in S => inputs[i].chain \in S

(* Whatever the virtual machine counts as unlocked, and so accepts as      *)
(* owner, sender or issuer, is in the least set of addresses that the      *)
(* signatures of the transaction authorise: no reference cycle, stale      *)
(* index or partial multi unlock conjures up an address.                   *)
UnlocksAreAuthorised ==
    \A S \in SUBSET Address : DOMAIN unlocked \subseteq S \/ ~Closed(S)

(* An accepted transaction has unlocked the owner of each of its inputs,   *)
(* as it stands after expiration and for the anchor's kind of transition.  *)
AcceptedOwnersUnlocked ==
    status = "accepted" =>
        /\ Len(inputs) = Len(unlocks)
        /\ \A i \in DOMAIN inputs : CanBeUnlocked(inputs[i]) /\ OwnerOf(inputs[i]) \in DOMAIN unlocked

(* Only owners of inputs and chains of inputs become unlocked: the members *)
(* of a multi address that signed inside of a multi unlock do not (vm.go,  *)
(* "we perform the checks only, but we do not unlock the input yet").      *)
OnlyOwnersAndChainsUnlocked ==
    \A a \in DOMAIN unlocked :
        \E i \in DOMAIN inputs :
            /\ unlocked[a].at = i
            /\ a = OwnerOf(inputs[i]) \/ (UnlocksChain(inputs[i]) /\ a = inputs[i].chain)

(* UnlockedBy(inputIndex, addrKey). *)
UnlockedBy(i, a) == a \in DOMAIN unlocked /\ (unlocked[a].at = i \/ i \in unlocked[a].refs)

(* The input i refers to the signature of the address a, which is not its  *)
(* owner but another address of the same key, and is booked on a.          *)
BookedOnSigner(i, a) ==
    LET o == OwnerOf(inputs[i])
    IN  /\ IsReferential(unlocks[i]) /\ a # o
        /\ IsDirect(a) /\ IsDirect(o) /\ KeyOf[a] = KeyOf[o]
        /\ a \in DOMAIN unlocked /\ unlocked[a].at = unlocks[i].ref /\ i \in unlocked[a].refs

(* What UnlockedBy tells.  An input that did not unlock the address refers *)
(* to the one that did and has this address as its owner, and each input   *)
(* is unlocked by its owner; the exception in both directions is a direct  *)
(* owner unlocked by reference to the signature of another address of its  *)
(* key: the input is booked on that address, and on the owner only if the  *)
(* owner was new, although the docs at vm.go:224 and :351 promise it for   *)
(* "this address".  Only owners and chains of inputs have entries, and the *)
(* entry that a signature unlock shares by pointer between the two maps is *)
(* still the one in the address map.                                       *)
ReferencesAreConsistent ==
    /\ OnlyOwnersAndChainsUnlocked
    /\ \A a \in DOMAIN unlocked, r \in DOMAIN unlocks :
          UnlockedBy(r, a) /\ unlocked[a].at # r =>
              /\ IsReferential(unlocks[r]) /\ unlocks[r].ref = unlocked[a].at
              /\ a = OwnerOf(inputs[r]) \/ BookedOnSigner(r, a)
    /\ \A i \in DOMAIN inputs :
          \/ UnlockedBy(i, OwnerOf(inputs[i]))
          \/ unlocked[OwnerOf(inputs[i])].at < i /\ \E a \in Address : BookedOnSigner(i, a)
    /\ \A i \in DOMAIN sigUnlocked :
          /\ sigUnlocked[i].addr \in DOMAIN unlocked
          /\ unlocked[sigUnlocked[i].addr].at = i
=============================================================================
