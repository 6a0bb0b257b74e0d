-------------------------- MODULE TransactionBuilder --------------------------
(***************************************************************************)
(* TransactionBuilder (builder/transaction_builder.go): a caller adds the  *)
(* parts of a transaction in any order, has the builder distribute the     *)
(* mana of the inputs, and builds.  A call that fails sets                 *)
(* occurredBuildErr and returns the builder, so that the caller goes on.   *)
(* Mana that an account output brings is bound to the account in that      *)
(* output; in the first output of an account this ID is still empty.       *)
(***************************************************************************)
EXTENDS ManaRules

CONSTANTS
    AddressType,    \* [Address -> type of the address]
    KeyOf,          \* the key a directly unlockable address derives from
    Underlying,     \* the address inside of a restricted address
    Wallet,         \* what callers may want to do, see Wallets below
    MaxInputs, MaxOutputs,      \* bounds on the transaction
    Work            \* work scores: block, input, context, output, allotment, signature

VARIABLES
    wallet,         \* the caller's outputs, keys and wishes
    inputs,         \* consumed outputs, each with the unlock target the caller names
    outputs, allotments, rewards, creationSlot, commitment, canBurnMana,
    occurredBuildErr,
    tx,             \* the transaction Build returned, or NoTx
    distributed     \* what the caller may rely on: the mana operation that was the
                    \* last change, its slot, the issuer and the reference mana cost

essence == <<inputs, outputs, allotments, rewards, creationSlot, commitment, canBurnMana>>
vars == <<wallet, essence, occurredBuildErr, tx, distributed>>

NoTx == [unlocks |-> <<>>]
NoCommitment == -1
Nothing == [op |-> "none", slot |-> 0, issuer |-> NoAccount, rmc |-> 0]

(* A wallet: `held' outputs of the ledger, `wanted' outputs, the addresses *)
(* whose keys are `mapped' in the signer, amounts of mana for rewards and  *)
(* explicit allotments, creation slots, the slot of the commitment input,  *)
(* accounts that issue the block, reference mana costs, and which stage of *)
(* the composition follows.                                                *)
Wallets ==
    [held : SUBSET [type : STRING], wanted : SUBSET [type : STRING], mapped : SUBSET DOMAIN AddressType,
     rewards : SUBSET Nat, allot : SUBSET Nat, slots : SUBSET Nat, commitments : SUBSET Nat,
     issuers : SUBSET STRING, rmc : SUBSET Nat, then : {"vm", "block", "validate", "nothing"}]

Transaction(us) ==
    [inputs |-> inputs, outputs |-> outputs, allotments |-> allotments, rewards |-> rewards,
     creationSlot |-> creationSlot, commitment |-> commitment, canBurnMana |-> canBurnMana,
     unlocks |-> us]

-----------------------------------------------------------------------------
(***************************************************************************)
(* Collecting the parts.  Every change makes the last distribution stale.  *)
(***************************************************************************)
Open == tx = NoTx /\ ~occurredBuildErr     \* bound: callers stop at an error
Changes(v) == Open /\ UNCHANGED <<wallet, occurredBuildErr, tx>> /\ distributed' = v

(* These calls change different parts and commute: a wallet may fix their  *)
(* order to inputs, commitment input, outputs.                             *)
InOrder(ready) == wallet.then = "nothing" => ready

WithTarget(i, a) == [f \in DOMAIN i \cup {"target"} |-> IF f = "target" THEN a ELSE i[f]]

AddInput(i, target) ==
    /\ Len(inputs) < MaxInputs
    /\ \A k \in DOMAIN inputs : inputs[k].id # i.id
    /\ InOrder(commitment = NoCommitment /\ \A k \in DOMAIN inputs : inputs[k].id < i.id)
    /\ inputs' = Append(inputs, WithTarget(i, target))
    /\ Changes(Nothing)
    /\ UNCHANGED <<outputs, allotments, rewards, creationSlot, commitment, canBurnMana>>

(* Callers do not add an account twice: syntactic validation refuses it. *)
AddOutput(o) ==
    /\ Len(outputs) < MaxOutputs
    /\ InOrder(commitment # NoCommitment)
    /\ o.type = "Account" => \A k \in DOMAIN outputs : outputs[k].account # o.account
    /\ outputs' = Append(outputs, o)
    /\ Changes(Nothing)
    /\ UNCHANGED <<inputs, allotments, rewards, creationSlot, commitment, canBurnMana>>

AddCommitmentInput(c) ==
    /\ commitment = NoCommitment
    /\ InOrder(outputs = <<>>)
    /\ commitment' = c
    /\ Changes(Nothing)
    /\ UNCHANGED <<inputs, outputs, allotments, rewards, creationSlot, canBurnMana>>

(* Rewards wrap around; at most one reward is claimed here. *)
AddRewardInput(mana) ==
    /\ rewards = 0
    /\ rewards' = (rewards + mana) % ManaLimit
    /\ Changes(Nothing)
    /\ UNCHANGED <<inputs, outputs, allotments, creationSlot, commitment, canBurnMana>>

SetCreationSlot(s) ==
    /\ creationSlot' = s /\ s # creationSlot
    /\ Changes(Nothing)
    /\ UNCHANGED <<inputs, outputs, allotments, rewards, commitment, canBurnMana>>

WithTransactionCapabilities ==
    /\ ~canBurnMana /\ canBurnMana' = TRUE
    /\ Changes(Nothing)
    /\ UNCHANGED <<inputs, outputs, allotments, rewards, creationSlot, commitment>>

(* IncreaseAllotment: what it makes of the allotments al. *)
Increased(al, a, v) ==
    IF v = 0 THEN al
    ELSE [x \in DOMAIN al \cup {a} |->
             IF x # a THEN al[x] ELSE IF a \in DOMAIN al THEN (al[a] + v) % ManaLimit ELSE v]

IncreaseAllotment(a, v) ==
    /\ a \notin DOMAIN allotments               \* bound: once per account
    /\ allotments' = Increased(allotments, a, v)
    /\ Changes(Nothing)
    /\ UNCHANGED <<inputs, outputs, rewards, creationSlot, commitment, canBurnMana>>

-----------------------------------------------------------------------------
(***************************************************************************)
(* Available mana.  The loops of the code subtract one output or allotment *)
(* at a time, from the account bound mana first; what is left and whether  *)
(* it suffices does not depend on the order.                               *)
(***************************************************************************)
AccountInputs == {k \in DOMAIN inputs : inputs[k].type = "Account"}
AccountIDOf(i) == IF i.new THEN EmptyAccountID ELSE i.chain
InputMana(K, s) == MapThenSumSet(LAMBDA k : ManaOf(inputs[k], s), K)

CalculateAvailableManaInputs(s) ==
    LET free == InputMana(DOMAIN inputs \ AccountInputs, s) + rewards
    IN  [ok |-> /\ \A k \in DOMAIN inputs : inputs[k].created <= s
                /\ InputMana(DOMAIN inputs, s) < ManaLimit
                /\ free < ManaLimit,
         unbound |-> free,
         bound |-> [a \in {AccountIDOf(inputs[k]) : k \in AccountInputs} |->
                       InputMana({k \in AccountInputs : AccountIDOf(inputs[k]) = a}, s)]]

hasManalockCondition(o) ==
    /\ creationSlot + 2 * MaxCommittableAge < o.timelock
    /\ AddressType[o.owner] = "Account"

(* The account that the mana of the output o is bound to, or NoAccount. *)
BoundTo(o) ==
    IF o.type = "Account" THEN o.account
    ELSE IF hasManalockCondition(o) THEN o.owner ELSE NoAccount

(* Mutant: allotments do not use up the mana of their account. *)
ManaOutToUnallotted(al, a) == SumOver(outputs, LAMBDA o : IF BoundTo(o) = a THEN o.mana ELSE 0)

ManaOutTo(al, a) ==
    SumOver(outputs, LAMBDA o : IF BoundTo(o) = a THEN o.mana ELSE 0)
    + (IF a \in DOMAIN al THEN al[a] ELSE 0)

CalculateAvailableManaRemaining(al, s) ==
    LET in == CalculateAvailableManaInputs(s)
        accounts == {BoundTo(outputs[k]) : k \in DOMAIN outputs} \cup DOMAIN al \cup {NoAccount}
        drawn(a) == IF a \in DOMAIN in.bound THEN Min({in.bound[a], ManaOutTo(al, a)}) ELSE 0
        spent == MapThenSumSet(LAMBDA a : ManaOutTo(al, a) - drawn(a), accounts)
    IN  [ok |-> in.ok /\ spent <= in.unbound,
         unbound |-> in.unbound - spent,
         bound |-> [a \in DOMAIN in.bound |-> in.bound[a] - drawn(a)]]

-----------------------------------------------------------------------------
(***************************************************************************)
(* build: signatures and references, in the order of the inputs.  The maps *)
(* of txBuilderUnlockedSet are given by the inputs before k: the first one *)
(* with the same key signs, the last one that carries the chain counts.    *)
(***************************************************************************)
IsChainAddress(a) == AddressType[a] \in {"Account", "Anchor", "NFT"}
IsDirectUnlockable(a) == AddressType[a] \in {"Ed25519", "ImplicitAccountCreation"}
resolveUnderlyingAddress(a) == IF AddressType[a] = "Restricted" THEN Underlying[a] ELSE a
OwnerAt(k) == resolveUnderlyingAddress(inputs[k].target)

(* addChainAsUnlocked: the output i marks the chain address a, by the ID   *)
(* in the output.                                                          *)
addsChain(i, a) == i.type \in {"Account", "Anchor", "NFT"} /\ ~i.new /\ i.chain = a

ChainUnlockedAt(k) == {j \in 1..(k - 1) : addsChain(inputs[j], OwnerAt(k))}
SignedAt(k) ==
    {j \in 1..(k - 1) : IsDirectUnlockable(OwnerAt(j)) /\ KeyOf[OwnerAt(j)] = KeyOf[OwnerAt(k)]}

(* SignerUIDForAddress and Sign of InMemoryAddressSigner find the key. *)
HasKey(a) == a \in wallet.mapped

CanUnlockAt(k) ==
    \/ IsChainAddress(OwnerAt(k)) /\ ChainUnlockedAt(k) # {}
    \/ IsDirectUnlockable(OwnerAt(k)) /\ HasKey(OwnerAt(k))

(* Mutant: a reference names the latest input of the signer. *)
UnlockAtLatest(k, signed) ==
    IF IsChainAddress(OwnerAt(k))
    THEN [type |-> AddressType[OwnerAt(k)], ref |-> Max(ChainUnlockedAt(k))]
    ELSE IF SignedAt(k) # {}
         THEN [type |-> "Reference", ref |-> Max(SignedAt(k))]
         ELSE [type |-> "Signature", key |-> KeyOf[OwnerAt(k)], valid |-> signed]

UnlockAt(k, signed) ==
    IF IsChainAddress(OwnerAt(k))
    THEN [type |-> AddressType[OwnerAt(k)], ref |-> Max(ChainUnlockedAt(k))]
    ELSE IF SignedAt(k) # {}
         THEN [type |-> "Reference", ref |-> Min(SignedAt(k))]
         ELSE [type |-> "Signature", key |-> KeyOf[OwnerAt(k)], valid |-> signed]

build(signed) == [k \in DOMAIN inputs |-> UnlockAt(k, signed)]
CanBuild == ~occurredBuildErr /\ \A k \in DOMAIN inputs : CanUnlockAt(k)

Build ==
    /\ Open /\ inputs # <<>> /\ outputs # <<>>
    /\ CanBuild
    /\ tx' = Transaction(build(TRUE))
    /\ UNCHANGED <<wallet, essence, occurredBuildErr, distributed>>

-----------------------------------------------------------------------------
(* The work score of a transaction with n allotments and the unlocks us,   *)
(* and so the cost of its block.  The size of each part is in its work.    *)
EssenceWorkScore(n) ==
    Len(inputs) * Work.input + Len(outputs) * Work.output + n * Work.allotment
    + (IF commitment # NoCommitment THEN Work.context ELSE 0)
    + (IF rewards > 0 THEN Work.context ELSE 0)
UnlocksWorkScore(us) == Cardinality({k \in DOMAIN us : us[k].type = "Signature"}) * Work.signature
WorkScore(n, us) == Work.block + EssenceWorkScore(n) + UnlocksWorkScore(us)

ManaCost(rmc, n, us) == rmc * WorkScore(n, us)

(* Mutant: the allotment to the block issuer is not in the dummy. *)
MinRequiredAllottedManaNoDummy(al, rmc, issuer) ==
    ManaCost(rmc, Cardinality(DOMAIN al), build(FALSE))

(* MinRequiredAllottedMana, with a dummy allotment to the issuer. *)
MinRequiredAllottedMana(al, rmc, issuer) ==
    ManaCost(rmc, Cardinality(DOMAIN al \cup {issuer}), build(FALSE))

-----------------------------------------------------------------------------
(***************************************************************************)
(* Distributing the mana at a slot s.                                      *)
(***************************************************************************)
Fails == occurredBuildErr' = TRUE /\ distributed' = Nothing /\ UNCHANGED <<wallet, tx>>
Succeeds(op, s, issuer, rmc) ==
    /\ distributed' = [op |-> op, slot |-> s, issuer |-> issuer, rmc |-> rmc]
    /\ UNCHANGED <<wallet, occurredBuildErr, tx>>

(* All of the bound mana m except that of the account `ignored', allotted  *)
(* on top of al.                                                           *)
AllottedBound(al, m, ignored) ==
    [a \in DOMAIN al \cup {x \in DOMAIN m \ {ignored} : m[x] > 0} |->
        ((IF a \in DOMAIN al THEN al[a] ELSE 0) + (IF a \in DOMAIN m \ {ignored} THEN m[a] ELSE 0)) % ManaLimit]

(* AllotAllMana *)
AllotAllMana(s, a, minRequired) ==
    LET left == CalculateAvailableManaRemaining(allotments, s)
        sum == (left.unbound + (IF a \in DOMAIN left.bound THEN left.bound[a] ELSE 0)) % ManaLimit
    IN  /\ Open
        /\ UNCHANGED <<inputs, outputs, rewards, creationSlot, commitment, canBurnMana>>
        /\ IF ~left.ok
           THEN Fails /\ UNCHANGED allotments
           ELSE /\ allotments' = Increased(AllottedBound(allotments, left.bound, NoAccount), a, left.unbound)
                /\ IF sum < minRequired THEN Fails ELSE Succeeds("allot", s, NoAccount, 0)

(* getStoredManaOutputAccountID: NoAccount stands for the empty ID of an   *)
(* output that is not bound to an account.                                 *)
StoredManaOk(k) == k \in DOMAIN outputs /\ outputs[k].type \in {"Account", "Basic", "Anchor", "NFT"}
getStoredManaOutputAccountID(k) ==
    IF BoundTo(outputs[k]) = NoAccount THEN EmptyAccountID ELSE BoundTo(outputs[k])

(* storeRemainingManaInOutput *)
Stored(left, k, a) ==
    [outputs EXCEPT ![k].mana =
        (@ + left.unbound + (IF a # EmptyAccountID /\ a \in DOMAIN left.bound THEN left.bound[a] ELSE 0))
        % ManaLimit]

(* StoreRemainingManaInOutputAndAllotRemainingAccountBoundMana.  Allotting *)
(* the bound mana of the other accounts uses up just that, so that what is *)
(* left for the output can be computed beforehand.                         *)
StoreRemainingManaInOutput(s, k) ==
    LET left == CalculateAvailableManaRemaining(allotments, s)
        a == getStoredManaOutputAccountID(k)
    IN  /\ Open
        /\ UNCHANGED <<inputs, rewards, creationSlot, commitment, canBurnMana>>
        /\ IF StoredManaOk(k) /\ left.ok
           THEN /\ allotments' = AllottedBound(allotments, left.bound, a)
                /\ outputs' = Stored(left, k, a)
                /\ Succeeds("store", s, NoAccount, 0)
           ELSE Fails /\ UNCHANGED <<allotments, outputs>>

(* AllotMinRequiredManaAndStoreRemainingManaInOutput: the bound mana of    *)
(* the other accounts is allotted, then what the block still costs, and    *)
(* the rest is stored if there is any.                                     *)
AllotMinRequiredMana(s, rmc, issuer, k) ==
    LET left == CalculateAvailableManaRemaining(allotments, s)
        a == getStoredManaOutputAccountID(k)
        al == AllottedBound(allotments, left.bound, a)
        min == MinRequiredAllottedMana(al, rmc, issuer)
        already == IF issuer \in DOMAIN left.bound \ {a} THEN left.bound[issuer] ELSE 0
        topped == Increased(al, issuer, IF min < already THEN 0 ELSE min - already)
        rest == CalculateAvailableManaRemaining(topped, s)
    IN  /\ Open
        /\ UNCHANGED <<inputs, rewards, creationSlot, commitment, canBurnMana>>
        /\ IF ~(StoredManaOk(k) /\ left.ok)
           THEN Fails /\ UNCHANGED <<allotments, outputs>>
           ELSE IF ~CanBuild \/ min >= ManaLimit
           THEN Fails /\ allotments' = al /\ UNCHANGED outputs
           ELSE /\ allotments' = topped
                /\ IF rest.ok
                   THEN outputs' = Stored(rest, k, a) /\ Succeeds("min", s, issuer, rmc)
                   ELSE Fails /\ UNCHANGED outputs

-----------------------------------------------------------------------------
Init ==
    /\ wallet \in Wallet
    /\ inputs = <<>> /\ outputs = <<>> /\ allotments = [a \in {} |-> 0]
    /\ rewards = 0 /\ creationSlot = 0 /\ commitment = NoCommitment /\ canBurnMana = FALSE
    /\ occurredBuildErr = FALSE /\ tx = NoTx /\ distributed = Nothing

Collect ==
    \/ \E i \in wallet.held : \E a \in {i.owner, i.return} : AddInput(i, a)
    \/ \E o \in wallet.wanted : AddOutput(o)
    \/ \E c \in wallet.commitments : AddCommitmentInput(c)
    \/ \E m \in wallet.rewards : AddRewardInput(m)
    \/ \E s \in wallet.slots : SetCreationSlot(s)
    \/ \E a \in wallet.issuers, v \in wallet.allot : IncreaseAllotment(a, v)
    \/ wallet.then = "block" /\ WithTransactionCapabilities

(* A second distribution follows only after another change. *)
Distribute ==
    distributed = Nothing /\ \E s \in wallet.slots :
        \/ \E a \in wallet.issuers, m \in wallet.allot : AllotAllMana(s, a, m)
        \/ \E k \in 1..MaxOutputs : StoreRemainingManaInOutput(s, k)
        \/ \E k \in 1..MaxOutputs, a \in wallet.issuers, r \in wallet.rmc :
              AllotMinRequiredMana(s, r, a, k)

Next == Collect \/ Distribute \/ Build

Spec == Init /\ [][Next]_vars

-----------------------------------------------------------------------------
(***************************************************************************)
(*                              PROPERTIES                                 *)
(***************************************************************************)
Built == tx # NoTx

(* The distribution was the last change, made for the slot in which the    *)
(* virtual machine will decay the mana.                                    *)
Fresh == distributed.op # "none" /\ distributed.slot = tx.creationSlot

KnowsItsAccounts == \A k \in DOMAIN tx.inputs : tx.inputs[k].type = "Account" => ~tx.inputs[k].new

(* A transaction built right after a distribution neither burns nor        *)
(* creates mana, whatever was stored, allotted or locked explicitly before *)
(* ("It will return an error if there is not enough mana available"), and  *)
(* it never moves mana off a block issuer account by the rules of the      *)
(* virtual machine, which bounds the slot by the commitment and not by the *)
(* creation slot as the builder does.                                      *)
DistributedManaIsValid ==
    Built /\ Fresh /\ TotalsExist(tx) /\ KnowsItsAccounts =>
        /\ TotalManaIn(tx) = TotalManaOut(tx) /\ BalancedMana(tx)
        /\ tx.commitment \in 0..tx.creationSlot => BlockIssuersKeepMana(tx)

(* After AllotMinRequiredManaAndStoreRemainingManaInOutput the issuer gets *)
(* at least what the block with this very transaction will cost.           *)
IssuerCanPay ==
    Built /\ Fresh /\ distributed.op = "min" /\ TotalsExist(tx) =>
        LET cost == ManaCost(distributed.rmc, Cardinality(DOMAIN tx.allotments), tx.unlocks)
        IN  cost > 0 =>
                distributed.issuer \in DOMAIN tx.allotments /\ tx.allotments[distributed.issuer] >= cost
=============================================================================
