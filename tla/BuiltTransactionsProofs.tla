------------------------ MODULE BuiltTransactionsProofs ------------------------
(***************************************************************************)
(* Theorems about BuiltTransactions: a transaction from the transaction    *)
(* builder through the block builder and the validators, for any wallet,   *)
(* any addresses and any parents.                                          *)
(*                                                                         *)
(* Three inductive invariants, each on top of the one before: BuilderInv   *)
(* says that a built transaction is what build makes of the inputs that    *)
(* the builder still holds; BlockInv that the parents are ascending at all *)
(* times and that a signature is over the content; VMInv what the maps of  *)
(* the two validators of unlocks hold after each prefix of the unlocks and *)
(* inputs.                                                                 *)
(***************************************************************************)
EXTENDS BuiltTransactions, OrderLemmas, FiniteSetTheorems, TLAPS

-----------------------------------------------------------------------------
(* The parents of a block. *)
(* RemoveDupsAndSort returns that enumeration of its argument. *)
LEMMA RemoveDupsAndSortSorts ==
    ASSUME NEW p \in Seq(Nat)
    PROVE  IsAscending(BB!RemoveDupsAndSort(p))
<1> DEFINE S == BB!ToSet(p)
<1>1. S = {p[i] : i \in 1..Len(p)} /\ Len(p) \in Nat
  BY DEF BB!ToSet
<1>2. p \in Surjection(1..Len(p), S)
  BY <1>1 DEF Surjection
<1>3. IsFiniteSet(1..Len(p))
  BY <1>1, FS_Interval
<1>4. IsFiniteSet(S) /\ S \in SUBSET Nat
  BY <1>1, <1>2, <1>3, FS_Surjection
<1>5. Cardinality(S) \in Nat
  BY <1>4, FS_CardinalityType
<1> HIDE DEF S
<1>6. \E q \in [1..Cardinality(S) -> S] : \A i, j \in DOMAIN q : i < j => q[i] < q[j]
  BY <1>4, FiniteIsEnumerated DEF Enumerations, Ascending
<1>7. PICK q : q = BB!RemoveDupsAndSort(p)
  OBVIOUS
<1>8. q \in [1..Cardinality(S) -> S] /\ \A i, j \in DOMAIN q : i < j => q[i] < q[j]
  BY <1>6, <1>7 DEF BB!RemoveDupsAndSort, BB!Ascending, BB!Cardinality, Cardinality, S
<1> QED
  BY <1>4, <1>5, <1>7, <1>8 DEF IsAscending, Ascending

(* Sorting the parents again when the block is built changes nothing. *)
LEMMA BuildKeepsParents ==
    ASSUME NEW p, IsAscending(p)
    PROVE  BB!Sort(p) = p
<1>1. BB!Sorting(p) = Sorting(p)
  BY DEF BB!Sorting, Sorting, BB!Bijection, Bijection, BB!Injection, Injection, BB!IsInjective, IsInjective,
         BB!Surjection, Surjection
<1>2. BB!Sort(p) = Sort(p)
  BY <1>1 DEF BB!Sort, Sort
<1> QED
  BY <1>2, SortKeepsAscending

-----------------------------------------------------------------------------
(***************************************************************************)
(* The transaction builder.  Once the transaction is built, the builder    *)
(* still holds what it was built from.                                     *)
(***************************************************************************)
Held == UNION {w.held : w \in Wallet}
Target == UNION {{i.owner, i.return} : i \in Held}
Consumed == {WithTarget(i, a) : i \in Held, a \in Target}

IsWanted(o) == "timelock" \in DOMAIN o /\ o.timelock \in Nat

PartsOk ==
    /\ wallet \in Wallet
    /\ inputs \in Seq(Consumed)
    /\ (\E S : outputs \in Seq(S)) /\ \A k \in DOMAIN outputs : IsWanted(outputs[k])
    /\ commitment \in Nat \cup {NoCommitment}

(* build found an unlock for each input. *)
TxIsBuilt ==
    Built => tx = Transaction(build(TRUE)) /\ \A k \in DOMAIN inputs : CanUnlockAt(k)

BuilderInv == PartsOk /\ TxIsBuilt

(* No call of the transaction builder does anything once it has built. *)
LEMMA NextNeedsOpen ==
    ASSUME Next
    PROVE  Open
<1>1. CASE Collect
  BY <1>1, Zenon DEF Collect, AddInput, AddOutput, AddCommitmentInput, AddRewardInput,
         SetCreationSlot, IncreaseAllotment, WithTransactionCapabilities, Changes
<1>2. CASE Distribute
  <2>1. \A s, a, m : AllotAllMana(s, a, m) => Open
    BY DEF AllotAllMana
  <2>2. \A s, k : StoreRemainingManaInOutput(s, k) => Open
    BY DEF StoreRemainingManaInOutput
  <2>3. \A s, r, a, k : AllotMinRequiredMana(s, r, a, k) => Open
    BY DEF AllotMinRequiredMana
  <2> QED
    BY <1>2, <2>1, <2>2, <2>3, Zenon DEF Distribute
<1>3. CASE Build
  BY <1>3 DEF Build
<1> QED
  BY <1>1, <1>2, <1>3 DEF Next

(* A new transaction builder. *)
LEMMA BuilderInit ==
    ASSUME Init
    PROVE  BuilderInv
<1>1. <<>> \in Seq(Consumed) /\ <<>> \in Seq({}) /\ DOMAIN <<>> = {}
  OBVIOUS
<1>2. ~Built
  BY DEF Init, Built
<1>3. PartsOk
  BY <1>1, Zenon DEF Init, PartsOk
<1> QED
  BY <1>2, <1>3 DEF BuilderInv, TxIsBuilt

(* Storing mana in an output leaves the rest of the output alone. *)
LEMMA StoringKeepsOutputs ==
    ASSUME PartsOk, NEW left, NEW k \in DOMAIN outputs, NEW a, outputs' = Stored(left, k, a)
    PROVE  (\E S : outputs' \in Seq(S)) /\ \A j \in DOMAIN outputs' : IsWanted(outputs'[j])
<1>1. PICK v : outputs' = [outputs EXCEPT ![k] = [outputs[k] EXCEPT !.mana = v]]
  BY Zenon DEF Stored
<1>2. PICK S : outputs \in Seq(S)
  BY DEF PartsOk
<1>3. outputs' \in Seq(S \cup {outputs'[k]}) /\ DOMAIN outputs' = DOMAIN outputs
  BY <1>1, <1>2
<1>4. \A j \in DOMAIN outputs : IsWanted(outputs'[j])
  BY <1>1 DEF PartsOk, IsWanted
<1> QED
  BY <1>3, <1>4

(* AddOutput. *)
LEMMA AddingKeepsOutputs ==
    ASSUME PartsOk, NEW o \in wallet.wanted, outputs' = Append(outputs, o)
    PROVE  (\E S : outputs' \in Seq(S)) /\ \A j \in DOMAIN outputs' : IsWanted(outputs'[j])
<1>1. PICK S : outputs \in Seq(S)
  BY DEF PartsOk
<1>2. outputs \in Seq(S \cup {o})
  BY <1>1
<1>3. outputs' \in Seq(S \cup {o})
  BY <1>2
<1>4. IsWanted(o)
  BY WalletAssumption DEF PartsOk, IsWanted
<1>5. \A j \in DOMAIN outputs' : outputs'[j] = o \/ (j \in DOMAIN outputs /\ outputs'[j] = outputs[j])
  BY <1>2
<1>6. \A j \in DOMAIN outputs' : IsWanted(outputs'[j])
  BY <1>4, <1>5 DEF PartsOk
<1> QED
  BY <1>3, <1>6

(* The unlocks depend on the inputs and the keys alone. *)
LEMMA UnlocksStay ==
    ASSUME inputs' = inputs, wallet' = wallet
    PROVE  /\ build(TRUE)' = build(TRUE)
           /\ \A k : CanUnlockAt(k)' <=> CanUnlockAt(k)
           /\ \A k : UnlockAt(k, TRUE)' = UnlockAt(k, TRUE)
           /\ \A k : OwnerAt(k)' = OwnerAt(k)
<1>1. \A k : OwnerAt(k)' = OwnerAt(k)
  BY DEF OwnerAt, resolveUnderlyingAddress
<1>2. \A k : ChainUnlockedAt(k)' = ChainUnlockedAt(k)
  BY <1>1 DEF ChainUnlockedAt, addsChain
<1>3. \A k : SignedAt(k)' = SignedAt(k)
  BY <1>1 DEF SignedAt, IsDirectUnlockable
<1>4. \A k : UnlockAt(k, TRUE)' = UnlockAt(k, TRUE)
  BY <1>1, <1>2, <1>3 DEF UnlockAt, IsChainAddress
<1>5. \A k : CanUnlockAt(k)' <=> CanUnlockAt(k)
  BY <1>1, <1>2 DEF CanUnlockAt, IsChainAddress, IsDirectUnlockable, HasKey
<1>6. build(TRUE)' = build(TRUE)
  BY <1>4 DEF build
<1> QED
  BY <1>1, <1>4, <1>5, <1>6

(* A step of the builder; only Build makes a transaction. *)
LEMMA BuilderKeeps ==
    ASSUME BuilderInv, Next
    PROVE  BuilderInv'
<1>1. ~Built
  BY NextNeedsOpen DEF Open, Built
<1> USE DEF BuilderInv
<1>2. ASSUME UNCHANGED <<wallet, tx>>, PartsOk' PROVE BuilderInv'
  BY <1>1, <1>2 DEF TxIsBuilt, Built
<1>3. CASE Build
  <2>1. UNCHANGED <<wallet, inputs, outputs, allotments, rewards, creationSlot, commitment, canBurnMana>>
    BY <1>3 DEF Build, essence
  <2>2. PartsOk'
    BY <2>1 DEF PartsOk
  <2>3. tx' = Transaction(build(TRUE))' /\ \A k \in DOMAIN inputs : CanUnlockAt(k)
    <3>1. tx' = Transaction(build(TRUE)) /\ CanBuild
      BY <1>3 DEF Build
    <3>2. build(TRUE)' = build(TRUE)
      BY <2>1, UnlocksStay
    <3>3. Transaction(build(TRUE))' = Transaction(build(TRUE))
      BY <2>1, <3>2 DEF Transaction
    <3> QED
      BY <3>1, <3>3 DEF CanBuild
  <2>4. \A k \in DOMAIN inputs' : CanUnlockAt(k)'
    BY <2>1, <2>3, UnlocksStay
  <2> QED
    BY <2>2, <2>3, <2>4 DEF TxIsBuilt
<1>4. CASE Collect
  <2>1. CASE \E i \in wallet.held : \E a \in {i.owner, i.return} : AddInput(i, a)
    <3>0. PICK i \in wallet.held : \E a \in {i.owner, i.return} : AddInput(i, a)
      BY <2>1, Zenon
    <3>1. PICK a \in {i.owner, i.return} : AddInput(i, a)
      BY <3>0
    <3>2. UNCHANGED <<wallet, tx, outputs, commitment>> /\ inputs' = Append(inputs, WithTarget(i, a))
      BY <3>1 DEF AddInput, Changes
    <3>3. i \in Held
      BY DEF PartsOk, Held
    <3>4. WithTarget(i, a) \in Consumed
      <4>1. a \in Target
        BY <3>3 DEF Target
      <4> QED
        BY <3>3, <4>1 DEF Consumed
    <3>5. inputs' \in Seq(Consumed)
      BY <3>2, <3>4 DEF PartsOk
    <3>6. PartsOk'
      BY <3>2, <3>5 DEF PartsOk
    <3> QED
      BY <1>2, <3>2, <3>6
  <2>2. CASE \E o \in wallet.wanted : AddOutput(o)
    <3>1. PICK o \in wallet.wanted : AddOutput(o)
      BY <2>2, Zenon
    <3>2. UNCHANGED <<wallet, tx, inputs, commitment>> /\ outputs' = Append(outputs, o)
      BY <3>1 DEF AddOutput, Changes
    <3>3. PartsOk'
      BY <3>2, AddingKeepsOutputs DEF PartsOk
    <3> QED
      BY <1>2, <3>2, <3>3
  <2>3. CASE \E c \in wallet.commitments : AddCommitmentInput(c)
    <3>1. PICK c \in wallet.commitments : AddCommitmentInput(c)
      BY <2>3, Zenon
    <3>2. UNCHANGED <<wallet, tx, inputs, outputs>> /\ commitment' = c
      BY <3>1 DEF AddCommitmentInput, Changes
    <3>3. c \in Nat
      BY WalletAssumption DEF PartsOk
    <3>4. PartsOk'
      BY <3>2, <3>3 DEF PartsOk
    <3> QED
      BY <1>2, <3>2, <3>4
  <2>4. CASE \/ \E m \in wallet.rewards : AddRewardInput(m)
             \/ \E s \in wallet.slots : SetCreationSlot(s)
             \/ \E a \in wallet.issuers, v \in wallet.allot : IncreaseAllotment(a, v)
             \/ wallet.then = "block" /\ WithTransactionCapabilities
    <3>1. UNCHANGED <<wallet, tx, inputs, outputs, commitment>>
      BY <2>4, Zenon DEF AddRewardInput, SetCreationSlot, IncreaseAllotment, WithTransactionCapabilities, Changes
    <3>2. PartsOk'
      BY <3>1 DEF PartsOk
    <3> QED
      BY <1>2, <3>1, <3>2
  <2> QED
    BY <1>4, <2>1, <2>2, <2>3, <2>4, Zenon DEF Collect
<1>5. CASE Distribute
  <2>1. CASE UNCHANGED <<wallet, tx, inputs, outputs, commitment>>
    BY <1>2, <2>1 DEF PartsOk
  <2>2. CASE /\ UNCHANGED <<wallet, tx, inputs, commitment>>
             /\ \E left, a : \E k \in DOMAIN outputs : outputs' = Stored(left, k, a)
    <3>1. PartsOk'
      BY <2>2, StoringKeepsOutputs DEF PartsOk
    <3> QED
      BY <1>2, <2>2, <3>1
  <2> DEFINE Keeps == UNCHANGED <<wallet, tx, inputs, outputs, commitment>>
             Stores == /\ UNCHANGED <<wallet, tx, inputs, commitment>>
                       /\ \E left, a : \E k \in DOMAIN outputs : outputs' = Stored(left, k, a)
  <2>3. Keeps \/ Stores
    <3>1. ASSUME NEW s, NEW a, NEW m, AllotAllMana(s, a, m)
          PROVE  UNCHANGED <<wallet, tx, inputs, outputs, commitment>>
      BY <3>1, Zenon DEF AllotAllMana, Fails, Succeeds
    <3>2. ASSUME NEW s, NEW k, StoreRemainingManaInOutput(s, k) PROVE Keeps \/ Stores
      BY <3>2, Zenon DEF StoreRemainingManaInOutput, Fails, Succeeds, StoredManaOk
    <3>3. ASSUME NEW s, NEW r, NEW a, NEW k, AllotMinRequiredMana(s, r, a, k) PROVE Keeps \/ Stores
      BY <3>3, Zenon DEF AllotMinRequiredMana, Fails, Succeeds, StoredManaOk
    <3> QED
      BY <1>5, <3>1, <3>2, <3>3, Zenon DEF Distribute
  <2> QED
    BY <2>1, <2>2, <2>3
<1> QED
  BY <1>3, <1>4, <1>5 DEF Next

-----------------------------------------------------------------------------
(***************************************************************************)
(* The block builder.  The parents are ascending at all times, a payload   *)
(* is the transaction, and a signature that was the last call is over what *)
(* the builder holds.                                                      *)
(***************************************************************************)
BlockFields == {"type", "version", "slot", "commitment", "issuer", "strong", "weak", "likes"}

IsContent(c) ==
    /\ c = [f \in DOMAIN c |-> c[f]]
    /\ BlockFields \subseteq DOMAIN c
    /\ c.type = "Basic" => "payload" \in DOMAIN c
    /\ c.slot \in Nat
    /\ IsAscending(c.strong) /\ IsAscending(c.weak) /\ IsAscending(c.likes)

CarriesTx(c) ==
    c.type = "Basic" /\ c.payload # BB!NoPayload => Built /\ c.payload.commitment = tx.commitment

BlockInv ==
    /\ IsContent(content)
    /\ CarriesTx(content)
    /\ lastCall = "Sign" /\ ~blockErr => signature = content
    /\ block # BB!NoBlock =>
          /\ block = [content |-> content, signature |-> signature] /\ ~blockErr
          /\ content.type = "Basic" => content.payload # BB!NoPayload

(* A block without weak parents. *)
LEMMA EmptyIsAscending == IsAscending(<<>>)
<1>1. <<>> \in [1..0 -> Nat] /\ DOMAIN <<>> = {}
  OBVIOUS
<1> QED
  BY <1>1 DEF IsAscending, Ascending

(* The slot that a new block builder starts with is a slot. *)
LEMMA MaxIsMember ==
    ASSUME NEW S \in SUBSET Nat, IsFiniteSet(S), S # {}
    PROVE  BB!Max(S) \in S
<1>1. \E x \in S : \A y \in S : x >= y
  BY FiniteHasGreatest
<1> QED
  BY <1>1 DEF BB!Max

(* A new block builder. *)
LEMMA BlockInit ==
    ASSUME CompositeInit
    PROVE  BlockInv
<1>1. BB!Max(BlockSlot) \in Nat
  BY MaxIsMember, BlockAssumption
<1>2. IsContent(BB!NewBasicBlockBuilder) /\ CarriesTx(BB!NewBasicBlockBuilder)
  BY <1>1, EmptyIsAscending DEF IsContent, CarriesTx, BlockFields, BB!NewBasicBlockBuilder
<1>3. IsContent(BB!NewValidationBlockBuilder) /\ CarriesTx(BB!NewValidationBlockBuilder)
  BY <1>1, EmptyIsAscending DEF IsContent, CarriesTx, BlockFields, BB!NewValidationBlockBuilder
<1>4. IsContent(content) /\ CarriesTx(content)
  BY <1>2, <1>3 DEF CompositeInit
<1>5. block = BB!NoBlock /\ lastCall = "New"
  BY DEF CompositeInit
<1> QED
  BY <1>4, <1>5 DEF BlockInv

(* A setter replaces the content by a well-formed one. *)
LEMMA CallKeeps ==
    ASSUME BlockInv, NEW c, NEW name, name # "Sign", BB!Called(name), UNCHANGED <<block, tx>>,
           content' \in {content, c}, IsContent(c), CarriesTx(c)
    PROVE  BlockInv'
<1>1. block' = BB!NoBlock /\ lastCall' # "Sign"
  BY DEF BB!Called
<1>2. IsContent(content')
  BY DEF BlockInv
<1>3. CarriesTx(content)'
  BY DEF BlockInv, CarriesTx, Built
<1> QED
  BY <1>1, <1>2, <1>3 DEF BlockInv, IsContent

LEMMA SetKeeps ==
    ASSUME BlockInv, NEW c, NEW name, name # "Sign", BB!Set(c, name), UNCHANGED tx,
           IsContent(c), CarriesTx(c)
    PROVE  BlockInv'
<1>1. BB!Called(name) /\ UNCHANGED block /\ content' \in {content, c}
  BY DEF BB!Set
<1> QED
  BY <1>1, CallKeeps

(* The setters of the fields that no part of the invariant is about. *)
LEMMA FieldSet ==
    ASSUME NEW c, IsContent(c), CarriesTx(c), NEW v, NEW f, f \notin {"type", "slot", "strong", "weak", "likes", "payload"}
    PROVE  IsContent([c EXCEPT ![f] = v]) /\ CarriesTx([c EXCEPT ![f] = v])
<1>1. PICK d : d = [c EXCEPT ![f] = v]
  OBVIOUS
<1>2. DOMAIN d = DOMAIN c /\ d = [g \in DOMAIN d |-> d[g]]
  BY <1>1
<1>3. \A g \in DOMAIN c : g # f => d[g] = c[g]
  BY <1>1
<1>4. d.type = c.type /\ d.slot = c.slot /\ d.strong = c.strong /\ d.weak = c.weak /\ d.likes = c.likes
  BY <1>3 DEF IsContent, BlockFields
<1>5. c.type = "Basic" => d.payload = c.payload
  BY <1>3 DEF IsContent
<1>6. IsContent(d)
  BY <1>2, <1>4 DEF IsContent
<1>7. CarriesTx(d)
  BY <1>4, <1>5 DEF CarriesTx
<1> QED
  BY <1>1, <1>6, <1>7

(* IssuingTime. *)
LEMMA SlotSet ==
    ASSUME NEW c, IsContent(c), CarriesTx(c), NEW s \in Nat
    PROVE  IsContent([c EXCEPT !.slot = s]) /\ CarriesTx([c EXCEPT !.slot = s])
  BY DEF IsContent, CarriesTx, BlockFields

(* StrongParents, WeakParents and ShallowLikeParents. *)
LEMMA ParentsSet ==
    ASSUME NEW c, IsContent(c), CarriesTx(c), NEW p, IsAscending(p), NEW f \in {"strong", "weak", "likes"}
    PROVE  IsContent([c EXCEPT ![f] = p]) /\ CarriesTx([c EXCEPT ![f] = p])
<1>1. PICK d : d = [c EXCEPT ![f] = p]
  OBVIOUS
<1>2. DOMAIN d = DOMAIN c /\ d = [g \in DOMAIN d |-> d[g]]
  BY <1>1
<1>3. \A g \in DOMAIN c : d[g] = IF g = f THEN p ELSE c[g]
  BY <1>1
<1>4. /\ d.type = c.type /\ d.slot = c.slot
      /\ d.strong \in {c.strong, p} /\ d.weak \in {c.weak, p} /\ d.likes \in {c.likes, p}
  BY <1>3 DEF IsContent, BlockFields
<1>5. c.type = "Basic" => d.payload = c.payload
  BY <1>3 DEF IsContent
<1>6. IsContent(d)
  BY <1>2, <1>4 DEF IsContent
<1>7. CarriesTx(d)
  BY <1>4, <1>5 DEF CarriesTx
<1> QED
  BY <1>1, <1>6, <1>7

(* Payload. *)
LEMMA PayloadSet ==
    ASSUME NEW c, IsContent(c), Built, c.type = "Basic"
    PROVE  LET d == [c EXCEPT !.payload = Payload(tx)]
           IN  IsContent(d) /\ CarriesTx(d)
<1>1. PICK d : d = [c EXCEPT !.payload = Payload(tx)]
  OBVIOUS
<1>2. d.payload = Payload(tx)
  BY <1>1 DEF IsContent
<1>3. Payload(tx).commitment = tx.commitment
  BY DEF Payload
<1>4. IsContent(d)
  BY <1>1 DEF IsContent, BlockFields
<1>5. CarriesTx(d)
  BY <1>2, <1>3 DEF CarriesTx
<1> QED
  BY <1>1, <1>4, <1>5

(* Sorting once more when the block is built changes nothing. *)
LEMMA BuildSorts ==
    ASSUME NEW c, IsContent(c)
    PROVE  [c EXCEPT !.strong = BB!Sort(@), !.weak = BB!Sort(@), !.likes = BB!Sort(@)] = c
<1>1. BB!Sort(c.strong) = c.strong /\ BB!Sort(c.weak) = c.weak /\ BB!Sort(c.likes) = c.likes
  BY BuildKeepsParents DEF IsContent
<1> QED
  BY <1>1 DEF IsContent

(* Sign. *)
LEMMA SignKeeps ==
    ASSUME BlockInv, UNCHANGED tx, NEW a, NEW ok \in BOOLEAN, BB!Sign(a, ok)
    PROVE  BlockInv'
<1>1. PICK issued : issued = [content EXCEPT !.issuer = a]
  OBVIOUS
<1>2. IsContent(issued) /\ CarriesTx(issued)
  BY <1>1, FieldSet DEF BlockInv
<1>3. /\ block' = BB!NoBlock
      /\ content' = (IF blockErr THEN content ELSE issued)
      /\ signature' = (IF blockErr \/ ~ok THEN signature ELSE issued)
      /\ blockErr' = (blockErr \/ ~ok)
  BY <1>1 DEF BB!Sign, BB!Called
<1>4. IsContent(content') /\ CarriesTx(content')
  BY <1>2, <1>3 DEF BlockInv
<1>5. CarriesTx(content)'
  BY <1>4 DEF CarriesTx, Built
<1>6. ~blockErr' => signature' = content'
  BY <1>3
<1> QED
  BY <1>3, <1>4, <1>5, <1>6 DEF BlockInv, IsContent

(* Every call of the block builder keeps its invariant. *)
LEMMA BlockStepKeeps ==
    ASSUME BlockInv, UNCHANGED tx, BlockStep
    PROVE  BlockInv'
<1> USE DEF BlockInv
<1>1. CASE BB!SetHeader
  <2>1. CASE \E v \in {3} : BB!Set([content EXCEPT !.version = v], "ProtocolVersion")
    BY <2>1, FieldSet, SetKeeps
  <2>2. CASE \E s \in BlockSlot : BB!Set([content EXCEPT !.slot = s], "IssuingTime")
    <3>1. PICK s \in BlockSlot : BB!Set([content EXCEPT !.slot = s], "IssuingTime")
      BY <2>2
    <3> QED
      BY <3>1, SlotSet, SetKeeps, BlockAssumption
  <2>3. CASE \E s \in BlockSlot : BB!Set([content EXCEPT !.commitment = s], "SlotCommitmentID")
    <3>1. PICK s \in BlockSlot : BB!Set([content EXCEPT !.commitment = s], "SlotCommitmentID")
      BY <2>3
    <3> QED
      BY <3>1, FieldSet, SetKeeps
  <2> QED
    BY <1>1, <2>1, <2>2, <2>3 DEF BB!SetHeader
<1>2. CASE BB!SetParents
  <2>1. PICK p \in Parents :
           \/ BB!Set([content EXCEPT !.strong = BB!RemoveDupsAndSort(p)], "StrongParents")
           \/ BB!Set([content EXCEPT !.weak = BB!RemoveDupsAndSort(p)], "WeakParents")
           \/ BB!Set([content EXCEPT !.likes = BB!RemoveDupsAndSort(p)], "ShallowLikeParents")
    BY <1>2 DEF BB!SetParents
  <2>2. PICK q : q = BB!RemoveDupsAndSort(p)
    OBVIOUS
  <2>3. IsAscending(q)
    BY <2>2, RemoveDupsAndSortSorts, BlockAssumption
  <2>4. \A f \in {"strong", "weak", "likes"} :
           IsContent([content EXCEPT ![f] = q]) /\ CarriesTx([content EXCEPT ![f] = q])
    BY <2>3, ParentsSet
  <2>5. CASE BB!Set([content EXCEPT !.strong = q], "StrongParents")
    BY <2>4, <2>5, SetKeeps
  <2>6. CASE BB!Set([content EXCEPT !.weak = q], "WeakParents")
    BY <2>4, <2>6, SetKeeps
  <2>7. CASE BB!Set([content EXCEPT !.likes = q], "ShallowLikeParents")
    BY <2>4, <2>7, SetKeeps
  <2> QED
    BY <2>1, <2>2, <2>5, <2>6, <2>7
<1>3. CASE BB!SetHighestSupportedVersion
  <2>1. PICK v \in {3} : BB!Set([content EXCEPT !.highestSupported = v], "HighestSupportedVersion")
    BY <1>3 DEF BB!SetHighestSupportedVersion
  <2> QED
    BY <2>1, FieldSet, SetKeeps
<1>4. CASE \E r \in wallet.rmc : BB!SetMaxBurnedMana(r)
  <2>1. PICK v : /\ BB!Called("MaxBurnedMana") /\ UNCHANGED block
                 /\ content' \in {content, [content EXCEPT !.burned = v]}
    BY <1>4 DEF BB!SetMaxBurnedMana
  <2> QED
    BY <2>1, FieldSet, CallKeeps
<1>5. CASE \E a \in wallet.issuers, ok \in BOOLEAN : BB!Sign(a, ok)
  BY <1>5, SignKeeps
<1>6. CASE BB!BuildBlock
  <2>1. content.type = "Basic" => content.payload # BB!NoPayload
    BY DEF BlockStep
  <2>2. /\ content' = content /\ UNCHANGED <<signature, blockErr, lastCall>> /\ ~blockErr
        /\ block' = [content |-> content, signature |-> signature]
    BY <1>6, BuildSorts DEF BB!BuildBlock
  <2>3. CarriesTx(content)'
    BY <2>2 DEF CarriesTx, Built
  <2> QED
    BY <2>1, <2>2, <2>3 DEF IsContent
<1> QED
  BY <1>1, <1>2, <1>3, <1>4, <1>5, <1>6 DEF BlockStep

(* Every step of the composition keeps the builders' invariants. *)
LEMMA BuildersKeep ==
    ASSUME BuilderInv, BlockInv, [CompositeNext]_allVars
    PROVE  BuilderInv' /\ BlockInv'
<1>1. CASE BuilderStep
  <2>1. BuilderInv'
    BY <1>1, BuilderKeeps DEF BuilderStep
  <2>2. ~Built
    BY <1>1, NextNeedsOpen DEF BuilderStep, Open, Built
  <2>3. UNCHANGED <<content, signature, blockErr, block, lastCall>>
    BY <1>1 DEF BuilderStep, blockVars
  <2>4. CarriesTx(content)'
    BY <2>2, <2>3 DEF BlockInv, CarriesTx
  <2>5. BlockInv'
    BY <2>3, <2>4 DEF BlockInv, IsContent
  <2> QED
    BY <2>1, <2>5
<1>2. ASSUME UNCHANGED vars PROVE BuilderInv'
  <2>1. UNCHANGED <<wallet, tx, inputs, outputs, allotments, rewards, creationSlot, commitment, canBurnMana>>
    BY <1>2 DEF vars, essence
  <2>2. PartsOk'
    BY <2>1 DEF BuilderInv, PartsOk
  <2>3. Transaction(build(TRUE))' = Transaction(build(TRUE))
    BY <2>1, UnlocksStay DEF Transaction
  <2>4. TxIsBuilt'
    BY <2>1, <2>3, UnlocksStay DEF BuilderInv, TxIsBuilt, Built
  <2> QED
    BY <2>2, <2>4 DEF BuilderInv
<1>3. ASSUME UNCHANGED vars PROVE UNCHANGED tx
  BY <1>3 DEF vars
<1>4. ASSUME UNCHANGED tx, UNCHANGED blockVars PROVE BlockInv'
  <2>1. UNCHANGED <<content, signature, blockErr, block, lastCall>>
    BY <1>4 DEF blockVars
  <2>2. CarriesTx(content)'
    BY <1>4, <2>1 DEF BlockInv, CarriesTx, Built
  <2> QED
    BY <2>1, <2>2 DEF BlockInv, IsContent
<1>5. CASE SwapToBlockBuilder
  <2>1. UNCHANGED vars /\ Built /\ content.type = "Basic"
        /\ BB!Set([content EXCEPT !.payload = Payload(tx)], "Payload")
    BY <1>5 DEF SwapToBlockBuilder, BB!SetPayload
  <2>2. IsContent([content EXCEPT !.payload = Payload(tx)]) /\ CarriesTx([content EXCEPT !.payload = Payload(tx)])
    BY <2>1, PayloadSet DEF BlockInv
  <2>3. BlockInv'
    BY <1>3, <2>1, <2>2, SetKeeps
  <2> QED
    BY <1>2, <2>1, <2>3
<1>6. CASE BlockStep
  <2>1. UNCHANGED vars
    BY <1>6 DEF BlockStep
  <2> QED
    BY <1>2, <1>3, <1>6, <2>1, BlockStepKeeps
<1>7. CASE ReadUnlock \/ StartVM \/ ResolveInput \/ UNCHANGED allVars
  <2>1. UNCHANGED vars /\ UNCHANGED blockVars
    BY <1>7, Zenon DEF ReadUnlock, StartVM, ResolveInput, allVars
  <2> QED
    BY <1>2, <1>3, <1>4, <2>1
<1> QED
  BY <1>1, <1>5, <1>6, <1>7, Zenon DEF CompositeNext

(* The invariant of the two builders, for every execution. *)
LEMMA BuildersInvariant == CompositeSpec => [](BuilderInv /\ BlockInv)
<1>1. CompositeInit => BuilderInv /\ BlockInv
  BY BuilderInit, BlockInit DEF CompositeInit
<1>2. BuilderInv /\ BlockInv /\ [CompositeNext]_allVars => (BuilderInv /\ BlockInv)'
  BY BuildersKeep
<1> QED
  BY <1>1, <1>2, PTL DEF CompositeSpec

(* Build of the block builder sorts the parents after the signature was    *)
(* made, and yet the signature is over what it returns, for any parents    *)
(* and any order of calls.                                                 *)
THEOREM BlocksAreSigned == CompositeSpec => []BlockIsSigned
<1>1. BlockInv => BlockIsSigned
  BY DEF BlockInv, BlockIsSigned, BB!SignedLastIsSigned
<1> QED
  BY <1>1, BuildersInvariant, PTL

(* The virtual machine knows the commitment input alone when it decides    *)
(* whether mana is locked for long enough; the rules for blocks bound the  *)
(* slot of any block with the transaction by the same commitment.          *)
THEOREM ManaLocksOutliveBlocks == CompositeSpec => []ManaLockOutlivesBlock
<1>1. BuilderInv /\ BlockInv => ManaLockOutlivesBlock
  <2> SUFFICES ASSUME BuilderInv, BlockInv, Built, block.content.type = "Basic",
                      BB!SyntacticallyValid(block.content), tx.commitment # NoCommitment,
                      NEW k \in DOMAIN tx.outputs,
                      HasManalockCondition(tx.outputs[k], tx.outputs[k].owner, minManalockedSlot(tx))
               PROVE  tx.outputs[k].timelock > block.content.slot + MaxCommittableAge
    BY DEF ManaLockOutlivesBlock
  <2>1. tx.outputs = outputs /\ tx.commitment = commitment
    BY DEF BuilderInv, TxIsBuilt, Transaction
  <2>2. commitment \in Nat /\ tx.outputs[k].timelock \in Nat
    BY <2>1 DEF BuilderInv, PartsOk, IsWanted
  <2>3. block # BB!NoBlock
    BY DEF BB!NoBlock, BB!NoSignature
  <2>4. block.content = content /\ content.payload # BB!NoPayload /\ content.payload.commitment = commitment
    BY <2>1, <2>3 DEF BlockInv, CarriesTx
  <2>5. content.slot \in Nat
    BY DEF BlockInv, IsContent
  <2>6. BB!BasicBodyValid(content)
    BY <2>4 DEF BB!SyntacticallyValid
  <2>7. content.slot <= commitment + MaxCommittableAge
    BY <2>2, <2>4, <2>6 DEF BB!BasicBodyValid
  <2>8. commitment + MaxCommittableAge + MaxCommittableAge < tx.outputs[k].timelock
    BY <2>1 DEF HasManalockCondition, minManalockedSlot
  <2> QED
    BY <2>2, <2>4, <2>5, <2>7, <2>8, ManaAssumption
<1> QED
  BY <1>1, BuildersInvariant, PTL

-----------------------------------------------------------------------------
(***************************************************************************)
(* The validators.  Each unlock that build made is of one of three kinds;  *)
(* for each kind, what the validators demand is shown to hold.             *)
(***************************************************************************)
BuiltUnlock(k) == UnlockAt(k, TRUE)
SignatureOf(k) == [type |-> "Signature", key |-> KeyOf[OwnerAt(k)], valid |-> TRUE]

ByChain(k, u) ==
    /\ IsChainAddress(OwnerAt(k))
    /\ \E m \in 1..k - 1 : u = [type |-> AddressType[OwnerAt(k)], ref |-> m] /\ addsChain(inputs[m], OwnerAt(k))
ByReference(k, u) ==
    /\ IsDirectUnlockable(OwnerAt(k))
    /\ \E m \in SignedAt(k) : u = [type |-> "Reference", ref |-> m] /\ BuiltUnlock(m) = SignatureOf(k)
BySignature(k, u) == IsDirectUnlockable(OwnerAt(k)) /\ SignedAt(k) = {} /\ u = SignatureOf(k)

(* What a signature unlock holds. *)
LEMMA SignatureFields ==
    ASSUME NEW k
    PROVE  SignatureOf(k).type = "Signature" /\ SignatureOf(k).key = KeyOf[OwnerAt(k)] /\ SignatureOf(k).valid
  BY DEF SignatureOf

(* An address is unlocked by a signature or by a chain, never by both. *)
LEMMA DirectIsNoChain ==
    ASSUME NEW a
    PROVE  ~(IsDirectUnlockable(a) /\ IsChainAddress(a))
  BY DEF IsDirectUnlockable, IsChainAddress

(* The inputs are a sequence. *)
LEMMA InputsDomain ==
    ASSUME BuilderInv
    PROVE  Len(inputs) \in Nat /\ DOMAIN inputs = 1..Len(inputs)
  BY DEF BuilderInv, PartsOk

(* The first input of a signer is not preceded by another of the signer. *)
LEMMA FirstSigns ==
    ASSUME NEW k \in Nat, IsDirectUnlockable(OwnerAt(k)), SignedAt(k) # {}
    PROVE  \E m \in SignedAt(k) : m = Min(SignedAt(k)) /\ BuiltUnlock(m) = SignatureOf(k)
<1>1. SignedAt(k) \in SUBSET Nat
  BY DEF SignedAt
<1>2. \E x \in SignedAt(k) : \A y \in SignedAt(k) : x <= y
  BY <1>1, Least
<1>3. PICK m : m = Min(SignedAt(k))
  OBVIOUS
<1>4. m \in SignedAt(k) /\ \A y \in SignedAt(k) : m <= y
  BY <1>2, <1>3 DEF Min
<1>5. m \in 1..k - 1 /\ IsDirectUnlockable(OwnerAt(m)) /\ KeyOf[OwnerAt(m)] = KeyOf[OwnerAt(k)]
  BY <1>4 DEF SignedAt
<1>6. SignedAt(m) = {}
  <2> SUFFICES ASSUME NEW j \in SignedAt(m) PROVE FALSE
    OBVIOUS
  <2>1. j \in 1..m - 1 /\ IsDirectUnlockable(OwnerAt(j)) /\ KeyOf[OwnerAt(j)] = KeyOf[OwnerAt(m)]
    BY DEF SignedAt
  <2>2. j \in 1..k - 1
    BY <1>5, <2>1
  <2>3. j \in SignedAt(k)
    BY <1>5, <2>1, <2>2 DEF SignedAt
  <2> QED
    BY <1>4, <1>5, <2>1, <2>3
<1>7. ~IsChainAddress(OwnerAt(m))
  BY <1>5, DirectIsNoChain
<1>8. BuiltUnlock(m) = SignatureOf(k)
  BY <1>5, <1>6, <1>7 DEF BuiltUnlock, UnlockAt, SignatureOf
<1> QED
  BY <1>3, <1>4, <1>8

(* Each unlock of a built transaction is of one of the three kinds. *)
LEMMA UnlockKinds ==
    ASSUME BuilderInv, Built, NEW k \in DOMAIN inputs
    PROVE  LET u == BuiltUnlock(k) IN ByChain(k, u) \/ ByReference(k, u) \/ BySignature(k, u)
<1>1. k \in Nat /\ k >= 1
  BY InputsDomain
<1>2. CanUnlockAt(k)
  BY DEF BuilderInv, TxIsBuilt
<1>3. CASE IsChainAddress(OwnerAt(k))
  <2>1. ChainUnlockedAt(k) # {}
    BY <1>2, <1>3, DirectIsNoChain DEF CanUnlockAt
  <2>2. ChainUnlockedAt(k) \in SUBSET Nat /\ \A x \in ChainUnlockedAt(k) : x <= k
    BY <1>1 DEF ChainUnlockedAt
  <2>3. PICK m : m = Max(ChainUnlockedAt(k))
    OBVIOUS
  <2>4. m \in ChainUnlockedAt(k)
    <3>1. \E x \in ChainUnlockedAt(k) : \A y \in ChainUnlockedAt(k) : x >= y
      BY <1>1, <2>1, <2>2, Greatest
    <3> QED
      BY <2>3, <3>1 DEF Max
  <2>5. m \in 1..k - 1 /\ addsChain(inputs[m], OwnerAt(k))
    BY <2>4 DEF ChainUnlockedAt
  <2>6. BuiltUnlock(k) = [type |-> AddressType[OwnerAt(k)], ref |-> m]
    BY <1>3, <2>3 DEF BuiltUnlock, UnlockAt
  <2> QED
    BY <1>3, <2>5, <2>6 DEF ByChain
<1>4. CASE ~IsChainAddress(OwnerAt(k))
  <2>1. IsDirectUnlockable(OwnerAt(k))
    BY <1>2, <1>4 DEF CanUnlockAt
  <2>2. CASE SignedAt(k) = {}
    BY <1>4, <2>1, <2>2 DEF BuiltUnlock, UnlockAt, BySignature, SignatureOf
  <2>3. CASE SignedAt(k) # {}
    <3>1. PICK m \in SignedAt(k) : m = Min(SignedAt(k)) /\ BuiltUnlock(m) = SignatureOf(k)
      BY <1>1, <2>1, <2>3, FirstSigns
    <3>2. BuiltUnlock(k) = [type |-> "Reference", ref |-> m]
      BY <1>4, <2>3, <3>1 DEF BuiltUnlock, UnlockAt
    <3> QED
      BY <2>1, <3>1, <3>2 DEF ByReference
  <2> QED
    BY <2>2, <2>3
<1> QED
  BY <1>3, <1>4

(* A signature unlock of the input k tells the signer. *)
LEMMA SignatureKind ==
    ASSUME BuilderInv, Built, NEW k \in DOMAIN inputs, BuiltUnlock(k).type = "Signature"
    PROVE  IsDirectUnlockable(OwnerAt(k)) /\ BuiltUnlock(k) = SignatureOf(k)
<1>1. PICK u : u = BuiltUnlock(k)
  OBVIOUS
<1>2. ~ByChain(k, u) /\ ~ByReference(k, u)
  <2>1. u.type = "Signature"
    BY <1>1
  <2>2. ASSUME ByChain(k, u) PROVE FALSE
    BY <2>1, <2>2 DEF ByChain, IsChainAddress
  <2>3. ASSUME ByReference(k, u) PROVE FALSE
    BY <2>1, <2>3 DEF ByReference
  <2> QED
    BY <2>2, <2>3
<1> QED
  BY <1>1, <1>2, UnlockKinds DEF BySignature

-----------------------------------------------------------------------------
(* The syntactic validator has read a prefix of the unlocks, and its maps  *)
(* say what they are.                                                      *)
Reading ==
    /\ \E S : unlocks \in Seq(S)
    /\ Len(unlocks) <= Len(inputs)
    /\ \A k \in DOMAIN unlocks : unlocks[k] = BuiltUnlock(k)
    /\ seen.signatures = {k \in DOMAIN unlocks : unlocks[k].type = "Signature"}
    /\ seen.referentials = {k \in DOMAIN unlocks : unlocks[k].type # "Signature"}
    /\ seen.signers = {unlocks[k].key : k \in seen.signatures}
    /\ seen.multis = {} /\ seen.signersInMulti = {} /\ seen.multiBytes = {}

(* The virtual machine has resolved a prefix of the inputs. *)
Resolving ==
    /\ status \in {"syntactic", "semantic", "rejected", "accepted"}
    /\ ~Built => status = "syntactic" /\ unlocks = <<>>
    /\ status = "syntactic" => resolved = <<>> /\ DOMAIN unlocked = {}
    /\ status # "syntactic" => Len(unlocks) = Len(inputs)
    /\ resolved \in Seq(Consumed) /\ Len(resolved) <= Len(inputs)
    /\ \A k \in DOMAIN resolved : resolved[k] = inputs[k]

(* Where addresses are unlocked: the owner of an input with a signature at *)
(* that input, a chain at the input that carries it.                       *)
SignersUnlocked ==
    \A k \in DOMAIN resolved : unlocks[k].type = "Signature" =>
        /\ k \in DOMAIN sigUnlocked /\ sigUnlocked[k] = [addr |-> OwnerAt(k), key |-> KeyOf[OwnerAt(k)]]
        /\ OwnerAt(k) \in DOMAIN unlocked /\ unlocked[OwnerAt(k)].at = k
ChainsUnlocked ==
    \A k \in DOMAIN resolved : U!UnlocksChain(resolved[k]) =>
        resolved[k].chain \in DOMAIN unlocked /\ unlocked[resolved[k].chain].at = k
DirectsAreOwners ==
    \A a \in DOMAIN unlocked : IsDirectUnlockable(a) => \E k \in DOMAIN resolved : OwnerAt(k) = a
HaveIndices(f) == \A a \in DOMAIN f : "at" \in DOMAIN f[a]

Unlocking == SignersUnlocked /\ ChainsUnlocked /\ DirectsAreOwners /\ HaveIndices(unlocked)

(* What the caller has to get right, see BuiltUnlocksAccepted. *)
CallerIsRight == RightTargets /\ ~OwnedByGovernedAnchor

VMInv ==
    /\ Reading /\ Resolving
    /\ status # "syntactic" /\ CallerIsRight => status # "rejected" /\ Unlocking

(* The unlocks read so far belong to inputs. *)
LEMMA ReadingDomain ==
    ASSUME BuilderInv, Reading
    PROVE  Len(unlocks) \in Nat /\ DOMAIN unlocks = 1..Len(unlocks) /\ DOMAIN unlocks \subseteq DOMAIN inputs
  BY InputsDomain DEF Reading

(* The syntactic validator accepts the next unlock. *)
LEMMA NextUnlockOk ==
    ASSUME BuilderInv, Built, Reading, NEW k \in DOMAIN inputs, k = Len(unlocks) + 1
    PROVE  U!UnlockOk(BuiltUnlock(k))
<1>1. PICK u : u = BuiltUnlock(k)
  OBVIOUS
<1>2. Len(unlocks) \in Nat /\ DOMAIN unlocks = 1..Len(unlocks) /\ DOMAIN unlocks \subseteq DOMAIN inputs /\ k \in Nat
  BY ReadingDomain, InputsDomain
<1>3. \A j \in 1..k - 1 : j \in DOMAIN unlocks /\ (j \in seen.signatures \/ j \in seen.referentials)
  BY <1>2 DEF Reading
<1>4. CASE ByChain(k, u)
  <2>1. PICK m \in 1..k - 1 : u = [type |-> AddressType[OwnerAt(k)], ref |-> m]
    BY <1>4 DEF ByChain
  <2>2. u.type \in U!ChainTypes /\ u.ref = m
    BY <1>4, <2>1 DEF ByChain, IsChainAddress, U!ChainTypes
  <2>3. U!IsReferential(u) /\ U!ReferentialOk(u)
    BY <1>3, <2>2 DEF U!IsReferential, U!ReferentialOk, U!Chainable
  <2> QED
    BY <1>1, <2>3 DEF U!UnlockOk
<1>5. CASE ByReference(k, u)
  <2>1. PICK m \in SignedAt(k) : u = [type |-> "Reference", ref |-> m] /\ BuiltUnlock(m) = SignatureOf(k)
    BY <1>5 DEF ByReference
  <2>2. m \in 1..k - 1
    BY <2>1 DEF SignedAt
  <2>3. unlocks[m].type = "Signature"
    <3>1. unlocks[m] = BuiltUnlock(m)
      BY <1>3, <2>2 DEF Reading
    <3> QED
      BY <2>1, <3>1, SignatureFields
  <2>4. m \in seen.signatures /\ m \notin seen.referentials
    BY <1>3, <2>2, <2>3 DEF Reading
  <2>5. U!IsReferential(u) /\ U!ReferentialOk(u)
    BY <2>1, <2>4 DEF U!IsReferential, U!ReferentialOk
  <2> QED
    BY <1>1, <2>5 DEF U!UnlockOk
<1>6. CASE BySignature(k, u)
  <2>1. u.type = "Signature" /\ u.key = KeyOf[OwnerAt(k)]
    BY <1>6, SignatureFields DEF BySignature
  <2>2. ASSUME NEW j \in seen.signatures, unlocks[j].key = u.key PROVE FALSE
    <3>1. j \in DOMAIN inputs /\ j \in 1..k - 1 /\ BuiltUnlock(j).type = "Signature" /\ BuiltUnlock(j).key = u.key
      <4>1. j \in DOMAIN unlocks /\ unlocks[j].type = "Signature"
        BY DEF Reading
      <4>2. unlocks[j] = BuiltUnlock(j)
        BY <4>1 DEF Reading
      <4>3. j \in 1..k - 1
        BY <1>2, <4>1
      <4> QED
        BY <1>2, <2>2, <4>1, <4>2, <4>3
    <3>2. IsDirectUnlockable(OwnerAt(j)) /\ BuiltUnlock(j) = SignatureOf(j)
      BY <3>1, SignatureKind
    <3>3. KeyOf[OwnerAt(j)] = KeyOf[OwnerAt(k)]
      BY <2>1, <3>1, <3>2, SignatureFields
    <3>4. j \in SignedAt(k)
      BY <3>1, <3>2, <3>3 DEF SignedAt
    <3> QED
      BY <1>6, <3>4 DEF BySignature
  <2>3. u.key \notin seen.signers /\ seen.signersInMulti = {}
    BY <2>2 DEF Reading
  <2> QED
    BY <1>1, <2>1, <2>3 DEF U!UnlockOk, U!IsSignature, U!SignatureOk
<1> QED
  BY <1>1, <1>4, <1>5, <1>6, UnlockKinds

-----------------------------------------------------------------------------
(* The built transaction has the inputs of the builder and the unlocks of build. *)
LEMMA BuiltFacts ==
    ASSUME BuilderInv, Built
    PROVE  /\ tx.inputs = inputs /\ tx.commitment = commitment
           /\ DOMAIN tx.unlocks = DOMAIN inputs /\ Len(tx.unlocks) = Len(inputs)
           /\ \A k \in DOMAIN inputs : tx.unlocks[k] = BuiltUnlock(k)
<1>1. tx.inputs = inputs /\ tx.commitment = commitment /\ tx.unlocks = build(TRUE)
  <2>1. PICK b : b = build(TRUE)
    OBVIOUS
  <2>2. tx = Transaction(b)
    BY <2>1, Zenon DEF BuilderInv, TxIsBuilt
  <2> QED
    BY <2>1, <2>2 DEF Transaction
<1>2. build(TRUE) = [k \in DOMAIN inputs |-> BuiltUnlock(k)]
  BY DEF build, BuiltUnlock
<1>3. PICK n \in Nat : n = Len(inputs) /\ DOMAIN inputs = 1..n
  BY InputsDomain
<1>4. PICK t : t = tx.unlocks
  OBVIOUS
<1>5. DOMAIN t = 1..n /\ \A k \in 1..n : t[k] = BuiltUnlock(k)
  BY <1>1, <1>2, <1>3, <1>4
<1>6. \E S : t \in [1..n -> S]
  <2>1. t = [k \in 1..n |-> BuiltUnlock(k)]
    BY <1>1, <1>2, <1>3, <1>4
  <2>2. t \in [1..n -> {BuiltUnlock(k) : k \in 1..n}]
    BY <2>1, Zenon
  <2> QED
    BY <2>2
<1>7. PICK S : t \in [1..n -> S]
  BY <1>6
<1>8. t \in Seq(S)
  BY <1>7
<1>9. Len(t) = n
  BY <1>5, <1>8
<1> QED
  BY <1>1, <1>3, <1>4, <1>5, <1>9

(* Before the first unlock is read. *)
LEMMA VMInit ==
    ASSUME CompositeInit
    PROVE  VMInv
<1>1. /\ status = "syntactic" /\ unlocks = <<>> /\ resolved = <<>>
      /\ seen = U!NothingSeen /\ DOMAIN unlocked = {} /\ inputs = <<>>
  BY DEF CompositeInit, Init, U!Init, U!Nothing
<1>2. Reading
  BY <1>1 DEF Reading, U!NothingSeen
<1>3. Resolving
  BY <1>1 DEF Resolving
<1> QED
  BY <1>1, <1>2, <1>3 DEF VMInv

(* While there is no transaction the validators have not begun. *)
LEMMA IdleKeeps ==
    ASSUME VMInv, BuilderInv', ~Built, UNCHANGED vmVars
    PROVE  VMInv'
<1>1. UNCHANGED <<status, unlocks, resolved, seen, unlocked>>
  BY DEF vmVars
<1>2. status = "syntactic" /\ unlocks = <<>> /\ resolved = <<>> /\ DOMAIN unlocked = {}
  BY DEF VMInv, Resolving
<1>3. DOMAIN unlocks = {} /\ Len(unlocks) = 0 /\ unlocks \in Seq({})
  BY <1>2
<1>4. /\ seen.signatures = {} /\ seen.referentials = {} /\ seen.signers = {}
      /\ seen.multis = {} /\ seen.signersInMulti = {} /\ seen.multiBytes = {}
  BY <1>3 DEF VMInv, Reading
<1>5. Len(inputs') \in Nat
  BY DEF BuilderInv, PartsOk
<1>6. Reading'
  BY <1>1, <1>3, <1>4, <1>5 DEF Reading
<1>7. Resolving'
  BY <1>1, <1>2, <1>3, <1>5 DEF Resolving
<1> QED
  BY <1>1, <1>2, <1>6, <1>7 DEF VMInv

(* The virtual machine's view of the caller's choices. *)
LEMMA CallerStays ==
    ASSUME UNCHANGED <<tx, vmCommitment>>
    PROVE  CallerIsRight' <=> CallerIsRight
<1>1. \A o : U!CanBeUnlocked(o)' <=> U!CanBeUnlocked(o)
  BY DEF U!CanBeUnlocked, U!HasOwner, U!HasExpiration, U!ReturnAddressCanUnlock, U!OwnerAddressCanUnlock
<1>2. \A o : U!OwnerOf(o)' = U!OwnerOf(o)
  BY DEF U!OwnerOf, U!HasExpiration, U!ReturnAddressCanUnlock
<1>3. RightTargets' <=> RightTargets
  BY <1>1, <1>2 DEF RightTargets
<1>4. OwnedByGovernedAnchor' <=> OwnedByGovernedAnchor
  BY DEF OwnedByGovernedAnchor
<1> QED
  BY <1>3, <1>4 DEF CallerIsRight

(* Steps of the block builder are none of the validators'. *)
LEMMA SteadyKeeps ==
    ASSUME VMInv, UNCHANGED vars, UNCHANGED vmVars
    PROVE  VMInv'
<1>1. /\ UNCHANGED <<wallet, inputs, tx>>
      /\ UNCHANGED <<status, unlocks, resolved, vmCommitment, seen, unlocked, sigUnlocked>>
  BY DEF vars, essence, vmVars
<1>2. \A k : BuiltUnlock(k)' = BuiltUnlock(k) /\ OwnerAt(k)' = OwnerAt(k)
  BY <1>1, UnlocksStay DEF BuiltUnlock
<1>3. Reading'
  BY <1>1, <1>2 DEF VMInv, Reading
<1>4. Resolving'
  BY <1>1 DEF VMInv, Resolving, Built
<1>5. Unlocking => Unlocking'
  BY <1>1, <1>2 DEF Unlocking, SignersUnlocked, ChainsUnlocked, DirectsAreOwners, HaveIndices
<1> QED
  BY <1>1, <1>3, <1>4, <1>5, CallerStays DEF VMInv

(* The syntactic validator reads an unlock. *)
LEMMA ReadKeeps ==
    ASSUME BuilderInv, VMInv, ReadUnlock
    PROVE  VMInv'
<1>1. PICK k : k = Len(unlocks) + 1
  OBVIOUS
<1>2. PICK u : u = BuiltUnlock(k)
  OBVIOUS
<1>3. Built /\ Len(unlocks) < Len(inputs)
  BY BuiltFacts DEF ReadUnlock
<1>4. Len(unlocks) \in Nat /\ DOMAIN unlocks = 1..Len(unlocks)
  BY ReadingDomain DEF VMInv
<1>5. k \in DOMAIN inputs
  BY <1>1, <1>3, <1>4, InputsDomain
<1>6. U!ValidateUnlock(u) /\ UNCHANGED vars
  BY <1>1, <1>2, <1>3, <1>5, BuiltFacts DEF ReadUnlock
<1>7. U!UnlockOk(u)
  BY <1>1, <1>2, <1>3, <1>5, NextUnlockOk DEF VMInv
<1>8. /\ unlocks' = Append(unlocks, u) /\ seen' = U!Recorded(u, k) /\ status = "syntactic"
      /\ UNCHANGED <<status, resolved, vmCommitment, unlocked, sigUnlocked>>
  BY <1>1, <1>6, <1>7 DEF U!ValidateUnlock
<1>9. UNCHANGED <<inputs, wallet, tx>>
  BY <1>6 DEF vars, essence
<1>10. \A j : BuiltUnlock(j)' = BuiltUnlock(j)
  BY <1>9, UnlocksStay DEF BuiltUnlock
<1>11. PICK S : unlocks \in Seq(S)
  BY DEF VMInv, Reading
<1>12. unlocks \in Seq(S \cup {u})
  BY <1>11
<1>13. /\ unlocks' \in Seq(S \cup {u}) /\ Len(unlocks') = k /\ DOMAIN unlocks' = DOMAIN unlocks \cup {k}
       /\ k \notin DOMAIN unlocks /\ unlocks'[k] = u /\ \A j \in DOMAIN unlocks : unlocks'[j] = unlocks[j]
  BY <1>1, <1>4, <1>8, <1>12
<1>14. u.type = "Signature" \/ U!IsReferential(u)
  <2>1. CASE ByChain(k, u)
    BY <2>1 DEF ByChain, IsChainAddress, U!IsReferential, U!ChainTypes
  <2>2. CASE ByReference(k, u)
    BY <2>2 DEF ByReference, U!IsReferential
  <2>3. CASE BySignature(k, u)
    BY <2>3, SignatureFields DEF BySignature
  <2> QED
    BY <1>2, <1>3, <1>5, <2>1, <2>2, <2>3, UnlockKinds
<1>15. U!IsReferential(u) => u.type # "Signature" /\ u.type # "Multi"
  BY DEF U!IsReferential, U!ChainTypes
<1>16. seen'.signatures = {j \in DOMAIN unlocks' : unlocks'[j].type = "Signature"}
  <2>1. seen'.signatures = seen.signatures \cup {x \in {k} : u.type = "Signature"}
    BY <1>8 DEF U!Recorded, U!IsSignature
  <2> QED
    BY <1>13, <2>1 DEF VMInv, Reading
<1>17. seen'.referentials = {j \in DOMAIN unlocks' : unlocks'[j].type # "Signature"}
  <2>1. seen'.referentials = seen.referentials \cup {x \in {k} : u.type # "Signature"}
    BY <1>8, <1>14, <1>15 DEF U!Recorded
  <2> QED
    BY <1>13, <2>1 DEF VMInv, Reading
<1>18. seen'.signers = {unlocks'[j].key : j \in seen'.signatures}
  <2>1. seen'.signatures = seen.signatures \cup {x \in {k} : u.type = "Signature"}
    BY <1>8 DEF U!Recorded, U!IsSignature
  <2>2. seen'.signers = seen.signers \cup (IF u.type = "Signature" THEN {u.key} ELSE {})
    BY <1>8 DEF U!Recorded, U!IsSignature
  <2>3. seen.signers = {unlocks[j].key : j \in seen.signatures} /\ seen.signatures \subseteq DOMAIN unlocks
    BY DEF VMInv, Reading
  <2>4. seen.signers = {unlocks'[j].key : j \in seen.signatures}
    BY <1>13, <2>3
  <2>5. CASE u.type = "Signature"
    <3>1. seen'.signatures = seen.signatures \cup {k} /\ seen'.signers = seen.signers \cup {unlocks'[k].key}
      BY <1>13, <2>1, <2>2, <2>5
    <3> QED
      BY <2>4, <3>1
  <2>6. CASE u.type # "Signature"
    <3>1. seen'.signatures = seen.signatures /\ seen'.signers = seen.signers
      BY <2>1, <2>2, <2>6
    <3> QED
      BY <2>4, <3>1
  <2> QED
    BY <2>5, <2>6
<1>19. seen'.multis = {} /\ seen'.signersInMulti = {} /\ seen'.multiBytes = {}
  BY <1>8, <1>14, <1>15 DEF U!Recorded, VMInv, Reading
<1>20. Len(unlocks') <= Len(inputs') /\ \A j \in DOMAIN unlocks' : unlocks'[j] = BuiltUnlock(j)'
  BY <1>1, <1>2, <1>3, <1>4, <1>9, <1>10, <1>13, InputsDomain DEF VMInv, Reading
<1>21. Reading'
  BY <1>13, <1>16, <1>17, <1>18, <1>19, <1>20 DEF Reading
<1>22. Resolving'
  BY <1>3, <1>8, <1>9 DEF VMInv, Resolving, Built
<1> QED
  BY <1>8, <1>21, <1>22 DEF VMInv

(* The transaction goes to the virtual machine. *)
LEMMA StartKeeps ==
    ASSUME BuilderInv, VMInv, StartVM
    PROVE  VMInv'
<1>1. /\ status = "syntactic" /\ status' = "semantic" /\ Built /\ Len(unlocks) = Len(inputs)
      /\ UNCHANGED <<unlocks, resolved, seen, unlocked, sigUnlocked>> /\ UNCHANGED vars
  BY BuiltFacts DEF StartVM, U!SyntacticallyValid
<1>2. UNCHANGED <<inputs, wallet, tx>>
  BY <1>1 DEF vars, essence
<1>3. \A k : BuiltUnlock(k)' = BuiltUnlock(k)
  BY <1>2, UnlocksStay DEF BuiltUnlock
<1>4. Reading'
  BY <1>1, <1>2, <1>3 DEF VMInv, Reading
<1>5. Resolving'
  BY <1>1, <1>2 DEF VMInv, Resolving, Built
<1>6. DOMAIN resolved' = {} /\ DOMAIN unlocked' = {}
  BY <1>1 DEF VMInv, Resolving
<1>7. Unlocking'
  BY <1>6 DEF Unlocking, SignersUnlocked, ChainsUnlocked, DirectsAreOwners, HaveIndices
<1> QED
  BY <1>1, <1>4, <1>5, <1>7 DEF VMInv

-----------------------------------------------------------------------------
(* The virtual machine at the input i, with what it knows by then. *)
AtInput(i) ==
    /\ BuilderInv /\ Built /\ Reading /\ Resolving /\ Unlocking /\ CallerIsRight
    /\ status = "semantic" /\ i \in DOMAIN inputs /\ i = Len(resolved) + 1

(* An account, anchor or NFT that is consumed has an address of its own. *)
LEMMA ConsumedChain ==
    ASSUME NEW x \in Consumed, x.type \in U!ChainTypes
    PROVE  AddressType[x.chain] = x.type /\ IsChainAddress(x.chain) /\ x.chain # U!NoChain
<1>1. PICK i \in Held, a \in Target : x = WithTarget(i, a)
  BY DEF Consumed
<1>2. IsHeld(i)
  BY WalletAssumption DEF Held
<1>3. x.type = i.type /\ x.chain = i.chain
  BY <1>1, <1>2 DEF WithTarget, IsHeld
<1> QED
  BY <1>2, <1>3, WalletAssumption DEF IsHeld, IsChainAddress, U!ChainTypes

(* What the invariants say of the input that comes next. *)
LEMMA AtInputFacts ==
    ASSUME NEW i, AtInput(i)
    PROVE  /\ i \in Nat /\ Len(inputs) \in Nat /\ DOMAIN inputs = 1..Len(inputs) /\ DOMAIN unlocks = DOMAIN inputs
           /\ DOMAIN resolved = 1..i - 1 /\ unlocks[i] = BuiltUnlock(i)
           /\ inputs[i] \in Consumed
           /\ U!CanBeUnlocked(inputs[i]) /\ U!OwnerOf(inputs[i]) = OwnerAt(i)
<1>1. Len(inputs) \in Nat /\ DOMAIN inputs = 1..Len(inputs)
  BY InputsDomain DEF AtInput
<1>2. DOMAIN unlocks = DOMAIN inputs
  BY <1>1, ReadingDomain DEF AtInput, Resolving
<1>3. DOMAIN resolved = 1..i - 1 /\ i \in Nat
  BY <1>1 DEF AtInput, Resolving
<1>4. unlocks[i] = BuiltUnlock(i)
  BY <1>2 DEF AtInput, Reading
<1>5. inputs[i] \in Consumed
  BY <1>1 DEF AtInput, BuilderInv, PartsOk
<1>6. U!CanBeUnlocked(inputs[i]) /\ U!OwnerOf(inputs[i]) = OwnerAt(i)
  BY BuiltFacts DEF AtInput, CallerIsRight, RightTargets, OwnerAt
<1> QED
  BY <1>1, <1>2, <1>3, <1>4, <1>5, <1>6

(* An input that build lets unlock a chain does so in the virtual machine. *)
LEMMA ChainIsUnlocked ==
    ASSUME NEW i, AtInput(i), NEW m \in 1..i - 1, addsChain(inputs[m], OwnerAt(i))
    PROVE  OwnerAt(i) \in DOMAIN unlocked /\ unlocked[OwnerAt(i)].at = m
<1>1. m \in DOMAIN resolved /\ m \in DOMAIN inputs
  BY AtInputFacts DEF AtInput
<1>2. resolved[m] = inputs[m]
  BY <1>1 DEF AtInput, Resolving
<1>3. inputs[m].type \in U!ChainTypes /\ inputs[m].chain = OwnerAt(i)
  BY DEF addsChain, U!ChainTypes
<1>4. inputs[m].type = "Anchor" => inputs[m].delta = "state"
  <2>1. tx.inputs = inputs
    BY BuiltFacts DEF AtInput
  <2> QED
    BY <1>1, <1>3, <2>1 DEF AtInput, CallerIsRight, OwnedByGovernedAnchor, OwnerAt
<1>5. U!UnlocksChain(resolved[m])
  BY <1>2, <1>3, <1>4 DEF U!UnlocksChain
<1> QED
  BY <1>1, <1>2, <1>3, <1>5 DEF AtInput, Unlocking, ChainsUnlocked

(* A signature that build refers to is known to the virtual machine. *)
LEMMA SignerIsUnlocked ==
    ASSUME NEW i, AtInput(i), NEW m \in SignedAt(i), BuiltUnlock(m) = SignatureOf(i)
    PROVE  /\ m \in DOMAIN sigUnlocked /\ sigUnlocked[m] = [addr |-> OwnerAt(m), key |-> KeyOf[OwnerAt(i)]]
           /\ OwnerAt(m) \in DOMAIN unlocked /\ unlocked[OwnerAt(m)].at = m
<1>1. m \in 1..i - 1 /\ KeyOf[OwnerAt(m)] = KeyOf[OwnerAt(i)]
  BY DEF SignedAt
<1>2. m \in DOMAIN resolved /\ m \in DOMAIN unlocks
  BY <1>1, AtInputFacts DEF AtInput
<1>3. unlocks[m] = BuiltUnlock(m)
  BY <1>2 DEF AtInput, Reading
<1>4. unlocks[m].type = "Signature"
  BY <1>3, SignatureFields
<1> QED
  BY <1>1, <1>2, <1>4 DEF AtInput, Unlocking, SignersUnlocked

(* An input that build signs has an owner that is not unlocked yet. *)
LEMMA SignatureIsNew ==
    ASSUME NEW i, AtInput(i), IsDirectUnlockable(OwnerAt(i)), SignedAt(i) = {}
    PROVE  OwnerAt(i) \notin DOMAIN unlocked
<1> SUFFICES ASSUME OwnerAt(i) \in DOMAIN unlocked PROVE FALSE
  OBVIOUS
<1>1. PICK j \in DOMAIN resolved : OwnerAt(j) = OwnerAt(i)
  BY DEF AtInput, Unlocking, DirectsAreOwners
<1>2. j \in 1..i - 1
  BY AtInputFacts
<1>3. j \in SignedAt(i)
  BY <1>1, <1>2 DEF SignedAt
<1> QED
  BY <1>3

(* The virtual machine accepts the unlock of the input. *)
LEMMA NextInputOk ==
    ASSUME NEW i, AtInput(i)
    PROVE  U!UnlockAddressOk(OwnerAt(i), unlocks[i])
<1>1. PICK a : a = OwnerAt(i)
  OBVIOUS
<1>2. PICK u : u = unlocks[i]
  OBVIOUS
<1>3. u = BuiltUnlock(i)
  BY <1>2, AtInputFacts
<1>4. CASE ByChain(i, u)
  <2>1. PICK m \in 1..i - 1 : u = [type |-> AddressType[a], ref |-> m] /\ addsChain(inputs[m], a)
    BY <1>1, <1>4 DEF ByChain
  <2>2. a \in DOMAIN unlocked /\ unlocked[a].at = m
    BY <1>1, <2>1, ChainIsUnlocked
  <2>3. AddressType[a] \in U!ChainTypes
    BY <1>1, <1>4 DEF ByChain, IsChainAddress, U!ChainTypes
  <2>4. u.type = AddressType[a] /\ u.ref = m
    BY <2>1
  <2>5. U!NonDirectReferenceOk(a, u)
    BY <2>2, <2>4 DEF U!NonDirectReferenceOk
  <2>6. U!IsChain(a) /\ ~U!IsMulti(a) /\ U!IsReferential(u) /\ U!Chainable(u)
    BY <2>3, <2>4 DEF U!IsChain, U!IsMulti, U!IsReferential, U!Chainable, U!ChainTypes
  <2>7. U!SourceAllowed(u, a)
    BY <2>3, <2>4 DEF U!SourceAllowed, U!ChainTypes
  <2> QED
    BY <1>1, <1>2, <2>5, <2>6, <2>7 DEF U!UnlockAddressOk, U!CheckUnlock
<1>5. ASSUME IsDirectUnlockable(a) PROVE U!IsDirect(a) /\ ~U!IsChain(a) /\ ~U!IsMulti(a)
  BY <1>5 DEF IsDirectUnlockable, U!IsDirect, U!IsChain, U!IsMulti, U!DirectTypes, U!ChainTypes
<1>6. CASE ByReference(i, u)
  <2>1. PICK m \in SignedAt(i) : u = [type |-> "Reference", ref |-> m] /\ BuiltUnlock(m) = SignatureOf(i)
    BY <1>6 DEF ByReference
  <2>2. /\ m \in DOMAIN sigUnlocked /\ sigUnlocked[m] = [addr |-> OwnerAt(m), key |-> KeyOf[a]]
        /\ OwnerAt(m) \in DOMAIN unlocked /\ unlocked[OwnerAt(m)].at = m
    BY <1>1, <2>1, SignerIsUnlocked
  <2>3. U!IsDirect(a) /\ ~U!IsChain(a) /\ ~U!IsMulti(a)
    BY <1>1, <1>5, <1>6 DEF ByReference
  <2>4. u.type = "Reference" /\ u.ref = m
    BY <2>1
  <2>5. U!DirectReferenceOk(a, u)
    BY <2>2, <2>3, <2>4 DEF U!DirectReferenceOk, U!MatchesAddress
  <2>6. U!IsReferential(u) /\ ~U!Chainable(u) /\ U!SourceAllowed(u, a)
    BY <2>3, <2>4 DEF U!IsReferential, U!Chainable, U!SourceAllowed, U!ChainTypes
  <2> QED
    BY <1>1, <1>2, <2>3, <2>5, <2>6 DEF U!UnlockAddressOk, U!CheckUnlock
<1>7. CASE BySignature(i, u)
  <2>1. u.type = "Signature" /\ u.key = KeyOf[a] /\ u.valid
    BY <1>1, <1>7, SignatureFields DEF BySignature
  <2>2. U!IsDirect(a) /\ ~U!IsChain(a) /\ ~U!IsMulti(a)
    BY <1>1, <1>5, <1>7 DEF BySignature
  <2>3. a \notin DOMAIN unlocked
    BY <1>1, <1>7, SignatureIsNew DEF BySignature
  <2>4. U!SignatureValid(a, u) /\ U!IsSignature(u)
    BY <2>1, <2>2, <2>3 DEF U!SignatureValid, U!IsSignature, U!MatchesAddress
  <2> QED
    BY <1>1, <1>2, <2>2, <2>4 DEF U!UnlockAddressOk, U!CheckUnlock
<1> QED
  BY <1>3, <1>4, <1>6, <1>7, UnlockKinds DEF AtInput

(* What unlocking the owner of an input leaves of the map: the entries     *)
(* that were there keep their index, and a signature adds one.             *)
Booked(f, a, u, i) ==
    /\ DOMAIN unlocked \subseteq DOMAIN f /\ DOMAIN f \subseteq DOMAIN unlocked \cup {a}
    /\ \A x \in DOMAIN unlocked : f[x].at = unlocked[x].at
    /\ HaveIndices(f)
    /\ u.type = "Signature" => a \in DOMAIN f /\ f[a].at = i

(* Booking a reference changes no index. *)
LEMMA ReferenceBooked ==
    ASSUME HaveIndices(unlocked), NEW x \in DOMAIN unlocked, NEW i,
           NEW f, f = U!AddReference(unlocked, x, i)
    PROVE  DOMAIN f = DOMAIN unlocked /\ (\A y \in DOMAIN f : f[y].at = unlocked[y].at) /\ HaveIndices(f)
  BY DEF U!AddReference, HaveIndices

(* Unlocking the owner of the next input, for each kind of unlock. *)
LEMMA AddressBooked ==
    ASSUME NEW i, AtInput(i)
    PROVE  Booked(U!UnlockAddress(OwnerAt(i), unlocks[i], i), OwnerAt(i), unlocks[i], i)
<1>1. PICK a : a = OwnerAt(i)
  OBVIOUS
<1>2. PICK u : u = unlocks[i]
  OBVIOUS
<1>3. PICK f : f = U!UnlockAddress(a, u, i)
  OBVIOUS
<1>4. u = BuiltUnlock(i) /\ HaveIndices(unlocked)
  BY <1>2, AtInputFacts DEF AtInput, Unlocking
<1>5. CASE ByChain(i, u)
  <2>1. PICK m \in 1..i - 1 : u = [type |-> AddressType[a], ref |-> m] /\ addsChain(inputs[m], a)
    BY <1>1, <1>5 DEF ByChain
  <2>2. a \in DOMAIN unlocked
    BY <1>1, <2>1, ChainIsUnlocked
  <2>3. u.type \in U!ChainTypes /\ ~U!IsDirect(a)
    BY <1>1, <1>5, <2>1 DEF ByChain, IsChainAddress, U!ChainTypes, U!IsDirect, U!DirectTypes
  <2>4. f = U!AddReference(unlocked, a, i) /\ u.type # "Signature"
    BY <1>3, <2>3 DEF U!UnlockAddress, U!IsReferential, U!ChainTypes
  <2> QED
    BY <1>1, <1>2, <1>3, <1>4, <2>2, <2>4, ReferenceBooked DEF Booked
<1>6. CASE ByReference(i, u)
  <2>1. PICK m \in SignedAt(i) : u = [type |-> "Reference", ref |-> m] /\ BuiltUnlock(m) = SignatureOf(i)
    BY <1>6 DEF ByReference
  <2>2. sigUnlocked[m].addr = OwnerAt(m) /\ OwnerAt(m) \in DOMAIN unlocked
    <3>1. sigUnlocked[m] = [addr |-> OwnerAt(m), key |-> KeyOf[OwnerAt(i)]] /\ OwnerAt(m) \in DOMAIN unlocked
      BY <2>1, SignerIsUnlocked
    <3> QED
      BY <3>1
  <2>3. U!IsDirect(a)
    BY <1>1, <1>6 DEF ByReference, IsDirectUnlockable, U!IsDirect, U!DirectTypes
  <2>4. PICK g : g = U!AddReference(unlocked, OwnerAt(m), i)
    OBVIOUS
  <2>5. DOMAIN g = DOMAIN unlocked /\ (\A y \in DOMAIN g : g[y].at = unlocked[y].at) /\ HaveIndices(g)
    BY <1>4, <2>2, <2>4, ReferenceBooked
  <2>6. f = IF a \in DOMAIN unlocked THEN g ELSE U!Upd(g, a, U!Entry(i))
    BY <1>3, <2>1, <2>2, <2>3, <2>4 DEF U!UnlockAddress, U!IsReferential
  <2>7. u.type # "Signature"
    BY <2>1
  <2>8. CASE a \in DOMAIN unlocked
    BY <1>1, <1>2, <1>3, <2>5, <2>6, <2>7, <2>8 DEF Booked
  <2>9. CASE a \notin DOMAIN unlocked
    <3>1. /\ DOMAIN f = DOMAIN g \cup {a} /\ HaveIndices(f)
          /\ \A y \in DOMAIN g : y # a => f[y] = g[y]
      <4>1. f = U!Upd(g, a, U!Entry(i))
        BY <2>6, <2>9
      <4> QED
        BY <2>5, <4>1 DEF U!Upd, U!Entry, HaveIndices
    <3> QED
      BY <1>1, <1>2, <1>3, <2>5, <2>7, <2>9, <3>1 DEF Booked
  <2> QED
    BY <2>8, <2>9
<1>7. CASE BySignature(i, u)
  <2>1. u.type = "Signature"
    BY <1>7, SignatureFields DEF BySignature
  <2>2. a \notin DOMAIN unlocked
    BY <1>1, <1>7, SignatureIsNew DEF BySignature
  <2>3. f = U!Upd(unlocked, a, U!Entry(i))
    BY <1>3, <2>1 DEF U!UnlockAddress, U!IsReferential, U!ChainTypes
  <2>4. /\ DOMAIN f = DOMAIN unlocked \cup {a} /\ f[a].at = i /\ HaveIndices(f)
        /\ \A y \in DOMAIN unlocked : y # a => f[y] = unlocked[y]
    BY <1>4, <2>3 DEF U!Upd, U!Entry, HaveIndices
  <2> QED
    BY <1>1, <1>2, <1>3, <2>2, <2>4 DEF Booked
<1> QED
  BY <1>4, <1>5, <1>6, <1>7, UnlockKinds DEF AtInput

(* What the virtual machine knows after an input that it accepted. *)
LEMMA AcceptedKeeps ==
    ASSUME NEW i, AtInput(i), NEW o, o = inputs[i], U!NextInput(o),
           NEW f, f = U!UnlockAddress(OwnerAt(i), unlocks[i], i),
           resolved' = Append(resolved, o), unlocked' = U!AddUnlockedChain(f, o, i),
           sigUnlocked' = (IF U!IsSignature(unlocks[i])
                           THEN U!Upd(sigUnlocked, i, [addr |-> OwnerAt(i), key |-> unlocks[i].key])
                           ELSE sigUnlocked),
           UNCHANGED <<unlocks, inputs, wallet>>
    PROVE  Unlocking'
<1>1. Booked(f, OwnerAt(i), unlocks[i], i)
  BY AddressBooked
<1>2. /\ i \in Nat /\ DOMAIN resolved = 1..i - 1 /\ unlocks[i] = BuiltUnlock(i) /\ o \in Consumed
      /\ i \in DOMAIN inputs /\ DOMAIN unlocks = DOMAIN inputs
  BY AtInputFacts DEF AtInput
<1>3. resolved \in Seq(Consumed) /\ Len(resolved) = i - 1 /\ \A k \in DOMAIN resolved : resolved[k] = inputs[k]
  BY <1>2 DEF AtInput, Resolving
<1>4. /\ DOMAIN resolved' = DOMAIN resolved \cup {i} /\ resolved'[i] = o /\ i \notin DOMAIN resolved
      /\ \A k \in DOMAIN resolved : resolved'[k] = resolved[k]
  BY <1>2, <1>3
<1>5. \A k : OwnerAt(k)' = OwnerAt(k)
  BY UnlocksStay
(* The entries of the map after the step. *)
<1>6. /\ DOMAIN f \subseteq DOMAIN unlocked' /\ HaveIndices(unlocked')
      /\ \A x \in DOMAIN f : ~(U!UnlocksChain(o) /\ x = o.chain) => unlocked'[x] = f[x]
      /\ DOMAIN unlocked' \subseteq DOMAIN f \cup {x \in {o.chain} : U!UnlocksChain(o)}
  <2>1. HaveIndices(f)
    BY <1>1 DEF Booked
  <2>2. CASE U!UnlocksChain(o)
    <3>1. unlocked' = U!Upd(f, o.chain, U!Entry(i))
      BY <2>2 DEF U!AddUnlockedChain
    <3> QED
      BY <2>1, <2>2, <3>1 DEF U!Upd, U!Entry, HaveIndices
  <2>3. CASE ~U!UnlocksChain(o)
    <3>1. unlocked' = f
      BY <2>3 DEF U!AddUnlockedChain
    <3> QED
      BY <2>1, <2>3, <3>1
  <2> QED
    BY <2>2, <2>3
<1>7. U!UnlocksChain(o) => IsChainAddress(o.chain) /\ o.chain # U!NoChain
  BY <1>2, ConsumedChain DEF U!UnlocksChain
<1>8. \A x : IsDirectUnlockable(x) => ~(U!UnlocksChain(o) /\ x = o.chain)
  BY <1>7, DirectIsNoChain
<1>9. \A k \in DOMAIN sigUnlocked : k # i => k \in DOMAIN sigUnlocked' /\ sigUnlocked'[k] = sigUnlocked[k]
  BY DEF U!Upd
<1>10. SignersUnlocked'
  <2> SUFFICES ASSUME NEW k \in DOMAIN resolved', unlocks[k].type = "Signature"
               PROVE  /\ k \in DOMAIN sigUnlocked'
                      /\ sigUnlocked'[k] = [addr |-> OwnerAt(k), key |-> KeyOf[OwnerAt(k)]]
                      /\ OwnerAt(k) \in DOMAIN unlocked' /\ unlocked'[OwnerAt(k)].at = k
    BY <1>5 DEF SignersUnlocked
  <2>1. k \in DOMAIN inputs /\ unlocks[k] = BuiltUnlock(k)
    BY <1>2, <1>4, AtInputFacts DEF AtInput, Reading
  <2>2. IsDirectUnlockable(OwnerAt(k)) /\ unlocks[k] = SignatureOf(k)
    <3>1. BuiltUnlock(k).type = "Signature"
      BY <2>1
    <3> QED
      BY <2>1, <3>1, SignatureKind DEF AtInput
  <2>3. CASE k = i
    <3>1. OwnerAt(k) \in DOMAIN f /\ f[OwnerAt(k)].at = i
      BY <1>1, <2>3 DEF Booked
    <3>2. unlocks[k].key = KeyOf[OwnerAt(k)]
      BY <2>2, SignatureFields
    <3>3. sigUnlocked' = U!Upd(sigUnlocked, i, [addr |-> OwnerAt(i), key |-> KeyOf[OwnerAt(i)]])
      BY <2>3, <3>2 DEF U!IsSignature
    <3>4. k \in DOMAIN sigUnlocked' /\ sigUnlocked'[k] = [addr |-> OwnerAt(k), key |-> KeyOf[OwnerAt(k)]]
      BY <2>3, <3>3 DEF U!Upd
    <3> QED
      BY <1>6, <1>8, <2>2, <2>3, <3>1, <3>4
  <2>4. CASE k # i
    <3>1. k \in DOMAIN resolved
      BY <1>4, <2>4
    <3>2. /\ k \in DOMAIN sigUnlocked /\ sigUnlocked[k] = [addr |-> OwnerAt(k), key |-> KeyOf[OwnerAt(k)]]
          /\ OwnerAt(k) \in DOMAIN unlocked /\ unlocked[OwnerAt(k)].at = k
      BY <3>1 DEF AtInput, Unlocking, SignersUnlocked
    <3>3. OwnerAt(k) \in DOMAIN f /\ f[OwnerAt(k)].at = k
      BY <1>1, <3>2 DEF Booked
    <3> QED
      BY <1>6, <1>8, <1>9, <2>2, <2>4, <3>2, <3>3
  <2> QED
    BY <2>3, <2>4
<1>11. ChainsUnlocked'
  <2> SUFFICES ASSUME NEW k \in DOMAIN resolved', U!UnlocksChain(resolved'[k])
               PROVE  resolved'[k].chain \in DOMAIN unlocked' /\ unlocked'[resolved'[k].chain].at = k
    BY DEF ChainsUnlocked, U!UnlocksChain
  <2>1. CASE k = i
    <3>1. unlocked' = U!Upd(f, o.chain, U!Entry(i)) /\ resolved'[k] = o
      BY <1>4, <2>1 DEF U!AddUnlockedChain
    <3> QED
      BY <2>1, <3>1 DEF U!Upd, U!Entry
  <2>2. CASE k # i
    <3>1. k \in DOMAIN resolved /\ resolved'[k] = resolved[k]
      BY <1>4, <2>2
    <3>2. PICK c : c = resolved[k].chain
      OBVIOUS
    <3>3. c \in DOMAIN unlocked /\ unlocked[c].at = k
      BY <3>1, <3>2 DEF AtInput, Unlocking, ChainsUnlocked
    <3>4. c \in DOMAIN f /\ f[c].at = k
      BY <1>1, <3>3 DEF Booked
    <3>5. U!UnlocksChain(o) => c # o.chain
      BY <1>7, <3>1, <3>2 DEF U!NextInput
    <3> QED
      BY <1>6, <3>1, <3>2, <3>4, <3>5
  <2> QED
    BY <2>1, <2>2
<1>12. DirectsAreOwners'
  <2> SUFFICES ASSUME NEW x \in DOMAIN unlocked', IsDirectUnlockable(x)
               PROVE  \E k \in DOMAIN resolved' : OwnerAt(k) = x
    BY <1>5 DEF DirectsAreOwners, IsDirectUnlockable
  <2>1. x \in DOMAIN f
    BY <1>6, <1>8
  <2>2. x \in DOMAIN unlocked \/ x = OwnerAt(i)
    BY <1>1, <2>1 DEF Booked
  <2>3. CASE x = OwnerAt(i)
    BY <1>4, <2>3
  <2>4. CASE x \in DOMAIN unlocked
    BY <1>4, <2>4 DEF AtInput, Unlocking, DirectsAreOwners
  <2> QED
    BY <2>2, <2>3, <2>4
<1>13. HaveIndices(unlocked)'
  BY <1>6 DEF HaveIndices
<1> QED
  BY <1>10, <1>11, <1>12, <1>13 DEF Unlocking

(* The virtual machine resolves an input. *)
LEMMA ResolveKeeps ==
    ASSUME BuilderInv, VMInv, ResolveInput
    PROVE  VMInv'
<1>1. PICK i : i = Len(resolved) + 1
  OBVIOUS
<1>2. PICK o : o = tx.inputs[i]
  OBVIOUS
<1>3. status = "semantic" /\ (U!unlockOutput(o) \/ U!RefuseInput(o)) /\ UNCHANGED vars
  BY <1>1, <1>2 DEF ResolveInput
<1>4. Built /\ Reading /\ Resolving
  BY <1>3 DEF VMInv, Resolving
<1>5. U!NextInput(o)
  BY <1>3 DEF U!unlockOutput, U!RefuseInput
<1>6. i \in DOMAIN inputs /\ o = inputs[i] /\ tx.inputs = inputs
  <2>1. Len(resolved) \in Nat /\ Len(resolved) < Len(inputs)
    BY <1>3, <1>4, <1>5 DEF Resolving, U!NextInput
  <2>2. Len(inputs) \in Nat /\ DOMAIN inputs = 1..Len(inputs)
    BY InputsDomain
  <2>3. i \in DOMAIN inputs
    BY <1>1, <2>1, <2>2
  <2> QED
    BY <1>2, <1>4, <2>3, BuiltFacts
<1>7. UNCHANGED <<inputs, wallet, tx, unlocks, seen, vmCommitment>>
  BY <1>3 DEF vars, essence, U!unlockOutput, U!RefuseInput
<1>8. \A k : BuiltUnlock(k)' = BuiltUnlock(k)
  BY <1>7, UnlocksStay DEF BuiltUnlock
<1>9. Reading'
  BY <1>4, <1>7, <1>8 DEF Reading
<1>10. CallerIsRight' <=> CallerIsRight
  BY <1>7, CallerStays
<1>11. CallerIsRight => AtInput(i)
  BY <1>1, <1>3, <1>4, <1>6 DEF VMInv, AtInput
<1>12. CASE U!RefuseInput(o)
  <2>1. status' = "rejected" /\ UNCHANGED <<resolved, unlocked>>
    BY <1>12 DEF U!RefuseInput
  <2>2. Resolving'
    BY <1>3, <1>4, <1>7, <2>1 DEF Resolving, Built
  <2>3. ~CallerIsRight
    <3> SUFFICES ASSUME CallerIsRight PROVE FALSE
      OBVIOUS
    <3>1. AtInput(i)
      BY <1>11
    <3>2. U!CanBeUnlocked(o) /\ U!OwnerOf(o) = OwnerAt(i)
      BY <1>6, <3>1, AtInputFacts
    <3>3. U!UnlockAddressOk(OwnerAt(i), unlocks[i])
      BY <3>1, NextInputOk
    <3> QED
      BY <1>1, <1>12, <3>2, <3>3 DEF U!RefuseInput
  <2> QED
    BY <1>9, <1>10, <2>2, <2>3 DEF VMInv
<1>13. CASE U!unlockOutput(o)
  <2>1. /\ resolved' = Append(resolved, o) /\ status' \in {"semantic", "accepted"}
        /\ unlocked' = U!AddUnlockedChain(U!UnlockAddress(U!OwnerOf(o), unlocks[i], i), o, i)
        /\ sigUnlocked' = (IF U!IsSignature(unlocks[i])
                           THEN U!Upd(sigUnlocked, i, [addr |-> U!OwnerOf(o), key |-> unlocks[i].key])
                           ELSE sigUnlocked)
    BY <1>1, <1>13 DEF U!unlockOutput
  <2>2. Resolving'
    <3>1. Len(inputs) \in Nat /\ DOMAIN inputs = 1..Len(inputs) /\ resolved \in Seq(Consumed)
      BY <1>4, InputsDomain DEF Resolving
    <3>2. o \in Consumed
      BY <1>6 DEF BuilderInv, PartsOk
    <3>3. resolved' \in Seq(Consumed) /\ Len(resolved') = i /\ i <= Len(inputs)
      BY <1>1, <1>6, <2>1, <3>1, <3>2
    <3>4. \A k \in DOMAIN resolved' : resolved'[k] = inputs'[k]
      BY <1>1, <1>4, <1>6, <1>7, <2>1, <3>1, <3>2 DEF Resolving
    <3> QED
      BY <1>3, <1>4, <1>7, <2>1, <3>3, <3>4 DEF Resolving, Built
  <2>3. ASSUME CallerIsRight PROVE Unlocking'
    <3>1. AtInput(i)
      BY <1>11, <2>3
    <3>2. U!OwnerOf(o) = OwnerAt(i)
      BY <1>6, <3>1, AtInputFacts
    <3>3. PICK f : f = U!UnlockAddress(OwnerAt(i), unlocks[i], i)
      OBVIOUS
    <3> QED
      BY <1>5, <1>6, <1>7, <2>1, <3>1, <3>2, <3>3, AcceptedKeeps
  <2> QED
    BY <1>9, <1>10, <2>1, <2>2, <2>3 DEF VMInv
<1> QED
  BY <1>3, <1>12, <1>13

(* Every step of the composition keeps the invariant of the validators. *)
LEMMA VMKeeps ==
    ASSUME BuilderInv, BuilderInv', VMInv, [CompositeNext]_allVars
    PROVE  VMInv'
<1>1. CASE BuilderStep
  <2>1. ~Built /\ UNCHANGED vmVars
    BY <1>1, NextNeedsOpen DEF BuilderStep, Open, Built
  <2> QED
    BY <2>1, IdleKeeps
<1>2. CASE SwapToBlockBuilder \/ BlockStep \/ UNCHANGED allVars
  <2>1. UNCHANGED vars /\ UNCHANGED vmVars
    BY <1>2, Zenon DEF SwapToBlockBuilder, BlockStep, allVars
  <2> QED
    BY <2>1, SteadyKeeps
<1>3. CASE ReadUnlock
  BY <1>3, ReadKeeps
<1>4. CASE StartVM
  BY <1>4, StartKeeps
<1>5. CASE ResolveInput
  BY <1>5, ResolveKeeps
<1> QED
  BY <1>1, <1>2, <1>3, <1>4, <1>5, Zenon DEF CompositeNext

(* What the transaction builder unlocks, the validators accept: for any    *)
(* wallet and addresses, the unlocks that build picks (the signature of    *)
(* the first input of a signer, references to it, references to the input  *)
(* that carries a chain) pass the syntactic validator, and the virtual     *)
(* machine refuses an input only when the caller named another address     *)
(* than the one that may unlock it, or an input is owned by an anchor that *)
(* the transaction does not transition by its state.                       *)
THEOREM BuiltUnlocksPass == CompositeSpec => []BuiltUnlocksAccepted
<1>1. CompositeInit => VMInv
  BY VMInit
<1>2. (BuilderInv /\ BlockInv) /\ (BuilderInv /\ BlockInv)' /\ VMInv /\ [CompositeNext]_allVars => VMInv'
  BY VMKeeps
<1>3. VMInv => BuiltUnlocksAccepted
  BY DEF VMInv, Resolving, CallerIsRight, BuiltUnlocksAccepted
<1> QED
  BY <1>1, <1>2, <1>3, BuildersInvariant, PTL DEF CompositeSpec
=============================================================================
