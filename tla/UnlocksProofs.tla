---------------------------- MODULE UnlocksProofs ----------------------------
(***************************************************************************)
(* The unlock validation, whatever the inputs and unlocks of a transaction *)
(* are.  Soundness: every address the virtual machine takes for unlocked   *)
(* is authorised by the signatures.  Completeness: the owners of what is   *)
(* consumed are unlocked.  The maps of later checks hold the references,   *)
(* and the syntactic validator is as strict as its rules, not stricter.    *)
(***************************************************************************)
EXTENDS Unlocks, TLAPS

-----------------------------------------------------------------------------
(***************************************************************************)
(* The shape of unlocks and outputs.                                       *)
(***************************************************************************)

(* The fields an unlock of each type has. *)
LEMMA UnlockShape ==
    ASSUME NEW u \in AnyUnlock
    PROVE  /\ IsSignature(u) => u.key \in Key /\ u.valid \in BOOLEAN
           /\ IsReferential(u) => u.ref \in Index
           /\ u.type = "Multi" => u.unlocks \in Seq(SubUnlock)
  BY DEF AnyUnlock, SignatureUnlock, ReferentialUnlock, EmptyUnlock, MultiUnlock,
         IsSignature, IsReferential, ChainTypes

(* The same for the unlocks inside of a multi unlock. *)
LEMMA SubUnlockShape ==
    ASSUME NEW u \in SubUnlock
    PROVE  /\ IsSignature(u) => u.key \in Key /\ u.valid \in BOOLEAN
           /\ IsReferential(u) => u.ref \in Index
  BY DEF SubUnlock, SignatureUnlock, ReferentialUnlock, EmptyUnlock, NestedMultiUnlock,
         IsSignature, IsReferential, ChainTypes

(* The signers inside of a multi unlock are keys. *)
LEMMA SignersInAreKeys ==
    ASSUME NEW u \in AnyUnlock, u.type = "Multi"
    PROVE  SignersIn(u) \subseteq Key
  <1>1. u.unlocks \in Seq(SubUnlock)
    BY UnlockShape
  <1>2. \A j \in DOMAIN u.unlocks : u.unlocks[j] \in SubUnlock
    BY <1>1
  <1>3. QED
    BY <1>2, SubUnlockShape DEF SignersIn, SignaturesIn

(* The address to unlock for an output is an address, and is not restricted. *)
LEMMA OwnerIsAddress ==
    ASSUME NEW o \in Output
    PROVE  OwnerOf(o) \in Address /\ ~IsRestricted(OwnerOf(o))
  <1>1. o \in AnyOutput
    BY TransactionAssumption
  <1>2. o.owner \in Address /\ o.governor \in Address /\ o.return \in Address
    BY <1>1 DEF AnyOutput
  <1>3. \A a \in Address : resolveUnderlyingAddress(a) \in Address
                           /\ ~IsRestricted(resolveUnderlyingAddress(a))
    BY AddressAssumption, NestingAssumption DEF resolveUnderlyingAddress, ValidRestrictedAddress, IsRestricted
  <1>4. QED
    BY <1>2, <1>3 DEF OwnerOf, addressToUnlock

(* A chain output that unlocks its chain has a chain address. *)
LEMMA ChainIsAddress ==
    ASSUME NEW o \in Output, UnlocksChain(o)
    PROVE  o.chain \in Address
  BY TransactionAssumption DEF UnlocksChain

-----------------------------------------------------------------------------
(***************************************************************************)
(* Updates of the address map.                                             *)
(***************************************************************************)
EntryMap(f) == f \in [DOMAIN f -> [at : Index, refs : SUBSET Index]]

(* Adding an entry extends the domain by its address. *)
LEMMA UpdEntry ==
    ASSUME NEW f, EntryMap(f), NEW a, NEW i \in Index
    PROVE  /\ EntryMap(Upd(f, a, Entry(i)))
           /\ DOMAIN Upd(f, a, Entry(i)) = DOMAIN f \cup {a}
  BY DEF EntryMap, Upd, Entry

(* Booking a reference leaves the domain alone. *)
LEMMA AddReferenceEntry ==
    ASSUME NEW f, EntryMap(f), NEW a, NEW i \in Index
    PROVE  /\ EntryMap(AddReference(f, a, i))
           /\ DOMAIN AddReference(f, a, i) = DOMAIN f
  BY DEF EntryMap, AddReference

(* What an input does to the address map: it may add the owner and the     *)
(* chain of the output, and nothing else.                                  *)
LEMMA UnlockAddressDomain ==
    ASSUME EntryMap(unlocked), NEW a, NEW u, NEW i \in Index
    PROVE  /\ EntryMap(UnlockAddress(a, u, i))
           /\ DOMAIN unlocked \subseteq DOMAIN UnlockAddress(a, u, i)
           /\ DOMAIN UnlockAddress(a, u, i) \subseteq DOMAIN unlocked \cup {a}
  <1> DEFINE booked == AddReference(unlocked, sigUnlocked[u.ref].addr, i)
  <1>1. EntryMap(booked) /\ DOMAIN booked = DOMAIN unlocked
    BY AddReferenceEntry
  <1>2. EntryMap(Upd(booked, a, Entry(i))) /\ DOMAIN Upd(booked, a, Entry(i)) = DOMAIN booked \cup {a}
    BY <1>1, UpdEntry
  <1>3. /\ EntryMap(Upd(unlocked, a, Entry(i)))
        /\ DOMAIN Upd(unlocked, a, Entry(i)) = DOMAIN unlocked \cup {a}
    BY UpdEntry
  <1>4. /\ EntryMap(AddReference(unlocked, a, i))
        /\ DOMAIN AddReference(unlocked, a, i) = DOMAIN unlocked
    BY AddReferenceEntry
  <1>5. QED
    BY <1>1, <1>2, <1>3, <1>4 DEF UnlockAddress

(* The same with the chain of the output. *)
LEMMA AddUnlockedChainDomain ==
    ASSUME NEW f, EntryMap(f), NEW o, NEW i \in Index
    PROVE  /\ EntryMap(AddUnlockedChain(f, o, i))
           /\ DOMAIN f \subseteq DOMAIN AddUnlockedChain(f, o, i)
           /\ DOMAIN AddUnlockedChain(f, o, i) \subseteq DOMAIN f \cup {x \in {o.chain} : UnlocksChain(o)}
  <1>1. CASE UnlocksChain(o)
    <2>1. AddUnlockedChain(f, o, i) = Upd(f, o.chain, Entry(i))
      BY <1>1 DEF AddUnlockedChain
    <2>2. EntryMap(Upd(f, o.chain, Entry(i))) /\ DOMAIN Upd(f, o.chain, Entry(i)) = DOMAIN f \cup {o.chain}
      BY UpdEntry
    <2>3. QED
      BY <1>1, <2>1, <2>2
  <1>2. CASE ~UnlocksChain(o)
    BY <1>2 DEF AddUnlockedChain
  <1>3. QED
    BY <1>1, <1>2

-----------------------------------------------------------------------------
(* The validator's state keeps its type (vm.go, ValidateUnlocks and        *)
(* unlock.go, SignaturesUniqueAndReferenceUnlocksValidator).               *)
THEOREM TypeCorrect == Spec => []TypeOK
  <1>1. Init => TypeOK
    BY CommittableAgeAssumption DEF Init, TypeOK, NothingSeen, Nothing
  <1>2. TypeOK /\ [Next]_vars => TypeOK'
    <2> SUFFICES ASSUME TypeOK, [Next]_vars PROVE TypeOK'
      OBVIOUS
    <2>1. ASSUME NEW u \in Unlock, ValidateUnlock(u) PROVE TypeOK'
      <3> DEFINE i == Len(unlocks) + 1
      <3>1. i \in Index /\ unlocks' \in Seq(Unlock) /\ Len(unlocks') = i
        BY <2>1, CommittableAgeAssumption DEF TypeOK, ValidateUnlock, Index
      <3>2. u \in AnyUnlock
        BY TransactionAssumption
      <3>3. /\ IsSignature(u) => u.key \in Key
            /\ u.type = "Multi" => SignersIn(u) \subseteq Key
        BY <3>2, UnlockShape, SignersInAreKeys
      <3>4. seen' \in [signatures : SUBSET Index, referentials : SUBSET Index, multis : SUBSET Index,
                       signers : SUBSET Key, signersInMulti : SUBSET Key, multiBytes : SUBSET Unlock]
        BY <2>1, <3>1, <3>3 DEF TypeOK, ValidateUnlock, Recorded
      <3>5. Len(inputs) <= i /\ i <= MaxInputs
        BY <2>1, CommittableAgeAssumption DEF TypeOK, ValidateUnlock
      <3>6. QED
        BY <2>1, <3>1, <3>4, <3>5 DEF TypeOK, ValidateUnlock
    <2>2. ASSUME NEW c \in CommitmentSlot \cup {NoCommitment}, SyntacticallyValid(c) PROVE TypeOK'
      BY <2>2 DEF TypeOK, SyntacticallyValid
    <2>3. ASSUME NEW o \in Output, unlockOutput(o) PROVE TypeOK'
      <3> DEFINE i == Len(inputs) + 1
                 u == unlocks[i]
                 a == OwnerOf(o)
                 f == UnlockAddress(a, u, i)
      <3>1. i \in Index /\ i \in 1..Len(unlocks) /\ Len(inputs) \in Nat
        BY <2>3, CommittableAgeAssumption DEF TypeOK, unlockOutput, NextInput, Index
      <3>2. a \in Address /\ (UnlocksChain(o) => o.chain \in Address)
        BY OwnerIsAddress, ChainIsAddress
      <3>3. u \in Unlock /\ u \in AnyUnlock
        BY <3>1, TransactionAssumption DEF TypeOK
      <3>4. EntryMap(f) /\ DOMAIN f \subseteq DOMAIN unlocked \cup {a}
        BY <3>1, UnlockAddressDomain DEF TypeOK, EntryMap
      <3>5. /\ EntryMap(unlocked')
            /\ DOMAIN unlocked' \subseteq DOMAIN f \cup {x \in {o.chain} : UnlocksChain(o)}
        BY <2>3, <3>1, <3>4, AddUnlockedChainDomain DEF unlockOutput
      <3>6. DOMAIN unlocked' \subseteq Address
        BY <3>2, <3>4, <3>5 DEF TypeOK
      <3>7. /\ DOMAIN sigUnlocked' \subseteq Index
            /\ sigUnlocked' \in [DOMAIN sigUnlocked' -> [addr : Address, key : Key]]
        <4>1. CASE IsSignature(u)
          <5>1. u.key \in Key
            BY <3>3, <4>1, UnlockShape
          <5>2. sigUnlocked' = Upd(sigUnlocked, i, [addr |-> a, key |-> u.key])
            BY <2>3, <4>1 DEF unlockOutput
          <5>3. QED
            BY <5>1, <5>2, <3>1, <3>2 DEF TypeOK, Upd
        <4>2. CASE ~IsSignature(u)
          BY <2>3, <4>2 DEF TypeOK, unlockOutput
        <4>3. QED
          BY <4>1, <4>2
      <3>8. /\ inputs' \in Seq(Output) /\ Len(inputs') = i
            /\ status' \in {"semantic", "accepted"}
            /\ UNCHANGED <<unlocks, commitment, seen>>
        BY <2>3 DEF TypeOK, unlockOutput
      <3>9. QED
        BY <3>1, <3>5, <3>6, <3>7, <3>8 DEF TypeOK, EntryMap
    <2>4. ASSUME NEW o \in Output, RefuseInput(o) PROVE TypeOK'
      BY <2>4 DEF TypeOK, RefuseInput
    <2>5. CASE UNCHANGED vars
      BY <2>5 DEF TypeOK, vars
    <2>6. QED
      BY <2>1, <2>2, <2>3, <2>4, <2>5 DEF Next
  <1>3. QED
    BY <1>1, <1>2, PTL DEF Spec

-----------------------------------------------------------------------------
(***************************************************************************)
(* Soundness.  UnlocksAreAuthorised is not inductive: a referential unlock *)
(* of a direct address trusts a signature remembered in `sigUnlocked'.     *)
(***************************************************************************)

(* The remembered signatures are signatures of this transaction. *)
SignaturesAreSigned == \A i \in DOMAIN sigUnlocked : Signed(sigUnlocked[i].key)

(* Before the virtual machine runs nothing is resolved nor unlocked. *)
NothingBeforeExecution ==
    status \in {"syntactic", "malformed"} =>
        inputs = <<>> /\ unlocked = Nothing /\ sigUnlocked = Nothing

AuthorisationInv ==
    TypeOK /\ NothingBeforeExecution /\ SignaturesAreSigned /\ UnlocksAreAuthorised

(* A member address whose unlock passes the checks is authorised: by its   *)
(* own entry, by a remembered signature, or by the signature at hand.      *)
LEMMA CheckedIsAuthorised ==
    ASSUME NEW S \in SUBSET Address, Closed(S), DOMAIN unlocked \subseteq S, SignaturesAreSigned,
           NEW a \in Address, NEW u, CheckUnlock(a, u),
           IsSignature(u) /\ u.valid => Signed(u.key)
    PROVE  a \in S
  <1>1. CASE IsChain(a)
    BY <1>1 DEF CheckUnlock, NonDirectReferenceOk
  <1>2. CASE ~IsChain(a) /\ IsReferential(u) /\ DirectReferenceOk(a, u)
    <2>1. IsDirect(a) /\ KeyOf[a] = sigUnlocked[u.ref].key /\ u.ref \in DOMAIN sigUnlocked
      BY <1>2 DEF DirectReferenceOk, MatchesAddress
    <2>2. Signed(KeyOf[a])
      BY <2>1 DEF SignaturesAreSigned
    <2>3. QED
      BY <2>1, <2>2 DEF Closed
  <1>3. CASE ~IsChain(a) /\ IsSignature(u) /\ SignatureValid(a, u)
    <2>1. IsDirect(a) /\ KeyOf[a] = u.key /\ u.valid
      BY <1>3 DEF SignatureValid, MatchesAddress
    <2>2. QED
      BY <1>3, <2>1 DEF Closed
  <1>4. QED
    BY <1>1, <1>2, <1>3 DEF CheckUnlock

(* So is the owner of the next input, whose unlock is one of the           *)
(* transaction: a multi address through the members that took part.        *)
LEMMA OwnerIsAuthorised ==
    ASSUME TypeOK, SignaturesAreSigned,
           NEW S \in SUBSET Address, Closed(S), DOMAIN unlocked \subseteq S,
           NEW i \in DOMAIN unlocks, NEW a \in Address, UnlockAddressOk(a, unlocks[i])
    PROVE  a \in S
  <1> DEFINE u == unlocks[i]
  <1>0. u \in AnyUnlock
    BY TransactionAssumption DEF TypeOK
  <1>1. CASE ~IsMulti(a)
    <2>1. CheckUnlock(a, u)
      BY <1>1 DEF UnlockAddressOk
    <2>2. IsSignature(u) /\ u.valid => Signed(u.key)
      BY DEF Signed, ProperSignature
    <2>3. QED
      BY <2>1, <2>2, CheckedIsAuthorised
  <1>2. CASE IsMulti(a) /\ NonDirectReferenceOk(a, u)
    BY <1>2 DEF NonDirectReferenceOk
  <1>3. CASE IsMulti(a) /\ u.type = "Multi" /\ MultiUnlockOk(a, u)
    <2> DEFINE T == Participating(u)
    <2>1. u.unlocks \in Seq(SubUnlock)
      BY <1>0, <1>3, UnlockShape
    <2>2. Members[a] \in Seq(Address) /\ Len(u.unlocks) = Len(Members[a])
      BY <1>3, AddressAssumption DEF MultiUnlockOk
    <2>3. DOMAIN u.unlocks = DOMAIN Members[a]
      BY <2>1, <2>2
    <2>4. T \in SUBSET DOMAIN Members[a]
      BY <2>3 DEF Participating
    <2>5. ASSUME NEW j \in T PROVE Members[a][j] \in S
      <3>1. Members[a][j] \in Address
        BY <2>2, <2>4
      <3>2. CheckUnlock(Members[a][j], u.unlocks[j])
        BY <1>3 DEF MultiUnlockOk
      <3>3. IsSignature(u.unlocks[j]) /\ u.unlocks[j].valid => Signed(u.unlocks[j].key)
        BY <1>3, <2>3, <2>4 DEF Signed, ProperSignature
      <3>4. QED
        BY <3>1, <3>2, <3>3, CheckedIsAuthorised
    <2>6. WeightOf(a, T) >= Threshold[a]
      BY <1>3 DEF MultiUnlockOk
    <2>7. QED
      BY <1>3, <2>4, <2>5, <2>6 DEF Closed
  <1>4. QED
    BY <1>1, <1>2, <1>3 DEF UnlockAddressOk

(* More inputs only add rules: what is closed after is closed before. *)
LEMMA ClosedBefore ==
    ASSUME TypeOK, NEW o \in Output, unlockOutput(o), NEW S \in SUBSET Address, Closed(S)'
    PROVE  /\ Closed(S)
           /\ UnlocksChain(o) /\ OwnerOf(o) \in S => o.chain \in S
  <1> DEFINE i == Len(inputs) + 1
  <1>1. inputs' = Append(inputs, o) /\ UNCHANGED <<unlocks, commitment>>
    BY DEF unlockOutput
  <1>2. i \in DOMAIN inputs' /\ inputs'[i] = o /\ \A j \in DOMAIN inputs : j \in DOMAIN inputs' /\ inputs'[j] = inputs[j]
    BY <1>1 DEF TypeOK
  <1>3. \A k : Signed(k)' <=> Signed(k)
    BY <1>1 DEF Signed
  <1>4. \A p : OwnerOf(p)' = OwnerOf(p)
    BY <1>1 DEF OwnerOf, ReturnAddressCanUnlock
  <1>5. \A j \in DOMAIN inputs' :
            UnlocksChain(inputs'[j]) /\ OwnerOf(inputs'[j]) \in S => inputs'[j].chain \in S
    BY <1>4 DEF Closed, OwnerOf, ReturnAddressCanUnlock
  <1>6. Closed(S)
    BY <1>2, <1>3, <1>5 DEF Closed
  <1>7. QED
    BY <1>2, <1>5, <1>6

(* The inductive invariant holds initially and is preserved by every step. *)
LEMMA AuthorisationInductive ==
    ASSUME AuthorisationInv, TypeOK', [Next]_vars PROVE AuthorisationInv'
  <1> USE DEF AuthorisationInv
  <1>1. ASSUME NEW u \in Unlock, ValidateUnlock(u) PROVE AuthorisationInv'
    <2>1. inputs' = <<>> /\ unlocked' = Nothing /\ sigUnlocked' = Nothing
      BY <1>1 DEF ValidateUnlock, NothingBeforeExecution
    <2>2. DOMAIN unlocked' = {} /\ DOMAIN sigUnlocked' = {}
      BY <2>1 DEF Nothing
    <2>3. QED
      BY <2>1, <2>2 DEF NothingBeforeExecution, SignaturesAreSigned, UnlocksAreAuthorised
  <1>2. ASSUME NEW c \in CommitmentSlot \cup {NoCommitment}, SyntacticallyValid(c) PROVE AuthorisationInv'
    <2>1. unlocked' = Nothing /\ sigUnlocked' = Nothing /\ status' = "semantic"
      BY <1>2 DEF SyntacticallyValid, NothingBeforeExecution
    <2>2. DOMAIN unlocked' = {} /\ DOMAIN sigUnlocked' = {}
      BY <2>1 DEF Nothing
    <2>3. QED
      BY <2>1, <2>2 DEF NothingBeforeExecution, SignaturesAreSigned, UnlocksAreAuthorised
  <1>3. ASSUME NEW o \in Output, unlockOutput(o) PROVE AuthorisationInv'
    <2> DEFINE i == Len(inputs) + 1
               u == unlocks[i]
               a == OwnerOf(o)
               f == UnlockAddress(a, u, i)
    <2>1. i \in Index /\ i \in DOMAIN unlocks /\ UnlockAddressOk(a, u) /\ CanBeUnlocked(o)
      BY <1>3, CommittableAgeAssumption DEF TypeOK, unlockOutput, NextInput, Index
    <2>2. a \in Address
      BY OwnerIsAddress
    <2>3. UNCHANGED unlocks /\ \A k : Signed(k)' <=> Signed(k)
      BY <1>3 DEF unlockOutput, Signed
    <2>4. SignaturesAreSigned'
      <3>1. CASE IsSignature(u)
        <4>1. sigUnlocked' = Upd(sigUnlocked, i, [addr |-> a, key |-> u.key])
          BY <1>3, <3>1 DEF unlockOutput
        <4>2. u.valid
          BY <2>1, <3>1 DEF UnlockAddressOk, CheckUnlock, SignatureValid, IsSignature, IsReferential, ChainTypes
        <4>3. Signed(u.key)
          BY <2>1, <3>1, <4>2 DEF Signed, ProperSignature
        <4>4. QED
          BY <2>3, <4>1, <4>3 DEF SignaturesAreSigned, Upd
      <3>2. CASE ~IsSignature(u)
        BY <1>3, <2>3, <3>2 DEF unlockOutput, SignaturesAreSigned
      <3>3. QED
        BY <3>1, <3>2
    <2>5. UnlocksAreAuthorised'
      <3> SUFFICES ASSUME NEW S \in SUBSET Address, Closed(S)' PROVE DOMAIN unlocked' \subseteq S
        BY DEF UnlocksAreAuthorised
      <3>1. Closed(S) /\ (UnlocksChain(o) /\ a \in S => o.chain \in S)
        BY <1>3, ClosedBefore
      <3>2. DOMAIN unlocked \subseteq S
        BY <3>1 DEF UnlocksAreAuthorised
      <3>3. a \in S
        BY <2>1, <2>2, <3>1, <3>2, OwnerIsAuthorised
      <3>4. EntryMap(f) /\ DOMAIN f \subseteq DOMAIN unlocked \cup {a}
        BY <2>1, UnlockAddressDomain DEF TypeOK, EntryMap
      <3>5. DOMAIN unlocked' \subseteq DOMAIN f \cup {x \in {o.chain} : UnlocksChain(o)}
        BY <1>3, <2>1, <3>4, AddUnlockedChainDomain DEF unlockOutput
      <3>6. QED
        BY <3>1, <3>2, <3>3, <3>4, <3>5
    <2>6. NothingBeforeExecution'
      BY <1>3 DEF unlockOutput, NothingBeforeExecution
    <2>7. QED
      BY <2>4, <2>5, <2>6
  <1>4. ASSUME NEW o \in Output, RefuseInput(o) PROVE AuthorisationInv'
    BY <1>4 DEF RefuseInput, NothingBeforeExecution, SignaturesAreSigned, UnlocksAreAuthorised,
                Closed, Signed, OwnerOf, ReturnAddressCanUnlock
  <1>5. CASE UNCHANGED vars
    BY <1>5 DEF vars, NothingBeforeExecution, SignaturesAreSigned, UnlocksAreAuthorised,
                Closed, Signed, OwnerOf, ReturnAddressCanUnlock
  <1>6. QED
    BY <1>1, <1>2, <1>3, <1>4, <1>5 DEF Next

(* The inductive invariant holds in every reachable state. *)
LEMMA AuthorisationHolds == Spec => []AuthorisationInv
  <1>1. Init => AuthorisationInv
    <2> SUFFICES ASSUME Init PROVE AuthorisationInv
      OBVIOUS
    <2>1. TypeOK
      BY CommittableAgeAssumption DEF Init, TypeOK, NothingSeen, Nothing
    <2>2. DOMAIN unlocked = {} /\ DOMAIN sigUnlocked = {}
      BY DEF Init, Nothing
    <2>3. QED
      BY <2>1, <2>2 DEF Init, AuthorisationInv, NothingBeforeExecution, SignaturesAreSigned,
                        UnlocksAreAuthorised
  <1>2. AuthorisationInv /\ TypeOK' /\ [Next]_vars => AuthorisationInv'
    BY AuthorisationInductive
  <1>3. QED
    BY <1>1, <1>2, TypeCorrect, PTL DEF Spec

(* Every address in UnlockedAddrsByAddrKey is in every set of addresses    *)
(* closed under authorisation by the signatures of the transaction, for    *)
(* any inputs, addresses and unlocks (vm.go, ValidateUnlocks).             *)
THEOREM Soundness == Spec => []UnlocksAreAuthorised
  <1>1. AuthorisationInv => UnlocksAreAuthorised
    BY DEF AuthorisationInv
  <1>2. QED
    BY <1>1, AuthorisationHolds, PTL

-----------------------------------------------------------------------------
(***************************************************************************)
(* Completeness of the address map: what was consumed is unlocked.         *)
(***************************************************************************)
OwnersUnlocked ==
    \A i \in DOMAIN inputs : CanBeUnlocked(inputs[i]) /\ OwnerOf(inputs[i]) \in DOMAIN unlocked

OwnersInv == OwnersUnlocked /\ (status = "accepted" => Len(inputs) = Len(unlocks))

(* After its checks, unlockAddress leaves an entry of the address. *)
LEMMA UnlockAddressAdds ==
    ASSUME EntryMap(unlocked), NEW a, NEW u, NEW i \in Index, UnlockAddressOk(a, u)
    PROVE  a \in DOMAIN UnlockAddress(a, u, i)
  <1> DEFINE booked == AddReference(unlocked, sigUnlocked[u.ref].addr, i)
  <1>1. EntryMap(booked) /\ DOMAIN booked = DOMAIN unlocked
    BY AddReferenceEntry
  <1>2. a \in DOMAIN Upd(booked, a, Entry(i)) /\ a \in DOMAIN Upd(unlocked, a, Entry(i))
    BY DEF Upd
  <1>3. DOMAIN AddReference(unlocked, a, i) = DOMAIN unlocked
    BY AddReferenceEntry
  <1>4. IsReferential(u) /\ ~IsDirect(a) => a \in DOMAIN unlocked
    BY DEF UnlockAddressOk, CheckUnlock, NonDirectReferenceOk, IsReferential, IsSignature, ChainTypes
  <1>5. QED
    BY <1>1, <1>2, <1>3, <1>4 DEF UnlockAddress

LEMMA OwnersInductive ==
    ASSUME AuthorisationInv, OwnersInv, [Next]_vars PROVE OwnersInv'
  <1> USE DEF AuthorisationInv
  <1>1. ASSUME NEW u \in Unlock, ValidateUnlock(u) PROVE OwnersInv'
    BY <1>1 DEF ValidateUnlock, NothingBeforeExecution, OwnersInv, OwnersUnlocked
  <1>2. ASSUME NEW c \in CommitmentSlot \cup {NoCommitment}, SyntacticallyValid(c) PROVE OwnersInv'
    BY <1>2 DEF SyntacticallyValid, NothingBeforeExecution, OwnersInv, OwnersUnlocked
  <1>3. ASSUME NEW o \in Output, unlockOutput(o) PROVE OwnersInv'
    <2> DEFINE i == Len(inputs) + 1
               u == unlocks[i]
               a == OwnerOf(o)
               f == UnlockAddress(a, u, i)
    <2>1. i \in Index /\ UnlockAddressOk(a, u) /\ CanBeUnlocked(o)
      BY <1>3, CommittableAgeAssumption DEF TypeOK, unlockOutput, NextInput, Index
    <2>2. EntryMap(f) /\ DOMAIN unlocked \subseteq DOMAIN f /\ a \in DOMAIN f
      BY <2>1, UnlockAddressDomain, UnlockAddressAdds DEF TypeOK, EntryMap
    <2>3. DOMAIN f \subseteq DOMAIN unlocked'
      BY <1>3, <2>1, <2>2, AddUnlockedChainDomain DEF unlockOutput
    <2>4. inputs' = Append(inputs, o) /\ UNCHANGED <<unlocks, commitment>>
      BY <1>3 DEF unlockOutput
    <2>5. /\ DOMAIN inputs' = DOMAIN inputs \cup {i} /\ inputs'[i] = o /\ Len(inputs') = i
          /\ \A j \in DOMAIN inputs : inputs'[j] = inputs[j]
      BY <2>4 DEF TypeOK
    <2>6. ASSUME NEW p PROVE OwnerOf(p)' = OwnerOf(p) /\ (CanBeUnlocked(p)' <=> CanBeUnlocked(p))
      BY <2>4 DEF OwnerOf, CanBeUnlocked, ReturnAddressCanUnlock, OwnerAddressCanUnlock
    <2>7. ASSUME NEW j \in DOMAIN inputs'
          PROVE  CanBeUnlocked(inputs'[j]) /\ OwnerOf(inputs'[j]) \in DOMAIN unlocked'
      BY <2>1, <2>2, <2>3, <2>5 DEF OwnersInv, OwnersUnlocked
    <2>8. OwnersUnlocked'
      BY <2>4, <2>7 DEF OwnersUnlocked, OwnerOf, CanBeUnlocked, ReturnAddressCanUnlock, OwnerAddressCanUnlock
    <2>9. status' = "accepted" => Len(inputs') = Len(unlocks')
      BY <1>3, <2>4, <2>5 DEF unlockOutput
    <2>10. QED
      BY <2>8, <2>9 DEF OwnersInv
  <1>4. ASSUME NEW o \in Output, RefuseInput(o) PROVE OwnersInv'
    BY <1>4 DEF RefuseInput, OwnersInv, OwnersUnlocked, OwnerOf, CanBeUnlocked,
                ReturnAddressCanUnlock, OwnerAddressCanUnlock
  <1>5. CASE UNCHANGED vars
    BY <1>5 DEF vars, OwnersInv, OwnersUnlocked, OwnerOf, CanBeUnlocked,
                ReturnAddressCanUnlock, OwnerAddressCanUnlock
  <1>6. QED
    BY <1>1, <1>2, <1>3, <1>4, <1>5 DEF Next

(* An accepted transaction has unlocked the owner of each of its inputs,   *)
(* after expiration and for the kind of an anchor's transition (vm.go,     *)
(* ValidateUnlocks).                                                       *)
THEOREM AcceptedIsUnlocked == Spec => []AcceptedOwnersUnlocked
  <1>1. Init => OwnersInv
    BY DEF Init, OwnersInv, OwnersUnlocked
  <1>2. AuthorisationInv /\ OwnersInv /\ [Next]_vars => OwnersInv'
    BY OwnersInductive
  <1>3. OwnersInv => AcceptedOwnersUnlocked
    BY DEF OwnersInv, OwnersUnlocked, AcceptedOwnersUnlocked
  <1>4. QED
    BY <1>1, <1>2, <1>3, AuthorisationHolds, PTL DEF Spec

-----------------------------------------------------------------------------
(***************************************************************************)
(* References.  No entry is ever overwritten: a signature or multi unlock  *)
(* needs a new address, and a chain gets its entry from its only input.    *)
(***************************************************************************)
SignedAreDirect == \A i \in DOMAIN sigUnlocked : MatchesAddress(sigUnlocked[i].key, sigUnlocked[i].addr)

ChainsAreInputs ==
    \A a \in DOMAIN unlocked : IsChain(a) => \E i \in DOMAIN inputs : inputs[i].chain = a

(* The input i is booked on a for its owner. *)
BookedFor(i, a) == a = OwnerOf(inputs[i]) \/ BookedOnSigner(i, a)

OwnerBooked(i) ==
    /\ OwnerOf(inputs[i]) \in DOMAIN unlocked
    /\ \/ UnlockedBy(i, OwnerOf(inputs[i]))
       \/ unlocked[OwnerOf(inputs[i])].at < i /\ \E a \in Address : BookedOnSigner(i, a)

Referred(a) ==
    \A r \in unlocked[a].refs : IsReferential(unlocks[r]) /\ unlocks[r].ref = unlocked[a].at

ReferencesInv ==
    /\ OnlyOwnersAndChainsUnlocked
    /\ \A a \in DOMAIN unlocked :
          /\ Referred(a) /\ unlocked[a].refs \subseteq DOMAIN inputs
          /\ \A r \in unlocked[a].refs : BookedFor(r, a)
    /\ \A i \in DOMAIN inputs : OwnerBooked(i)
    /\ ChainsAreInputs
    /\ \A i \in DOMAIN sigUnlocked :
          /\ sigUnlocked[i].addr \in DOMAIN unlocked
          /\ unlocked[sigUnlocked[i].addr].at = i
    /\ SignedAreDirect

(* What unlockAddress does to one entry: it is the new one of the address  *)
(* if there was none, it keeps its place and its references, or it is the  *)
(* entry that the unlock refers to and has one reference more; that entry  *)
(* is the one of the address, or of a signature that matches the address.  *)
SignerOf(a, u, b) ==
    /\ IsDirect(a) /\ u.ref \in DOMAIN sigUnlocked
    /\ b = sigUnlocked[u.ref].addr /\ MatchesAddress(sigUnlocked[u.ref].key, a)

EntryFate(f, a, u, i, b) ==
    \/ b = a /\ b \notin DOMAIN unlocked /\ f[b] = Entry(i)
    \/ b \in DOMAIN unlocked /\ f[b] = unlocked[b]
    \/ /\ b \in DOMAIN unlocked /\ f[b].at = unlocked[b].at /\ f[b].refs = unlocked[b].refs \cup {i}
       /\ IsReferential(u) /\ u.ref = unlocked[b].at /\ (b = a \/ SignerOf(a, u, b))

LEMMA UnlockAddressFates ==
    ASSUME EntryMap(unlocked), NEW a, ~IsRestricted(a), NEW u, NEW i \in Index, UnlockAddressOk(a, u),
           NEW f, f = UnlockAddress(a, u, i), NEW b \in DOMAIN f
    PROVE  EntryFate(f, a, u, i, b)
  <1>1. CASE ~IsReferential(u)
    <2>1. a \notin DOMAIN unlocked
      BY <1>1 DEF UnlockAddressOk, CheckUnlock, SignatureValid, MultiUnlockOk
    <2>2. f = Upd(unlocked, a, Entry(i))
      BY <1>1 DEF UnlockAddress
    <2>3. QED
      BY <2>1, <2>2 DEF EntryFate, Upd
  <1>2. CASE IsReferential(u) /\ IsDirect(a)
    <2> DEFINE s == sigUnlocked[u.ref].addr
               booked == AddReference(unlocked, s, i)
    <2>1. unlocked[s].at = u.ref /\ SignerOf(a, u, s)
      BY <1>2 DEF UnlockAddressOk, CheckUnlock, DirectReferenceOk, IsReferential, IsSignature, IsDirect, IsMulti,
                  IsChain, ChainTypes, DirectTypes, SignerOf
    <2> HIDE DEF s
    <2>2. f = IF a \in DOMAIN unlocked THEN booked ELSE Upd(booked, a, Entry(i))
      BY <1>2 DEF UnlockAddress, s
    <2>3. DOMAIN booked = DOMAIN unlocked
      BY DEF AddReference
    <2>4. ASSUME NEW x \in DOMAIN unlocked, x # s PROVE booked[x] = unlocked[x]
      BY <2>4 DEF AddReference
    <2>5. ASSUME s \in DOMAIN unlocked
          PROVE  booked[s].at = unlocked[s].at /\ booked[s].refs = unlocked[s].refs \cup {i}
      BY <2>5 DEF AddReference, EntryMap
    <2> HIDE DEF booked
    <2>6. CASE b \in DOMAIN unlocked
      <3>1. f[b] = booked[b]
        BY <2>2, <2>3, <2>6 DEF Upd
      <3>2. QED
        BY <1>2, <2>1, <2>4, <2>5, <2>6, <3>1 DEF EntryFate
    <2>7. CASE b \notin DOMAIN unlocked
      BY <2>2, <2>3, <2>7 DEF EntryFate, Upd
    <2>8. QED
      BY <2>6, <2>7
  <1>3. CASE IsReferential(u) /\ ~IsDirect(a)
    <2>1. a \in DOMAIN unlocked /\ unlocked[a].at = u.ref
      BY <1>3 DEF UnlockAddressOk, CheckUnlock, NonDirectReferenceOk, IsReferential, IsSignature, ChainTypes
    <2>2. f = AddReference(unlocked, a, i)
      BY <1>3 DEF UnlockAddress
    <2>3. DOMAIN f = DOMAIN unlocked
      BY <2>2 DEF AddReference
    <2>4. CASE b = a
      <3>1. f[a].at = unlocked[a].at /\ f[a].refs = unlocked[a].refs \cup {i}
        BY <2>1, <2>2 DEF AddReference, EntryMap
      <3>2. QED
        BY <1>3, <2>1, <2>4, <3>1 DEF EntryFate
    <2>5. CASE b # a
      BY <2>2, <2>3, <2>5 DEF EntryFate, AddReference
    <2>6. QED
      BY <2>4, <2>5
  <1>4. QED
    BY <1>1, <1>2, <1>3

(* The input is booked on its address, unless that is a direct one with an *)
(* entry already, and then on the signer it refers to.                     *)
LEMMA UnlockAddressBooks ==
    ASSUME EntryMap(unlocked), NEW a, ~IsRestricted(a), NEW u, NEW i \in Index, UnlockAddressOk(a, u),
           \A j \in DOMAIN sigUnlocked : sigUnlocked[j].addr \in DOMAIN unlocked,
           NEW f, f = UnlockAddress(a, u, i)
    PROVE  \/ a \in DOMAIN f /\ (f[a].at = i \/ i \in f[a].refs)
           \/ /\ a \in DOMAIN unlocked /\ IsReferential(u)
              /\ \E b \in DOMAIN unlocked : SignerOf(a, u, b) /\ i \in f[b].refs
  <1>1. CASE ~IsReferential(u)
    BY <1>1 DEF UnlockAddress, Upd, Entry
  <1>2. CASE IsReferential(u) /\ IsDirect(a)
    <2> DEFINE s == sigUnlocked[u.ref].addr
               booked == AddReference(unlocked, s, i)
    <2>1. SignerOf(a, u, s)
      BY <1>2 DEF UnlockAddressOk, CheckUnlock, DirectReferenceOk, IsReferential, IsSignature, IsDirect, IsMulti,
                  IsChain, ChainTypes, DirectTypes, SignerOf
    <2>2. s \in DOMAIN unlocked
      BY <2>1 DEF SignerOf
    <2>3. f = IF a \in DOMAIN unlocked THEN booked ELSE Upd(booked, a, Entry(i))
      BY <1>2 DEF UnlockAddress
    <2>4. i \in booked[s].refs
      BY <2>2 DEF AddReference, EntryMap
    <2>5. a \notin DOMAIN unlocked => a \in DOMAIN f /\ f[a].at = i
      BY <2>3 DEF Upd, Entry
    <2>6. QED
      BY <1>2, <2>1, <2>2, <2>3, <2>4, <2>5
  <1>3. CASE IsReferential(u) /\ ~IsDirect(a)
    <2>1. a \in DOMAIN unlocked
      BY <1>3 DEF UnlockAddressOk, CheckUnlock, NonDirectReferenceOk, IsReferential, IsSignature, ChainTypes
    <2>2. f = AddReference(unlocked, a, i)
      BY <1>3 DEF UnlockAddress
    <2>3. QED
      BY <2>1, <2>2 DEF AddReference, EntryMap
  <1>4. QED
    BY <1>1, <1>2, <1>3

LEMMA UnlockOutputKeepsReferences ==
    ASSUME AuthorisationInv, ReferencesInv, NEW o \in Output, unlockOutput(o)
    PROVE  ReferencesInv'
  <1> USE DEF AuthorisationInv
  <1> DEFINE i == Len(inputs) + 1
             u == unlocks[i]
             a == OwnerOf(o)
             f == UnlockAddress(a, u, i)
             g == AddUnlockedChain(f, o, i)
  <1>1. /\ i \in Index /\ i \in DOMAIN unlocks /\ UnlockAddressOk(a, u)
        /\ a \in Address /\ ~IsRestricted(a) /\ EntryMap(unlocked)
    BY OwnerIsAddress, CommittableAgeAssumption DEF TypeOK, unlockOutput, NextInput, Index, EntryMap
  <1>2. inputs' = Append(inputs, o) /\ unlocked' = g /\ UNCHANGED <<unlocks, commitment>>
    BY DEF unlockOutput
  <1>3. /\ DOMAIN inputs' = DOMAIN inputs \cup {i} /\ inputs'[i] = o
        /\ \A j \in DOMAIN inputs : inputs'[j] = inputs[j] /\ j # i
    BY <1>2 DEF TypeOK
  <1>4. ASSUME NEW b \in DOMAIN f PROVE EntryFate(f, a, u, i, b)
    BY <1>1, <1>4, UnlockAddressFates
  <1>5. /\ UnlocksChain(o) => AddressType[o.chain] \in ChainTypes /\ g = Upd(f, o.chain, Entry(i))
        /\ ~UnlocksChain(o) => g = f
    BY TransactionAssumption DEF UnlocksChain, AddUnlockedChain
  <1> HIDE DEF f, g, a, u, i
  (* The same for the whole input: an entry is new, kept or referred to. *)
  <1>6. ASSUME NEW b \in DOMAIN g
        PROVE  \/ UnlocksChain(o) /\ b = o.chain /\ g[b] = Entry(i)
               \/ b \in DOMAIN f /\ g[b] = f[b] /\ EntryFate(f, a, u, i, b)
    BY <1>4, <1>5 DEF Upd
  (* The chain of the output had no entry, so none is overwritten. *)
  <1>7. UnlocksChain(o) => o.chain \notin DOMAIN f
    <2> SUFFICES ASSUME UnlocksChain(o), o.chain \in DOMAIN f PROVE FALSE
      OBVIOUS
    <2>1. o.chain \in DOMAIN unlocked \cup {a}
      BY <1>1, UnlockAddressDomain DEF f
    <2>2. IsChain(o.chain) /\ ~IsMulti(o.chain) /\ ~IsDirect(o.chain)
      BY <1>5 DEF IsChain, IsMulti, IsDirect, ChainTypes, DirectTypes
    <2>3. o.chain = a => a \in DOMAIN unlocked
      BY <1>1, <2>2 DEF UnlockAddressOk, CheckUnlock, NonDirectReferenceOk
    <2>4. PICK j \in DOMAIN inputs : inputs[j].chain = o.chain
      BY <2>1, <2>2, <2>3 DEF ReferencesInv, ChainsAreInputs
    <2>5. o.chain # NoChain
      BY TransactionAssumption, AddressAssumption DEF UnlocksChain
    <2>6. QED
      BY <2>4, <2>5 DEF unlockOutput, NextInput
  <1>8. ASSUME NEW b \in DOMAIN unlocked
        PROVE  /\ b \in DOMAIN f /\ b \in DOMAIN g /\ g[b] = f[b]
               /\ g[b].at = unlocked[b].at /\ unlocked[b].refs \subseteq g[b].refs
    <2>1. b \in DOMAIN f
      BY <1>1, UnlockAddressDomain DEF f
    <2>2. b \in DOMAIN g /\ g[b] = f[b]
      BY <1>5, <1>7, <2>1 DEF Upd
    <2>3. QED
      BY <1>4, <2>1, <2>2 DEF EntryFate
  <1>9. i \notin DOMAIN inputs /\ \A j \in DOMAIN inputs : j < i
    BY DEF i, TypeOK
  <1>10. OnlyOwnersAndChainsUnlocked'
    <2>1. ASSUME NEW b \in DOMAIN g
          PROVE  \E j \in DOMAIN inputs' :
                    /\ g[b].at = j
                    /\ b = OwnerOf(inputs'[j]) \/ (UnlocksChain(inputs'[j]) /\ b = inputs'[j].chain)
      <3>1. CASE g[b] = Entry(i) /\ (b = a \/ (UnlocksChain(o) /\ b = o.chain))
        <4>1. g[b].at = i
          BY <3>1 DEF Entry
        <4>2. QED
          BY <1>3, <3>1, <4>1 DEF a
      <3>2. CASE b \in DOMAIN unlocked /\ g[b].at = unlocked[b].at
        BY <1>3, <3>2 DEF ReferencesInv, OnlyOwnersAndChainsUnlocked
      <3>3. QED
        BY <1>6, <3>1, <3>2 DEF EntryFate
    <2>2. QED
      BY <1>2, <2>1 DEF OnlyOwnersAndChainsUnlocked, OwnerOf, ReturnAddressCanUnlock
  <1> DEFINE OnSigner(j, b) ==
               /\ IsReferential(unlocks[j]) /\ b # OwnerOf(inputs'[j])
               /\ IsDirect(b) /\ IsDirect(OwnerOf(inputs'[j])) /\ KeyOf[b] = KeyOf[OwnerOf(inputs'[j])]
               /\ b \in DOMAIN g /\ g[b].at = unlocks[j].ref /\ j \in g[b].refs
  <1>11. ASSUME NEW j, NEW b PROVE BookedOnSigner(j, b)' <=> OnSigner(j, b)
    BY <1>2 DEF BookedOnSigner, OwnerOf, ReturnAddressCanUnlock
  <1>12. ASSUME NEW j \in DOMAIN inputs, NEW b, BookedOnSigner(j, b) PROVE OnSigner(j, b)
    <2>1. b \in DOMAIN unlocked /\ j \in unlocked[b].refs /\ unlocked[b].at = unlocks[j].ref
      BY <1>12 DEF BookedOnSigner
    <2>2. OwnerOf(inputs'[j]) = OwnerOf(inputs[j])
      BY <1>3
    <2>3. b \in DOMAIN g /\ g[b].at = unlocks[j].ref /\ j \in g[b].refs
      BY <1>8, <2>1
    <2>4. QED
      BY <1>12, <2>2, <2>3 DEF BookedOnSigner
  <1>13. ASSUME NEW b \in DOMAIN unlocked, SignerOf(a, u, b), IsReferential(u), b # a, i \in g[b].refs
         PROVE  OnSigner(i, b)
    <2>1. IsDirect(a) /\ IsDirect(b) /\ KeyOf[b] = KeyOf[a]
      BY <1>13 DEF SignerOf, ReferencesInv, SignedAreDirect, MatchesAddress
    <2>2. unlocked[b].at = u.ref
      BY <1>13 DEF SignerOf, ReferencesInv
    <2>3. g[b].at = u.ref /\ b \in DOMAIN g
      BY <1>8, <2>2
    <2>4. OwnerOf(inputs'[i]) = a
      BY <1>3 DEF a
    <2>5. QED
      BY <1>13, <2>1, <2>3, <2>4 DEF u
  <1>14. ASSUME NEW b \in DOMAIN g, NEW r \in g[b].refs
         PROVE  /\ IsReferential(unlocks[r]) /\ unlocks[r].ref = g[b].at
                /\ r \in DOMAIN inputs' /\ (b = OwnerOf(inputs'[r]) \/ OnSigner(r, b))
    <2>1. CASE b \in DOMAIN unlocked /\ r \in unlocked[b].refs
      <3>1. r \in DOMAIN inputs /\ Referred(b) /\ BookedFor(r, b) /\ g[b].at = unlocked[b].at
        BY <1>8, <2>1 DEF ReferencesInv
      <3>2. QED
        BY <1>3, <1>12, <2>1, <3>1 DEF Referred, BookedFor
    <2>2. CASE /\ b \in DOMAIN unlocked /\ r = i /\ g[b].at = unlocked[b].at
               /\ IsReferential(u) /\ u.ref = unlocked[b].at /\ (b = a \/ SignerOf(a, u, b))
      <3>1. OwnerOf(inputs'[i]) = a
        BY <1>3 DEF a
      <3>2. b = a \/ OnSigner(i, b)
        BY <1>13, <1>14, <2>2
      <3>3. QED
        BY <1>3, <2>2, <3>1, <3>2 DEF u
    <2>3. g[b] # Entry(i)
      BY <1>14 DEF Entry
    <2>4. QED
      BY <1>6, <2>1, <2>2, <2>3 DEF EntryFate
  <1>15. ASSUME NEW j \in DOMAIN inputs'
         PROVE  LET b == OwnerOf(inputs'[j]) IN
                  /\ b \in DOMAIN g
                  /\ g[b].at = j \/ j \in g[b].refs \/ (g[b].at < j /\ \E c \in Address : OnSigner(j, c))
    <2>1. CASE j \in DOMAIN inputs
      <3> DEFINE b == OwnerOf(inputs[j])
      <3>1. OwnerOf(inputs'[j]) = b /\ OwnerBooked(j)
        BY <1>3, <2>1 DEF ReferencesInv
      <3>2. /\ b \in DOMAIN unlocked
            /\ \/ unlocked[b].at = j \/ j \in unlocked[b].refs
               \/ unlocked[b].at < j /\ \E c \in Address : BookedOnSigner(j, c)
        BY <3>1 DEF OwnerBooked, UnlockedBy
      <3>3. b \in DOMAIN g /\ g[b].at = unlocked[b].at /\ unlocked[b].refs \subseteq g[b].refs
        BY <1>8, <3>2
      <3> HIDE DEF b, OnSigner
      <3>4. QED
        BY <1>12, <2>1, <3>1, <3>2, <3>3
    <2>2. CASE j = i
      <3>1. OwnerOf(inputs'[j]) = a
        BY <1>3, <2>2 DEF a
      <3>2. \A k \in DOMAIN sigUnlocked : sigUnlocked[k].addr \in DOMAIN unlocked
        BY DEF ReferencesInv
      <3>3. \/ a \in DOMAIN f /\ (f[a].at = i \/ i \in f[a].refs)
            \/ /\ a \in DOMAIN unlocked /\ IsReferential(u)
               /\ \E b \in DOMAIN unlocked : SignerOf(a, u, b) /\ i \in f[b].refs
        BY <1>1, <3>2, UnlockAddressBooks DEF f
      <3>4. a \in DOMAIN f => a \in DOMAIN g /\ g[a] = f[a]
        BY <1>5, <1>7 DEF Upd
      <3>5. CASE a \in DOMAIN f /\ (f[a].at = i \/ i \in f[a].refs)
        BY <2>2, <3>1, <3>4, <3>5
      <3>6. ASSUME a \in DOMAIN unlocked, IsReferential(u), NEW b \in DOMAIN unlocked, SignerOf(a, u, b), i \in f[b].refs
            PROVE  a \in DOMAIN g /\ (i \in g[a].refs \/ (g[a].at < i /\ \E c \in Address : OnSigner(i, c)))
        <4>1. a \in DOMAIN g /\ g[a].at = unlocked[a].at /\ i \in g[b].refs
          BY <1>8, <3>6
        <4>2. unlocked[a].at \in DOMAIN inputs
          BY <3>6 DEF ReferencesInv, OnlyOwnersAndChainsUnlocked
        <4>3. g[a].at < i
          BY <1>9, <4>1, <4>2
        <4>4. b \in Address
          BY <3>6 DEF TypeOK
        <4>5. CASE b = a
          BY <4>1, <4>5
        <4>6. CASE b # a
          <5>1. OnSigner(i, b)
            BY <1>13, <3>6, <4>1, <4>6
          <5> HIDE DEF OnSigner
          <5>2. QED
            BY <4>1, <4>3, <4>4, <5>1
        <4>7. QED
          BY <4>5, <4>6
      <3> HIDE DEF OnSigner
      <3>7. QED
        BY <2>2, <3>1, <3>3, <3>5, <3>6
    <2>3. QED
      BY <1>3, <2>1, <2>2
  <1>16. ChainsAreInputs'
    <2>1. ASSUME NEW b \in DOMAIN g, IsChain(b) PROVE \E j \in DOMAIN inputs' : inputs'[j].chain = b
      <3>1. CASE UnlocksChain(o) /\ b = o.chain
        BY <1>3, <3>1
      <3>2. CASE b \in DOMAIN unlocked
        BY <1>3, <2>1, <3>2 DEF ReferencesInv, ChainsAreInputs
      <3>3. b = a => b \in DOMAIN unlocked
        BY <1>1, <2>1 DEF UnlockAddressOk, CheckUnlock, NonDirectReferenceOk, IsChain, IsMulti, ChainTypes
      <3>4. QED
        BY <1>6, <2>1, <3>1, <3>2, <3>3 DEF EntryFate
    <2>2. QED
      BY <1>2, <2>1 DEF ChainsAreInputs
  <1>17. ASSUME NEW j \in DOMAIN sigUnlocked'
         PROVE  /\ sigUnlocked'[j].addr \in DOMAIN g /\ g[sigUnlocked'[j].addr].at = j
                /\ MatchesAddress(sigUnlocked'[j].key, sigUnlocked'[j].addr)
    <2>1. CASE j \in DOMAIN sigUnlocked /\ sigUnlocked'[j] = sigUnlocked[j]
      BY <1>8, <2>1 DEF ReferencesInv, SignedAreDirect
    <2>2. CASE IsSignature(u) /\ j = i /\ sigUnlocked'[j] = [addr |-> a, key |-> u.key]
      <3>1. MatchesAddress(u.key, a) /\ a \notin DOMAIN unlocked
        BY <1>1, <2>2 DEF UnlockAddressOk, CheckUnlock, SignatureValid, IsSignature, IsReferential, ChainTypes
      <3>2. a \in DOMAIN f
        BY <1>1, UnlockAddressAdds DEF f
      <3>3. f[a] = Entry(i)
        BY <1>4, <3>1, <3>2 DEF EntryFate
      <3>4. a \in DOMAIN g /\ g[a] = f[a]
        BY <1>5, <1>7, <3>2 DEF Upd
      <3>5. QED
        BY <2>2, <3>1, <3>3, <3>4 DEF Entry
    <2>3. sigUnlocked' = IF IsSignature(u) THEN Upd(sigUnlocked, i, [addr |-> a, key |-> u.key]) ELSE sigUnlocked
      BY DEF unlockOutput, i, u, a
    <2>4. QED
      BY <2>1, <2>2, <2>3 DEF Upd
  <1> HIDE DEF OnSigner
  <1>18. ASSUME NEW b \in DOMAIN unlocked'
         PROVE  /\ Referred(b)' /\ unlocked'[b].refs \subseteq DOMAIN inputs'
                /\ \A r \in unlocked'[b].refs : BookedFor(r, b)'
    <2>1. ASSUME NEW r \in unlocked'[b].refs PROVE BookedFor(r, b)'
      <3>1. b = OwnerOf(inputs'[r]) \/ BookedOnSigner(r, b)'
        BY <1>2, <1>11, <1>14, <2>1
      <3>2. QED
        BY <1>2, <3>1 DEF BookedFor, OwnerOf, ReturnAddressCanUnlock
    <2>2. QED
      BY <1>2, <1>14, <2>1 DEF Referred
  <1>19. ASSUME NEW j \in DOMAIN inputs' PROVE OwnerBooked(j)'
    <2>1. OwnerOf(inputs[j])' = OwnerOf(inputs'[j])
      BY <1>2 DEF OwnerOf, ReturnAddressCanUnlock
    <2>2. QED
      BY <1>2, <1>11, <1>15, <2>1 DEF OwnerBooked, UnlockedBy
  <1>20. QED
    BY <1>2, <1>10, <1>16, <1>17, <1>18, <1>19 DEF ReferencesInv, SignedAreDirect

(* What UnlockedBy tells of an input and an address is right in both       *)
(* directions, but for inputs booked on another address of the same key    *)
(* (vm.go, ReferentialUnlockDirectlyUnlockable), and the entry a signature *)
(* shares between both maps is never replaced.                             *)
THEOREM ReferencesStayConsistent == Spec => []ReferencesAreConsistent
  <1>1. Init => ReferencesInv
    <2> SUFFICES ASSUME Init PROVE ReferencesInv
      OBVIOUS
    <2>1. DOMAIN unlocked = {} /\ DOMAIN sigUnlocked = {} /\ DOMAIN inputs = {}
      BY DEF Init, Nothing
    <2>2. QED
      BY <2>1 DEF ReferencesInv, OnlyOwnersAndChainsUnlocked, SignedAreDirect, ChainsAreInputs
  <1>2. AuthorisationInv /\ ReferencesInv /\ [Next]_vars => ReferencesInv'
    <2> SUFFICES ASSUME AuthorisationInv, ReferencesInv, [Next]_vars PROVE ReferencesInv'
      OBVIOUS
    <2>1. ASSUME unlocked' = Nothing, sigUnlocked' = Nothing, inputs' = <<>> PROVE ReferencesInv'
      <3>1. DOMAIN unlocked' = {} /\ DOMAIN sigUnlocked' = {} /\ DOMAIN inputs' = {}
        BY <2>1 DEF Nothing
      <3>2. QED
        BY <3>1 DEF ReferencesInv, OnlyOwnersAndChainsUnlocked, SignedAreDirect, ChainsAreInputs
    <2>2. ASSUME NEW u \in Unlock, ValidateUnlock(u) PROVE ReferencesInv'
      BY <2>1, <2>2 DEF ValidateUnlock, AuthorisationInv, NothingBeforeExecution
    <2>3. ASSUME NEW c \in CommitmentSlot \cup {NoCommitment}, SyntacticallyValid(c) PROVE ReferencesInv'
      BY <2>1, <2>3 DEF SyntacticallyValid, AuthorisationInv, NothingBeforeExecution
    <2>4. ASSUME NEW o \in Output, unlockOutput(o) PROVE ReferencesInv'
      BY <2>4, UnlockOutputKeepsReferences
    <2>5. ASSUME UNCHANGED <<unlocks, inputs, commitment, unlocked, sigUnlocked>> PROVE ReferencesInv'
      BY <2>5 DEF ReferencesInv, OnlyOwnersAndChainsUnlocked, SignedAreDirect, Referred, ChainsAreInputs,
                  BookedFor, BookedOnSigner, OwnerBooked, UnlockedBy, OwnerOf, ReturnAddressCanUnlock
    <2>6. ASSUME NEW o \in Output, RefuseInput(o) PROVE ReferencesInv'
      BY <2>5, <2>6 DEF RefuseInput
    <2>7. CASE UNCHANGED vars
      BY <2>5, <2>7 DEF vars
    <2>8. QED
      BY <2>2, <2>3, <2>4, <2>6, <2>7 DEF Next
  <1>3. ReferencesInv => ReferencesAreConsistent
    BY DEF ReferencesInv, ReferencesAreConsistent, Referred, UnlockedBy, BookedFor, OwnerBooked
  <1>4. QED
    BY <1>1, <1>2, <1>3, AuthorisationHolds, PTL DEF Spec

-----------------------------------------------------------------------------
(***************************************************************************)
(* Exactness of the syntactic validator: as long as it has not refused the *)
(* transaction, its maps are what the unlocks so far amount to.            *)
(***************************************************************************)
SeenIsExact ==
    /\ seen.signatures = {i \in DOMAIN unlocks : IsSignature(unlocks[i])}
    /\ seen.referentials = {i \in DOMAIN unlocks : IsReferential(unlocks[i])}
    /\ seen.multis = {i \in DOMAIN unlocks : unlocks[i].type = "Multi"}
    /\ \A k : k \in seen.signers <=> \E i \in DOMAIN unlocks : IsSignature(unlocks[i]) /\ unlocks[i].key = k
    /\ \A k : k \in seen.signersInMulti <=>
             \E i \in DOMAIN unlocks : unlocks[i].type = "Multi" /\ k \in SignersIn(unlocks[i])
    /\ \A m : m \in seen.multiBytes <=> \E i \in DOMAIN unlocks : unlocks[i].type = "Multi" /\ unlocks[i] = m

AllWellFormed == \A i \in DOMAIN unlocks : WellFormedAt(i)

ExactInv ==
    IF status = "malformed" THEN ~AllWellFormed ELSE AllWellFormed /\ SeenIsExact

(* The next unlock of the transaction. *)
Appended(u) ==
    LET n == Len(unlocks) + 1
    IN  /\ n \in Nat /\ n \notin DOMAIN unlocks /\ DOMAIN unlocks' = DOMAIN unlocks \cup {n}
        /\ \A i : i \in DOMAIN unlocks <=> i \in Nat /\ 1 <= i /\ i < n
        /\ unlocks'[n] = u
        /\ \A i \in DOMAIN unlocks : unlocks'[i] = unlocks[i]

LEMMA AppendedFacts ==
    ASSUME TypeOK, NEW u \in Unlock, unlocks' = Append(unlocks, u)
    PROVE  Appended(u)
  BY DEF TypeOK, Appended

(* A type of unlock is one of these. *)
LEMMA UnlockTypes ==
    ASSUME NEW u \in AnyUnlock
    PROVE  IsSignature(u) \/ IsReferential(u) \/ u.type = "Multi" \/ u.type = "Empty"
  BY DEF AnyUnlock, SignatureUnlock, ReferentialUnlock, EmptyUnlock, MultiUnlock, IsSignature, IsReferential

LEMMA SubUnlockTypes ==
    ASSUME NEW u \in SubUnlock
    PROVE  IsSignature(u) \/ IsReferential(u) \/ u.type = "Multi" \/ u.type = "Empty"
  BY DEF SubUnlock, SignatureUnlock, ReferentialUnlock, EmptyUnlock, NestedMultiUnlock, IsSignature, IsReferential

LEMMA TypesAreExclusive ==
    ASSUME NEW u
    PROVE  /\ IsSignature(u) => ~IsReferential(u) /\ u.type # "Multi" /\ u.type # "Empty"
           /\ IsReferential(u) => u.type # "Multi" /\ u.type # "Empty" /\ u.type # "Signature"
  BY DEF IsSignature, IsReferential, ChainTypes

(* The maps after the next unlock. *)
LEMMA RecordedIsExact ==
    ASSUME TypeOK, SeenIsExact, NEW u \in Unlock, unlocks' = Append(unlocks, u), seen' = Recorded(u, Len(unlocks) + 1)
    PROVE  SeenIsExact'
  <1> DEFINE n == Len(unlocks) + 1
  <1>1. Appended(u)
    BY AppendedFacts
  <1>2. /\ DOMAIN unlocks' = DOMAIN unlocks \cup {n} /\ unlocks'[n] = u
        /\ \A i \in DOMAIN unlocks : unlocks'[i] = unlocks[i] /\ i # n
    BY <1>1 DEF Appended
  <1>3. /\ seen'.signatures = seen.signatures \cup {x \in {n} : IsSignature(u)}
        /\ seen'.referentials = seen.referentials \cup {x \in {n} : IsReferential(u)}
        /\ seen'.multis = seen.multis \cup {x \in {n} : u.type = "Multi"}
        /\ seen'.signers = seen.signers \cup (IF IsSignature(u) THEN {u.key} ELSE {})
        /\ seen'.signersInMulti = seen.signersInMulti \cup (IF u.type = "Multi" THEN SignersIn(u) ELSE {})
        /\ seen'.multiBytes = seen.multiBytes \cup {x \in {u} : u.type = "Multi"}
    BY DEF Recorded
  <1> HIDE DEF n
  <1>4. /\ seen'.signatures = {i \in DOMAIN unlocks' : IsSignature(unlocks'[i])}
        /\ seen'.referentials = {i \in DOMAIN unlocks' : IsReferential(unlocks'[i])}
        /\ seen'.multis = {i \in DOMAIN unlocks' : unlocks'[i].type = "Multi"}
    BY <1>2, <1>3 DEF SeenIsExact
  <1>5. ASSUME NEW k
        PROVE  k \in seen'.signers <=> \E i \in DOMAIN unlocks' : IsSignature(unlocks'[i]) /\ unlocks'[i].key = k
    BY <1>2, <1>3 DEF SeenIsExact
  <1>6. ASSUME NEW k
        PROVE  k \in seen'.signersInMulti <=>
                 \E i \in DOMAIN unlocks' : unlocks'[i].type = "Multi" /\ k \in SignersIn(unlocks'[i])
    BY <1>2, <1>3 DEF SeenIsExact
  <1>7. ASSUME NEW m
        PROVE  m \in seen'.multiBytes <=> \E i \in DOMAIN unlocks' : unlocks'[i].type = "Multi" /\ unlocks'[i] = m
    BY <1>2, <1>3 DEF SeenIsExact
  <1>8. QED
    BY <1>4, <1>5, <1>6, <1>7 DEF SeenIsExact

(* Where a reference may point: what the maps say is what the unlocks say. *)
LEMMA ReferencesExact ==
    ASSUME TypeOK, SeenIsExact, AllWellFormed, NEW u, IsReferential(u), u.ref \in Index
    PROVE  /\ ReferentialOk(u) <=>
                  u.ref < Len(unlocks) + 1 /\ (~Chainable(u) => unlocks[u.ref].type \in {"Signature", "Multi"})
           /\ (IF u.ref \in seen.referentials THEN Chainable(u) ELSE u.ref \in seen.signatures) <=>
                  /\ u.ref < Len(unlocks) + 1 /\ (~Chainable(u) => unlocks[u.ref].type \in {"Signature"})
                  /\ unlocks[u.ref].type # "Multi"
  <1> DEFINE r == u.ref
             w == unlocks[r]
  <1>1. r \in DOMAIN unlocks <=> r < Len(unlocks) + 1
    BY CommittableAgeAssumption DEF TypeOK, Index
  <1>2. CASE r \in DOMAIN unlocks
    <2>1. w \in AnyUnlock /\ w.type # "Empty"
      BY <1>2, TransactionAssumption DEF TypeOK, AllWellFormed, WellFormedAt
    <2>2. IsSignature(w) \/ IsReferential(w) \/ w.type = "Multi"
      BY <2>1, UnlockTypes
    <2>3. /\ r \in seen.signatures <=> IsSignature(w)
          /\ r \in seen.referentials <=> IsReferential(w)
          /\ r \in seen.multis <=> w.type = "Multi"
      BY <1>2 DEF SeenIsExact
    <2>4. /\ IsSignature(w) <=> w.type = "Signature"
          /\ IsReferential(w) => w.type # "Multi" /\ w.type # "Signature"
      BY TypesAreExclusive DEF IsSignature
    <2>5. QED
      BY <1>1, <1>2, <2>2, <2>3, <2>4 DEF ReferentialOk
  <1>3. CASE r \notin DOMAIN unlocks
    BY <1>1, <1>3 DEF ReferentialOk, SeenIsExact
  <1>4. QED
    BY <1>2, <1>3

(* Whom an unlock shares a signer with. *)
LEMMA SignersExact ==
    ASSUME TypeOK, SeenIsExact, NEW k
    PROVE  /\ k \in seen.signers <=> \E i \in DOMAIN unlocks : IsSignature(unlocks[i]) /\ unlocks[i].key = k
           /\ k \in seen.signers \cup seen.signersInMulti <=>
                  \E i \in DOMAIN unlocks : k \in SignersOf(unlocks[i])
  <1>1. ASSUME NEW i \in DOMAIN unlocks
        PROVE  k \in SignersOf(unlocks[i]) <=>
                  \/ IsSignature(unlocks[i]) /\ unlocks[i].key = k
                  \/ unlocks[i].type = "Multi" /\ k \in SignersIn(unlocks[i])
    BY TypesAreExclusive DEF SignersOf
  <1>2. QED
    BY <1>1 DEF SeenIsExact

(* A sub-unlock passes if and only if it is none of the ill-formed ones. *)
LEMMA SubUnlockExact ==
    ASSUME TypeOK, SeenIsExact, AllWellFormed, NEW u \in SubUnlock
    PROVE  SubUnlockOk(u) <=>
              /\ u.type # "Multi"
              /\ IsSignature(u) => u.key \notin seen.signers
              /\ IsReferential(u) =>
                    /\ u.ref < Len(unlocks) + 1 /\ (~Chainable(u) => unlocks[u.ref].type \in {"Signature"})
                    /\ unlocks[u.ref].type # "Multi"
  <1>1. IsReferential(u) => u.ref \in Index
    BY SubUnlockShape
  <1>2. CASE IsReferential(u)
    <2>1. (IF u.ref \in seen.referentials THEN Chainable(u) ELSE u.ref \in seen.signatures) <=>
             /\ u.ref < Len(unlocks) + 1 /\ (~Chainable(u) => unlocks[u.ref].type \in {"Signature"})
             /\ unlocks[u.ref].type # "Multi"
      BY <1>1, <1>2, ReferencesExact
    <2>2. ~IsSignature(u) /\ u.type # "Multi" /\ u.type # "Empty"
      BY <1>2, TypesAreExclusive
    <2>3. QED
      BY <1>2, <2>1, <2>2 DEF SubUnlockOk
  <1>3. CASE ~IsReferential(u)
    BY <1>3, SubUnlockTypes, TypesAreExclusive DEF SubUnlockOk
  <1>4. QED
    BY <1>2, <1>3

(* An unlock that the validator accepts leaves everything well-formed. *)
LEMMA AcceptedIsWellFormed ==
    ASSUME TypeOK, SeenIsExact, AllWellFormed, NEW u \in Unlock, unlocks' = Append(unlocks, u), UnlockOk(u)
    PROVE  AllWellFormed'
  <1>0. PICK n : n = Len(unlocks) + 1
    OBVIOUS
  <1>1. /\ DOMAIN unlocks' = DOMAIN unlocks \cup {n} /\ unlocks'[n] = u /\ n \in Nat
        /\ \A i \in DOMAIN unlocks : unlocks'[i] = unlocks[i] /\ i # n
        /\ \A i : i \in DOMAIN unlocks <=> i \in Nat /\ 1 <= i /\ i < n
    BY <1>0, AppendedFacts DEF Appended
  <1>2. /\ u \in AnyUnlock /\ (IsReferential(u) => u.ref \in Index)
        /\ (u.type = "Multi" => u.unlocks \in Seq(SubUnlock))
        /\ \A i \in DOMAIN unlocks : unlocks[i] \in AnyUnlock
    BY TransactionAssumption, UnlockShape DEF TypeOK
  <1>3. u.type # "Empty"
    BY TypesAreExclusive DEF UnlockOk
  <1>4. IsSignature(u) => SignatureOk(u)
    BY TypesAreExclusive DEF UnlockOk
  <1>5. IsReferential(u) => ReferentialOk(u)
    BY TypesAreExclusive DEF UnlockOk
  <1>6. u.type = "Multi" => MultiOk(u)
    BY TypesAreExclusive DEF UnlockOk
  (* What refers back within the unlocks so far, still does. *)
  <1>7. ASSUME NEW w, NEW i \in DOMAIN unlocks, NEW T, w.ref \in Index, RefersBack(w, i, T)
        PROVE  /\ w.ref \in DOMAIN unlocks /\ unlocks'[w.ref] = unlocks[w.ref]
               /\ w.ref < i /\ (~Chainable(w) => unlocks'[w.ref].type \in T)
    <2>1. w.ref < i /\ w.ref \in Nat /\ 1 <= w.ref /\ i \in Nat /\ i < n
      BY <1>1, <1>7, CommittableAgeAssumption DEF RefersBack, Index
    <2>2. w.ref \in DOMAIN unlocks
      BY <1>1, <2>1
    <2>3. QED
      BY <1>1, <1>7, <2>1, <2>2 DEF RefersBack
  <1>8. ASSUME NEW i \in DOMAIN unlocks PROVE WellFormedAt(i)'
    <2> DEFINE w == unlocks[i]
    <2>1. WellFormedAt(i) /\ unlocks'[i] = w /\ i # n /\ w \in AnyUnlock
      BY <1>1, <1>2 DEF AllWellFormed
    <2>2. w.type # "Empty"
      BY <2>1 DEF WellFormedAt
    <2>3. ASSUME IsSignature(w), NEW j \in DOMAIN unlocks' \ {i} PROVE w.key \notin SignersOf(unlocks'[j])
      <3>1. CASE j \in DOMAIN unlocks
        BY <1>1, <2>1, <2>3, <3>1 DEF WellFormedAt
      <3>2. CASE j = n
        <4>1. w.key \in seen.signers
          BY <2>3 DEF SeenIsExact
        <4>2. IsSignature(u) => u.key # w.key
          BY <1>4, <4>1 DEF SignatureOk
        <4>3. u.type = "Multi" => w.key \notin SignersIn(u)
          <5> SUFFICES ASSUME u.type = "Multi", NEW s \in SignaturesIn(u), u.unlocks[s].key = w.key PROVE FALSE
            BY DEF SignersIn
          <5>1. s \in DOMAIN u.unlocks /\ IsSignature(u.unlocks[s])
            BY DEF SignaturesIn
          <5>2. u.unlocks[s].key \notin seen.signers
            BY <1>6, <5>1, TypesAreExclusive DEF MultiOk, SubUnlockOk
          <5>3. QED
            BY <4>1, <5>2
        <4>4. QED
          BY <1>1, <3>2, <4>2, <4>3 DEF SignersOf
      <3>3. QED
        BY <1>1, <3>1, <3>2
    <2>4. IsReferential(w) => RefersBack(w, i, {"Signature", "Multi"})'
      <3> SUFFICES ASSUME IsReferential(w) PROVE RefersBack(w, i, {"Signature", "Multi"})'
        OBVIOUS
      <3>1. RefersBack(w, i, {"Signature", "Multi"}) /\ w.ref \in Index
        BY <2>1, UnlockShape DEF WellFormedAt
      <3>2. w.ref < i /\ (~Chainable(w) => unlocks'[w.ref].type \in {"Signature", "Multi"})
        BY <1>7, <3>1
      <3>3. QED
        BY <2>1, <3>2 DEF RefersBack
    <2>5. ASSUME w.type = "Multi", NEW j \in DOMAIN unlocks' \ {i} PROVE unlocks'[j] # w
      <3>1. CASE j \in DOMAIN unlocks
        BY <1>1, <2>1, <2>5, <3>1 DEF WellFormedAt
      <3>2. CASE j = n
        <4>1. w \in seen.multiBytes
          BY <2>5 DEF SeenIsExact
        <4>2. u # w
          BY <1>6, <2>5, <4>1 DEF MultiOk
        <4>3. QED
          BY <1>1, <3>2, <4>2
      <3>3. QED
        BY <1>1, <3>1, <3>2
    <2>6. ASSUME w.type = "Multi", NEW s \in DOMAIN w.unlocks
          PROVE  /\ w.unlocks[s].type # "Multi"
                 /\ IsReferential(w.unlocks[s]) =>
                       /\ w.unlocks[s].ref < i
                       /\ ~Chainable(w.unlocks[s]) => unlocks'[w.unlocks[s].ref].type \in {"Signature"}
                       /\ unlocks'[w.unlocks[s].ref].type # "Multi"
      <3> DEFINE x == w.unlocks[s]
      <3>1. /\ x.type # "Multi"
            /\ IsReferential(x) => RefersBack(x, i, {"Signature"}) /\ unlocks[x.ref].type # "Multi"
        BY <2>1, <2>6 DEF WellFormedAt
      <3>2. x \in SubUnlock
        BY <2>1, <2>6, UnlockShape
      <3>3. IsReferential(x) => x.ref \in Index
        BY <3>2, SubUnlockShape
      <3> HIDE DEF x
      <3>4. ASSUME IsReferential(x)
            PROVE  /\ x.ref < i /\ (~Chainable(x) => unlocks'[x.ref].type \in {"Signature"})
                   /\ unlocks'[x.ref].type # "Multi"
        <4>1. RefersBack(x, i, {"Signature"}) /\ x.ref \in Index /\ unlocks[x.ref].type # "Multi"
          BY <3>1, <3>3, <3>4
        <4>2. QED
          BY <1>7, <4>1
      <3>5. QED
        BY <3>1, <3>4 DEF x
    <2>7. QED
      BY <2>1, <2>2, <2>3, <2>4, <2>5, <2>6 DEF WellFormedAt, RefersBack
  <1>9. WellFormedAt(n)'
    <2>1. ASSUME IsSignature(u), NEW j \in DOMAIN unlocks' \ {n} PROVE u.key \notin SignersOf(unlocks'[j])
      BY <1>1, <1>4, <2>1, SignersExact DEF SignatureOk
    <2>2. ASSUME NEW w, NEW T, w.ref \in Index, w.ref < n, ~Chainable(w) => unlocks[w.ref].type \in T
          PROVE  /\ w.ref \in DOMAIN unlocks /\ unlocks'[w.ref] = unlocks[w.ref]
                 /\ ~Chainable(w) => unlocks'[w.ref].type \in T
      <3>1. w.ref \in DOMAIN unlocks
        BY <1>1, <2>2, CommittableAgeAssumption DEF Index
      <3>2. QED
        BY <1>1, <2>2, <3>1
    <2>3. ASSUME IsReferential(u)
          PROVE  u.ref < n /\ (~Chainable(u) => unlocks'[u.ref].type \in {"Signature", "Multi"})
      <3>1. u.ref < n /\ (~Chainable(u) => unlocks[u.ref].type \in {"Signature", "Multi"}) /\ u.ref \in Index
        BY <1>2, <1>5, <2>3, <1>0, ReferencesExact
      <3>2. QED
        BY <2>2, <3>1
    <2>4. ASSUME u.type = "Multi", NEW j \in DOMAIN unlocks' \ {n} PROVE unlocks'[j] # u
      BY <1>1, <1>6, <2>4 DEF MultiOk, SeenIsExact
    <2>5. ASSUME u.type = "Multi", NEW s \in DOMAIN u.unlocks
          PROVE  /\ u.unlocks[s].type # "Multi"
                 /\ IsReferential(u.unlocks[s]) =>
                       /\ u.unlocks[s].ref < n
                       /\ ~Chainable(u.unlocks[s]) => unlocks'[u.unlocks[s].ref].type \in {"Signature"}
                       /\ unlocks'[u.unlocks[s].ref].type # "Multi"
      <3> DEFINE x == u.unlocks[s]
      <3>1. x \in SubUnlock /\ SubUnlockOk(x)
        BY <1>2, <1>6, <2>5 DEF MultiOk
      <3>2. IsReferential(x) => x.ref \in Index
        BY <3>1, SubUnlockShape
      <3> HIDE DEF x
      <3>3. /\ x.type # "Multi"
            /\ IsReferential(x) =>
                  /\ x.ref < n /\ (~Chainable(x) => unlocks[x.ref].type \in {"Signature"})
                  /\ unlocks[x.ref].type # "Multi"
        BY <3>1, <1>0, SubUnlockExact
      <3>4. ASSUME IsReferential(x)
            PROVE  /\ x.ref < n /\ (~Chainable(x) => unlocks'[x.ref].type \in {"Signature"})
                   /\ unlocks'[x.ref].type # "Multi"
        BY <2>2, <3>2, <3>3, <3>4
      <3>5. QED
        BY <3>3, <3>4 DEF x
    <2>6. QED
      BY <1>1, <1>3, <2>1, <2>3, <2>4, <2>5 DEF WellFormedAt, RefersBack
  <1>10. QED
    BY <1>1, <1>8, <1>9 DEF AllWellFormed

(* An unlock that the validator refuses makes one of them ill-formed: this *)
(* one, or the signature whose signer it repeats inside of a multi unlock. *)
LEMMA RefusedIsMalformed ==
    ASSUME TypeOK, SeenIsExact, AllWellFormed, NEW u \in Unlock, unlocks' = Append(unlocks, u), AllWellFormed'
    PROVE  UnlockOk(u)
  <1>1. PICK n : n = Len(unlocks) + 1
    OBVIOUS
  <1>2. /\ DOMAIN unlocks' = DOMAIN unlocks \cup {n} /\ unlocks'[n] = u /\ n \in Nat
        /\ \A i \in DOMAIN unlocks : unlocks'[i] = unlocks[i] /\ i # n
        /\ \A i : i \in DOMAIN unlocks <=> i \in Nat /\ 1 <= i /\ i < n
    BY <1>1, AppendedFacts DEF Appended
  <1>3. /\ u \in AnyUnlock /\ (IsReferential(u) => u.ref \in Index)
        /\ (u.type = "Multi" => u.unlocks \in Seq(SubUnlock))
    BY TransactionAssumption, UnlockShape
  <1>4. /\ u.type # "Empty"
        /\ IsSignature(u) => \A j \in DOMAIN unlocks' \ {n} : u.key \notin SignersOf(unlocks'[j])
        /\ IsReferential(u) => u.ref < n /\ (~Chainable(u) => unlocks'[u.ref].type \in {"Signature", "Multi"})
        /\ u.type = "Multi" =>
              /\ \A j \in DOMAIN unlocks' \ {n} : unlocks'[j] # u
              /\ \A s \in DOMAIN u.unlocks :
                    /\ u.unlocks[s].type # "Multi"
                    /\ IsReferential(u.unlocks[s]) =>
                          /\ u.unlocks[s].ref < n
                          /\ ~Chainable(u.unlocks[s]) => unlocks'[u.unlocks[s].ref].type \in {"Signature"}
                          /\ unlocks'[u.unlocks[s].ref].type # "Multi"
    <2>1. WellFormedAt(n)'
      BY <1>2 DEF AllWellFormed
    <2>2. QED
      BY <1>2, <2>1 DEF WellFormedAt, RefersBack
  <1>5. ASSUME NEW r \in Index, r < n PROVE unlocks'[r] = unlocks[r]
    <2>1. r \in DOMAIN unlocks
      BY <1>2, <1>5, CommittableAgeAssumption DEF Index
    <2>2. QED
      BY <1>2, <2>1
  <1>6. CASE IsSignature(u)
    <2>1. ASSUME NEW j \in DOMAIN unlocks PROVE u.key \notin SignersOf(unlocks[j])
      BY <1>2, <1>4, <1>6
    <2>2. u.key \notin seen.signers \cup seen.signersInMulti
      BY <2>1, SignersExact
    <2>3. QED
      BY <1>6, <2>2 DEF UnlockOk, SignatureOk
  <1>7. CASE IsReferential(u)
    <2>1. u.ref < n /\ (~Chainable(u) => unlocks[u.ref].type \in {"Signature", "Multi"})
      BY <1>3, <1>4, <1>5, <1>7
    <2>2. ReferentialOk(u)
      BY <1>1, <1>3, <1>7, <2>1, ReferencesExact
    <2>3. QED
      BY <1>7, <2>2 DEF UnlockOk
  <1>8. CASE u.type = "Multi"
    <2>1. u \notin seen.multiBytes
      BY <1>2, <1>4, <1>8 DEF SeenIsExact
    <2>2. ASSUME NEW s \in DOMAIN u.unlocks PROVE SubUnlockOk(u.unlocks[s])
      <3> DEFINE x == u.unlocks[s]
      <3>1. x \in SubUnlock
        BY <1>3, <1>8
      <3>2. IsSignature(x) => x.key \notin seen.signers
        <4> SUFFICES ASSUME IsSignature(x), x.key \in seen.signers PROVE FALSE
          OBVIOUS
        <4>1. PICK i \in DOMAIN unlocks : IsSignature(unlocks[i]) /\ unlocks[i].key = x.key
          BY SignersExact
        <4>2. WellFormedAt(i)' /\ unlocks'[i] = unlocks[i] /\ n \in DOMAIN unlocks' \ {i}
          BY <1>2 DEF AllWellFormed
        <4>3. unlocks'[i].key \notin SignersOf(unlocks'[n])
          BY <4>1, <4>2 DEF WellFormedAt
        <4>4. x.key \in SignersIn(u)
          BY DEF SignersIn, SignaturesIn
        <4>5. x.key \in SignersOf(u)
          BY <1>8, <4>4, TypesAreExclusive DEF SignersOf
        <4>6. QED
          BY <1>2, <4>1, <4>2, <4>3, <4>5
      <3>3. IsReferential(x) => x.ref \in Index
        BY <3>1, SubUnlockShape
      <3>4. /\ x.type # "Multi"
            /\ IsReferential(x) =>
                  /\ x.ref < n /\ (~Chainable(x) => unlocks'[x.ref].type \in {"Signature"})
                  /\ unlocks'[x.ref].type # "Multi"
        BY <1>4, <1>8
      <3> HIDE DEF x
      <3>5. IsReferential(x) =>
               /\ x.ref < n /\ (~Chainable(x) => unlocks[x.ref].type \in {"Signature"})
               /\ unlocks[x.ref].type # "Multi"
        BY <1>5, <3>3, <3>4
      <3>6. SubUnlockOk(x)
        BY <1>1, <3>1, <3>2, <3>4, <3>5, SubUnlockExact
      <3>7. QED
        BY <3>6 DEF x
    <2>3. QED
      BY <1>8, <2>1, <2>2 DEF UnlockOk, MultiOk
  <1>9. QED
    BY <1>3, <1>4, <1>6, <1>7, <1>8, UnlockTypes

(* The incremental validator of unlock.go refuses a transaction if and     *)
(* only if its unlocks as a whole break the contract.                      *)
THEOREM ValidatorStaysExact == Spec => []ValidatorIsExact
  <1>1. Init => ExactInv
    <2> SUFFICES ASSUME Init PROVE ExactInv
      OBVIOUS
    <2>1. unlocks = <<>> /\ DOMAIN unlocks = {} /\ status # "malformed" /\ seen = NothingSeen
      BY DEF Init
    <2>2. SeenIsExact
      BY <2>1 DEF SeenIsExact, NothingSeen
    <2>3. QED
      BY <2>1, <2>2 DEF ExactInv, AllWellFormed
  <1>2. TypeOK /\ ExactInv /\ [Next]_vars => ExactInv'
    <2> SUFFICES ASSUME TypeOK, ExactInv, [Next]_vars PROVE ExactInv'
      OBVIOUS
    <2>1. ASSUME NEW u \in Unlock, ValidateUnlock(u) PROVE ExactInv'
      <3>1. AllWellFormed /\ SeenIsExact /\ unlocks' = Append(unlocks, u)
        BY <2>1 DEF ExactInv, ValidateUnlock
      <3>2. CASE UnlockOk(u)
        <4>1. seen' = Recorded(u, Len(unlocks) + 1) /\ status' # "malformed"
          BY <2>1, <3>2 DEF ValidateUnlock
        <4>2. SeenIsExact'
          BY <3>1, <4>1, RecordedIsExact
        <4>3. AllWellFormed'
          BY <3>1, <3>2, AcceptedIsWellFormed
        <4>4. QED
          BY <4>1, <4>2, <4>3 DEF ExactInv
      <3>3. CASE ~UnlockOk(u)
        <4>1. status' = "malformed"
          BY <2>1, <3>3 DEF ValidateUnlock
        <4>2. ~AllWellFormed'
          BY <3>1, <3>3, RefusedIsMalformed
        <4>3. QED
          BY <4>1, <4>2 DEF ExactInv
      <3>4. QED
        BY <3>2, <3>3
    <2>2. ASSUME UNCHANGED <<unlocks, seen>>, (status = "malformed") = (status' = "malformed") PROVE ExactInv'
      BY <2>2 DEF ExactInv, AllWellFormed, SeenIsExact, WellFormedAt, RefersBack
    <2>3. ASSUME NEW c \in CommitmentSlot \cup {NoCommitment}, SyntacticallyValid(c) PROVE ExactInv'
      BY <2>2, <2>3 DEF SyntacticallyValid
    <2>4. ASSUME NEW o \in Output, unlockOutput(o) \/ RefuseInput(o) PROVE ExactInv'
      BY <2>2, <2>4 DEF unlockOutput, RefuseInput, NextInput
    <2>5. CASE UNCHANGED vars
      BY <2>2, <2>5 DEF vars
    <2>6. QED
      BY <2>1, <2>3, <2>4, <2>5 DEF Next
  <1>3. ExactInv => ValidatorIsExact
    BY DEF ExactInv, AllWellFormed, ValidatorIsExact
  <1>4. QED
    BY <1>1, <1>2, <1>3, TypeCorrect, PTL DEF Spec
=============================================================================
