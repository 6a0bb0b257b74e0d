--------------------------- MODULE BuiltTransactions ---------------------------
(***************************************************************************)
(* A transaction on its way: the transaction builder builds it, the block  *)
(* builder wraps it into a block (BuildAndSwapToBlockBuilder), the         *)
(* validators of Unlocks read its unlocks and resolve its inputs.          *)
(***************************************************************************)
EXTENDS TransactionBuilder

CONSTANTS
    Key, Members, Weight, Threshold,    \* as in Unlocks
    MinCommittableAge,
    Parents, BlockSlot, MaxSetters      \* as in BlockBuilder

VARIABLES
    status, unlocks, resolved, vmCommitment, seen, unlocked, sigUnlocked,   \* Unlocks
    content, signature, blockErr, block, lastCall, calls                    \* BlockBuilder

U == INSTANCE Unlocks WITH
        inputs <- resolved, commitment <- vmCommitment, Address <- DOMAIN AddressType,
        Output <- UNION {w.held : w \in Wallet}, Unlock <- {}, CommitmentSlot <- {}

BB == INSTANCE BlockBuilder WITH
        ProtocolVersion <- {3}, APIVersion <- 3, MinAge <- MinCommittableAge, MaxAge <- MaxCommittableAge

(* What the ledger holds: an account, anchor or NFT output carries a chain *)
(* with an address of its type.                                            *)
IsHeld(i) ==
    /\ {"type", "owner", "governor", "return", "chain", "delta", "expiration", "new"} \subseteq DOMAIN i
    /\ IF i.type \in U!ChainTypes
       THEN i.chain \in DOMAIN AddressType /\ AddressType[i.chain] = i.type
       ELSE i.chain = U!NoChain

ASSUME WalletAssumption ==
    /\ U!NoChain \notin DOMAIN AddressType
    /\ \A w \in Wallet :
          /\ \A i \in w.held : IsHeld(i)
          /\ \A o \in w.wanted : "timelock" \in DOMAIN o /\ o.timelock \in Nat
          /\ w.commitments \subseteq Nat

ASSUME BlockAssumption ==
    /\ Parents \subseteq Seq(Nat)
    /\ BlockSlot \subseteq Nat /\ IsFiniteSet(BlockSlot) /\ BlockSlot # {}
    /\ MaxInputs \in Nat

vmVars == <<status, unlocks, resolved, vmCommitment, seen, unlocked, sigUnlocked>>
blockVars == <<content, signature, blockErr, block, lastCall, calls>>
allVars == <<vars, vmVars, blockVars>>

-----------------------------------------------------------------------------
Payload(t) == [cost |-> WorkScore(Cardinality(DOMAIN t.allotments), t.unlocks),
               creationSlot |-> t.creationSlot, commitment |-> t.commitment]

(* BuildAndSwapToBlockBuilder *)
SwapToBlockBuilder ==
    /\ Built /\ wallet.then = "block" /\ content.payload = BB!NoPayload
    /\ BB!SetPayload(Payload(tx))
    /\ UNCHANGED <<vars, vmVars>>

BlockStep ==
    /\ content.type = "Basic" => content.payload # BB!NoPayload
    /\ \/ BB!SetHeader \/ BB!SetParents \/ BB!SetHighestSupportedVersion
       \/ \E r \in wallet.rmc : BB!SetMaxBurnedMana(r)
       \/ \E a \in wallet.issuers, ok \in BOOLEAN : BB!Sign(a, ok)
       \/ BB!BuildBlock
    /\ UNCHANGED <<vars, vmVars>>

(* The syntactic validator reads the next unlock. *)
ReadUnlock ==
    /\ Built /\ wallet.then = "vm" /\ Len(unlocks) < Len(tx.unlocks)
    /\ U!ValidateUnlock(tx.unlocks[Len(unlocks) + 1])
    /\ UNCHANGED <<vars, blockVars>>

(* SignedTransaction.syntacticallyValidate passed. *)
StartVM ==
    /\ Built /\ Len(unlocks) = Len(tx.unlocks)
    /\ U!SyntacticallyValid(tx.commitment)
    /\ UNCHANGED <<vars, blockVars>>

(* ValidateUnlocks of the virtual machine resolves the next input. *)
ResolveInput ==
    /\ status = "semantic"
    /\ LET o == tx.inputs[Len(resolved) + 1] IN U!unlockOutput(o) \/ U!RefuseInput(o)
    /\ UNCHANGED <<vars, blockVars>>

BuilderStep == Next /\ UNCHANGED <<vmVars, blockVars>>

CompositeInit ==
    /\ Init /\ U!Init
    /\ content = IF wallet.then = "validate" THEN BB!NewValidationBlockBuilder ELSE BB!NewBasicBlockBuilder
    /\ signature = BB!NoSignature /\ blockErr = FALSE
    /\ block = BB!NoBlock /\ lastCall = "New" /\ calls = 0

CompositeNext ==
    BuilderStep \/ SwapToBlockBuilder \/ BlockStep \/ ReadUnlock \/ StartVM \/ ResolveInput

CompositeSpec == CompositeInit /\ [][CompositeNext]_allVars

-----------------------------------------------------------------------------
(* The caller named the address that may unlock each input, as of the      *)
(* commitment input.                                                       *)
RightTargets ==
    \A k \in DOMAIN tx.inputs :
        /\ U!CanBeUnlocked(tx.inputs[k])
        /\ resolveUnderlyingAddress(tx.inputs[k].target) = U!OwnerOf(tx.inputs[k])

(* An input belongs to an anchor that is governed or destroyed here, which *)
(* only the virtual machine can tell.                                      *)
OwnedByGovernedAnchor ==
    \E j, k \in DOMAIN tx.inputs :
        /\ tx.inputs[j].type = "Anchor" /\ tx.inputs[j].delta # "state"
        /\ resolveUnderlyingAddress(tx.inputs[k].target) = tx.inputs[j].chain

(* What build() unlocks, the validators accept: the references it picks    *)
(* for repeated signers, for chains and for chains owned by chains are the *)
(* ones that the syntactic validator and the virtual machine look for.     *)
BuiltUnlocksAccepted ==
    /\ status # "malformed"
    /\ status = "rejected" => ~RightTargets \/ OwnedByGovernedAnchor

(* SignedLastIsSigned of BlockBuilder. *)
BlockIsSigned == BB!SignedLastIsSigned

(* Mana that the virtual machine counts as locked to an account is still   *)
(* locked MaxCommittableAge slots after any block that may carry the       *)
(* transaction.                                                            *)
ManaLockOutlivesBlock ==
    Built /\ block.content.type = "Basic" /\ BB!SyntacticallyValid(block.content) /\ tx.commitment # NoCommitment =>
        \A k \in DOMAIN tx.outputs :
            LET o == tx.outputs[k]
            IN  HasManalockCondition(o, o.owner, minManalockedSlot(tx)) =>
                    o.timelock > block.content.slot + MaxCommittableAge
=============================================================================
