----------------------------- MODULE BlockBuilder -----------------------------
(***************************************************************************)
(* BasicBlockBuilder and ValidationBlockBuilder (builder/block_builder.go) *)
(* and what a node checks of the block alone (block.go).  A caller sets    *)
(* the parts in any order and signs at some point; Build sorts the parents *)
(* once more, after the signature was made.  A signature is the content it *)
(* was made over, a block ID is a number.                                  *)
(***************************************************************************)
EXTENDS Integers, Sequences, FiniteSets, SequencesExt, Sorting

CONSTANTS
    Parents,            \* the arguments of the setters of parents
    BlockSlot,          \* slots of issuing times and commitments
    ProtocolVersion,    \* versions a caller may set
    APIVersion,         \* version of the API of the builder
    MinAge, MaxAge,     \* MinCommittableAge and MaxCommittableAge
    MaxSetters,         \* bound on the number of calls
    ManaLimit           \* 2^64

VARIABLES
    content,        \* header and body of the block being built
    signature,      \* the content that was signed, or NoSignature
    blockErr,       \* the builder's err
    block,          \* what Build returned: NoBlock, or content and signature
    lastCall,       \* the last call of the builder
    calls           \* the number of calls

blockVars == <<content, signature, blockErr, block, lastCall, calls>>

NoSignature == [type |-> "none"]
NoBlock == [content |-> NoSignature]
NoPayload == [cost |-> 0]

NewBasicBlockBuilder ==
    [type |-> "Basic", version |-> APIVersion, slot |-> Max(BlockSlot), commitment |-> 0, issuer |-> "empty",
     strong |-> <<>>, weak |-> <<>>, likes |-> <<>>, payload |-> NoPayload, burned |-> 0]

NewValidationBlockBuilder ==
    [type |-> "Validation", version |-> APIVersion, slot |-> Max(BlockSlot), commitment |-> 0, issuer |-> "empty",
     strong |-> <<>>, weak |-> <<>>, likes |-> <<>>, highestSupported |-> 0]

(* The elements of p without duplicates, in ascending order. *)
RemoveDupsAndSort(p) == CHOOSE q \in [1..Cardinality(ToSet(p)) -> ToSet(p)] : Ascending(q)

-----------------------------------------------------------------------------
Called(name) ==
    /\ block = NoBlock /\ calls < MaxSetters
    /\ calls' = calls + 1
    /\ lastCall' = name

(* A call of a setter: none has an effect once there is an error. *)
Set(c, name) ==
    /\ Called(name)
    /\ content' = IF blockErr THEN content ELSE c
    /\ UNCHANGED <<signature, blockErr, block>>

SetHeader ==
    \/ \E v \in ProtocolVersion : Set([content EXCEPT !.version = v], "ProtocolVersion")
    \/ \E s \in BlockSlot : Set([content EXCEPT !.slot = s], "IssuingTime")
    \/ \E s \in BlockSlot : Set([content EXCEPT !.commitment = s], "SlotCommitmentID")

(* Mutant: the parents are kept as they are given. *)
SetParentsUnsorted ==
    \E p \in Parents :
        \/ Set([content EXCEPT !.strong = p], "StrongParents")
        \/ Set([content EXCEPT !.weak = p], "WeakParents")
        \/ Set([content EXCEPT !.likes = p], "ShallowLikeParents")

SetParents ==
    \E p \in Parents :
        \/ Set([content EXCEPT !.strong = RemoveDupsAndSort(p)], "StrongParents")
        \/ Set([content EXCEPT !.weak = RemoveDupsAndSort(p)], "WeakParents")
        \/ Set([content EXCEPT !.likes = RemoveDupsAndSort(p)], "ShallowLikeParents")

SetHighestSupportedVersion ==
    /\ content.type = "Validation"
    /\ \E v \in ProtocolVersion : Set([content EXCEPT !.highestSupported = v], "HighestSupportedVersion")

(* Payload *)
SetPayload(p) == content.type = "Basic" /\ Set([content EXCEPT !.payload = p], "Payload")

(* CalculateAndSetMaxBurnedMana: the cost of the payload it has by then,   *)
(* or an error if that overflows.                                          *)
SetMaxBurnedMana(rmc) ==
    LET cost == rmc * content.payload.cost
    IN  /\ content.type = "Basic"
        /\ Called("MaxBurnedMana")
        /\ content' = IF blockErr \/ cost >= ManaLimit THEN content ELSE [content EXCEPT !.burned = cost]
        /\ blockErr' = (blockErr \/ cost >= ManaLimit)
        /\ UNCHANGED <<signature, block>>

(* SignWithSigner: the issuer is part of what is signed; a signer that     *)
(* lacks the key leaves an error.                                          *)
Sign(account, hasKey) ==
    LET issued == [content EXCEPT !.issuer = account]
    IN  /\ Called("Sign")
        /\ content' = IF blockErr THEN content ELSE issued
        /\ signature' = IF blockErr \/ ~hasKey THEN signature ELSE issued
        /\ blockErr' = (blockErr \/ ~hasKey)
        /\ UNCHANGED block

BuildBlock ==
    LET sorted == [content EXCEPT !.strong = Sort(@), !.weak = Sort(@), !.likes = Sort(@)]
    IN  /\ block = NoBlock /\ ~blockErr
        /\ content' = sorted
        /\ block' = [content |-> sorted, signature |-> signature]
        /\ UNCHANGED <<signature, blockErr, lastCall, calls>>

-----------------------------------------------------------------------------
(* Block.syntacticallyValidate, without size and network. *)
HeaderValid(c) ==
    /\ c.version = APIVersion
    /\ ToSet(c.weak) \cap (ToSet(c.strong) \cup ToSet(c.likes)) = {}
    /\ c.commitment > 0 => c.slot >= c.commitment + MinAge
    /\ c.slot <= c.commitment + MaxAge

BasicBodyValid(c) ==
    c.payload # NoPayload =>
        LET t == c.payload
        IN  /\ c.slot >= t.creationSlot
            /\ t.commitment >= 0 =>
                  /\ t.commitment > 0 => c.slot >= t.commitment + MinAge
                  /\ c.slot <= t.commitment + MaxAge
                  /\ t.commitment <= c.commitment

ValidationBodyValid(c) == c.highestSupported >= c.version

(* The array rules of the serializer for the parents. *)
ParentsValid(c, max) ==
    /\ Len(c.strong) \in 1..max /\ Len(c.weak) <= max /\ Len(c.likes) <= max
    /\ \A p \in {c.strong, c.weak, c.likes} : \A i \in 2..Len(p) : p[i - 1] < p[i]

SyntacticallyValid(c) ==
    /\ HeaderValid(c)
    /\ IF c.type = "Basic" THEN BasicBodyValid(c) /\ ParentsValid(c, 8)
                           ELSE ValidationBodyValid(c) /\ ParentsValid(c, 50)
-----------------------------------------------------------------------------
(* A block whose last call before Build was to sign it carries a signature *)
(* over exactly what Build returns: sorting the parents after signing may  *)
(* not change them.                                                        *)
SignedLastIsSigned ==
    block # NoBlock /\ lastCall = "Sign" => block.signature = block.content
=============================================================================
