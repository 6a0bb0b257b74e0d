---------------------------- MODULE AccountFeatures ----------------------------
(***************************************************************************)
(* The block issuer and the staking feature of one account over its life   *)
(* (vm/nova/vm.go): created, also as an implicit account, transitioned by  *)
(* transactions in later and later blocks and finally destroyed.           *)
(*                                                                         *)
(* The virtual machine never learns the slot of the block that carries a   *)
(* transaction, only the commitment the transaction chose, so each action  *)
(* is executed in a block of the current slot with any commitment that a   *)
(* block of this slot may use.  The last three variables remember the past *)
(* for the properties.  What concerns foundries is in Foundries; that mana *)
(* must not be moved off a block issuer account is left out.               *)
(***************************************************************************)
EXTENDS EpochRules

CONSTANTS
    StakingUnbondingPeriod,
    MaxSlotIndex,
    ExpirySlots,            \* expiry slots of block issuer features
    StakedAmounts,          \* what a staking feature stakes and costs
    LastEpoch               \* bound on the end epochs of staking features

ASSUME StakingAssumption ==
    /\ StakingUnbondingPeriod \in Nat
    /\ LastEpoch \in Nat
    /\ GenesisSlot < LastSlot
    /\ MaxSlotIndex \in Nat /\ LastSlot < MaxSlotIndex
    /\ ExpirySlots \subseteq 0..MaxSlotIndex
    /\ StakedAmounts \subseteq Nat

VARIABLES
    account,        \* "none", "implicit", "account" or "destroyed"
    issuer,         \* ExpirySlot of the block issuer feature, or NoIssuer
    staking,        \* the staking feature, or NoStaking
    boundIn,        \* the epoch of the block that last set the end of the staking feature
    claims,         \* how often the rewards of each epoch were claimed
    issuable        \* the last slot over before which the feature had not expired

accountVars == <<slot, account, issuer, staking, boundIn, claims, issuable>>
history == <<boundIn, claims, issuable>>

EpochFromSlot(s) == TP!EpochFromSlot(s)

NoIssuer == -1
NoStaking == [StakedAmount |-> 0, StartEpoch |-> -1, EndEpoch |-> -1]
StakingFeature == [StakedAmount : StakedAmounts, StartEpoch : 0..LastEpoch, EndEpoch : 0..LastEpoch]

PastBoundedEpoch(c) == EpochFromSlot(PastBoundedSlotIndex(c))
FutureBoundedEpoch(c) == EpochFromSlot(FutureBoundedSlotIndex(c))

-----------------------------------------------------------------------------
(* OutputsSyntacticalAccount for an account output with block issuer i and *)
(* staking s.                                                              *)
StakerIssues(i, s) == s # NoStaking => i # NoIssuer

(* OutputsSyntacticalCommitmentInput *)
SyntacticallyValid(c, i, s) ==
    /\ StakerIssues(i, s)
    /\ s # NoStaking \/ i # NoIssuer => c # NoCommitmentInput

(* Mutant: the start of a new feature is taken from the other bound. *)
StakingGenesisFromFuture(c, next) ==
    /\ next.StartEpoch = FutureBoundedEpoch(c)
    /\ next.EndEpoch >= PastBoundedEpoch(c) + StakingUnbondingPeriod

accountStakingGenesisValidation(c, next) ==
    /\ next.StartEpoch = PastBoundedEpoch(c)
    /\ next.EndEpoch >= PastBoundedEpoch(c) + StakingUnbondingPeriod

(* Mutant: the new end need only lie behind the old one or now. *)
StakingNonExpiredUnbounded(c, current, next) ==
    /\ next # NoStaking
    /\ next.StakedAmount = current.StakedAmount
    /\ next.StartEpoch = current.StartEpoch
    /\ next.EndEpoch >= FutureBoundedEpoch(c)

accountStakingNonExpiredValidation(c, current, next) ==
    /\ next # NoStaking
    /\ next.StakedAmount = current.StakedAmount
    /\ next.StartEpoch = current.StartEpoch
    /\ \/ next.EndEpoch = current.EndEpoch
       \/ next.EndEpoch >= PastBoundedEpoch(c) + StakingUnbondingPeriod

accountStakingExpiredValidation(c, current, next) ==
    \/ next = NoStaking
    \/ next = current
    \/ accountStakingGenesisValidation(c, next)

(* Mutant: the feature has ended when its last epoch begins. *)
StakingExpiredEarly(c, current) == FutureBoundedEpoch(c) >= current.EndEpoch

StakingExpired(c, current) == FutureBoundedEpoch(c) > current.EndEpoch

accountStakingSTVF(c, current, next) ==
    /\ current # NoStaking =>
        /\ c # NoCommitmentInput
        /\ IF StakingExpired(c, current)
             THEN accountStakingExpiredValidation(c, current, next)
             ELSE accountStakingNonExpiredValidation(c, current, next)
    /\ current = NoStaking /\ next # NoStaking => accountStakingGenesisValidation(c, next)

(* isRemovingStakingFeature: removed, or changed after its end.  The       *)
(* rewards are claimed in exactly these transactions.                      *)
RemovesStaking(c, current, next) ==
    current # NoStaking /\ StakingExpired(c, current) /\ next # current

(* Mutant: a feature that has not expired may be given any expiry slot. *)
BlockIssuerUnbounded(c, current, next) ==
    \/ current = NoIssuer /\ next = NoIssuer
    \/ /\ c # NoCommitmentInput
       /\ IF current # NoIssuer /\ current >= c
            THEN next # NoIssuer
            ELSE next # NoIssuer => next >= PastBoundedSlotIndex(c)

(* accountBlockIssuerSTVF without the mana it holds back. *)
accountBlockIssuerSTVF(c, current, next) ==
    \/ current = NoIssuer /\ next = NoIssuer
    \/ /\ c # NoCommitmentInput
       /\ IF current # NoIssuer /\ current >= c
            THEN next # NoIssuer /\ (next # current => next >= PastBoundedSlotIndex(c))
            ELSE next # NoIssuer => next >= PastBoundedSlotIndex(c)

accountGenesisValid(c, i, s) ==
    /\ i # NoIssuer => i >= PastBoundedSlotIndex(c)
    /\ s # NoStaking => accountStakingGenesisValidation(c, s)

(* accountBlockIssuanceCreditLocked: bic is the account's credit. *)
NotLocked(bic) == bic >= 0

-----------------------------------------------------------------------------
(* Bookkeeping for the properties when the staking feature becomes next. *)
Claimed(c, next) ==
    claims' = [e \in 0..LastEpoch |->
        IF RemovesStaking(c, staking, next) /\ e \in staking.StartEpoch..staking.EndEpoch
            THEN claims[e] + 1 ELSE claims[e]]

Bound(next) ==
    boundIn' = IF next = NoStaking THEN -1
               ELSE IF next = staking THEN boundIn ELSE EpochFromSlot(slot)

AccountInit ==
    /\ slot = GenesisSlot + 1
    /\ account = "none"
    /\ issuer = NoIssuer
    /\ staking = NoStaking
    /\ boundIn = -1
    /\ claims = [e \in 0..LastEpoch |-> 0]
    /\ issuable = -1

(* The next slot begins. *)
AccountTick ==
    /\ slot < LastSlot
    /\ slot' = slot + 1
    /\ issuable' = IF account = "implicit" \/ issuer >= slot THEN slot ELSE issuable
    /\ UNCHANGED <<account, issuer, staking, boundIn, claims>>

CreateAccount(c, i, s) ==
    /\ account = "none"
    /\ SyntacticallyValid(c, i, s)
    /\ accountGenesisValid(c, i, s)
    /\ account' = "account"
    /\ issuer' = i
    /\ staking' = s
    /\ Bound(s)
    /\ UNCHANGED <<slot, claims, issuable>>

(* An output to an implicit account creation address; it has no features. *)
CreateImplicitAccount ==
    /\ account = "none"
    /\ account' = "implicit"
    /\ UNCHANGED <<slot, issuer, staking, history>>

(* implicitAccountSTVF: as if the block issuer feature never expired. *)
ConvertImplicitAccount(c, i, s, bic) ==
    /\ account = "implicit"
    /\ NotLocked(bic)
    /\ SyntacticallyValid(c, i, s)
    /\ accountBlockIssuerSTVF(c, MaxSlotIndex, i)
    /\ accountGenesisValid(c, i, s)
    /\ account' = "account"
    /\ issuer' = i
    /\ staking' = s
    /\ Bound(s)
    /\ UNCHANGED <<slot, claims, issuable>>

(* accountStateChangeValid *)
TransitionAccount(c, i, s, bic) ==
    /\ account = "account"
    /\ issuer # NoIssuer => NotLocked(bic)
    /\ SyntacticallyValid(c, i, s)
    /\ accountStakingSTVF(c, staking, s)
    /\ accountBlockIssuerSTVF(c, issuer, i)
    /\ issuer' = i
    /\ staking' = s
    /\ Claimed(c, s)
    /\ Bound(s)
    /\ UNCHANGED <<slot, account, issuable>>

(* accountDestructionValid *)
DestroyAccount(c, bic) ==
    /\ account = "account"
    /\ issuer # NoIssuer => c # NoCommitmentInput /\ issuer < c /\ NotLocked(bic)
    /\ staking # NoStaking => c # NoCommitmentInput /\ StakingExpired(c, staking)
    /\ account' = "destroyed"
    /\ issuer' = NoIssuer
    /\ staking' = NoStaking
    /\ Claimed(c, NoStaking)
    /\ Bound(NoStaking)
    /\ UNCHANGED <<slot, issuable>>

AccountCommitments == {c \in (GenesisSlot..slot) \union {NoCommitmentInput} : MayCommit(slot, c)}

(* The staking features worth trying: those that start in one of the two   *)
(* bounded epochs or where the current one does; others are refused.       *)
NextStaking(c) ==
    {NoStaking} \union
    [StakedAmount : StakedAmounts,
     StartEpoch : {PastBoundedEpoch(c), FutureBoundedEpoch(c), staking.StartEpoch}
                    \intersect 0..LastEpoch,
     EndEpoch : 0..LastEpoch]

AccountNext ==
    \/ AccountTick
    \/ CreateImplicitAccount
    \/ \E c \in AccountCommitments, i \in ExpirySlots \union {NoIssuer}, bic \in {-1, 0} :
        \E s \in NextStaking(c) :
            \/ CreateAccount(c, i, s)
            \/ ConvertImplicitAccount(c, i, s, bic)
            \/ TransitionAccount(c, i, s, bic)
    \/ \E c \in AccountCommitments, bic \in {-1, 0} : DestroyAccount(c, bic)

AccountSpec == AccountInit /\ [][AccountNext]_accountVars

-----------------------------------------------------------------------------
(* The features and their history have their types. *)
AccountTypeOK ==
    /\ slot \in (GenesisSlot + 1)..LastSlot
    /\ account \in {"none", "implicit", "account", "destroyed"}
    /\ issuer \in ExpirySlots \union {NoIssuer}
    /\ staking \in StakingFeature \union {NoStaking}
    /\ boundIn \in Int
    /\ claims \in [0..LastEpoch -> Nat]
    /\ issuable \in Int

(* No epoch's rewards are claimed twice: a staking feature that follows    *)
(* another one, in the same transaction or later and with an older         *)
(* commitment, has an epoch range disjoint from all earlier ones           *)
(* (accountStakingExpiredValidation).                                      *)
RewardedOnce == \A e \in 0..LastEpoch : claims[e] <= 1

(* Rewards are claimed for epochs that are over when the claiming block is *)
(* issued, not merely when its commitment says so.  The code counts the    *)
(* end epoch itself as not over (nova/vm.go:449), which this needs and     *)
(* the comments of the two validations deny; see the next property.        *)
RewardedAfterwards == \A e \in 0..LastEpoch : claims[e] > 0 => e < EpochFromSlot(slot)

(* An expired feature may be removed, and expired means, so the comment of *)
(* accountStakingExpiredValidation (nova/vm.go:515), that "the current     *)
(* epoch is equal or after the end epoch".  The code waits for the end of  *)
(* the end epoch.                                                          *)
ExpiredFromEndEpochOn ==
    staking # NoStaking =>
        \A c \in AccountCommitments \ {NoCommitmentInput} :
            FutureBoundedEpoch(c) >= staking.EndEpoch => accountStakingSTVF(c, staking, NoStaking)

(* A stake is withdrawn or changed only when more than the unbonding       *)
(* period has gone by since the block that last set its end: shortening    *)
(* the feature and choosing commitments gains nothing.                     *)
StakeIsBound ==
    [][staking # NoStaking /\ (staking' = NoStaking \/ staking'.StakedAmount # staking.StakedAmount)
        => EpochFromSlot(slot) > boundIn + StakingUnbondingPeriod]_accountVars

(* An account gives up its block issuer feature, or ceases to exist, only  *)
(* after every slot in which it could issue blocks is committed, so that   *)
(* the mana for these blocks is charged: MinCommittableAge slots after the *)
(* last of them, even if the expiry slot was lowered before.               *)
IssuerIsAccountable ==
    [][(issuer # NoIssuer \/ account = "implicit") /\ issuer' = NoIssuer /\ account' # "implicit"
        => slot > issuable + MinCommittableAge]_accountVars
=============================================================================
