------------------------------ MODULE ManaRules ------------------------------
(***************************************************************************)
(* What the virtual machine demands of the mana of a transaction           *)
(* (vm/vm.go, vm/nova/vm.go).  An input knows the stored mana left of it   *)
(* and the potential mana it generated by each slot; both are errors       *)
(* before the slot that created it.  Mana is a 64-bit number: ManaLimit    *)
(* stands for 2^64.                                                        *)
(***************************************************************************)
EXTENDS Integers, Sequences, FiniteSets, FiniteSetsExt

CONSTANTS
    ManaLimit,
    MaxCommittableAge

ASSUME ManaAssumption == ManaLimit \in Nat \ {0} /\ MaxCommittableAge \in Nat

NoAccount == "NoAccount"
EmptyAccountID == "EmptyAccountID"

ManaOf(i, s) == i.stored[s] + i.potential[s]
SumOver(s, f(_)) == MapThenSumSet(LAMBDA k : f(s[k]), DOMAIN s)

-----------------------------------------------------------------------------
Created(t) == \A k \in DOMAIN t.inputs : t.inputs[k].created <= t.creationSlot

TotalManaIn(t) == SumOver(t.inputs, LAMBDA i : ManaOf(i, t.creationSlot)) + t.rewards

TotalManaOut(t) ==
    SumOver(t.outputs, LAMBDA o : o.mana)
    + MapThenSumSet(LAMBDA a : t.allotments[a], DOMAIN t.allotments)

(* NewVMParamsWorkingSet: the totals exist. *)
TotalsExist(t) ==
    Created(t) /\ TotalManaIn(t) < ManaLimit /\ TotalManaOut(t) < ManaLimit

(* ExecFuncBalancedMana *)
BalancedMana(t) ==
    /\ Created(t)
    /\ TotalManaIn(t) >= TotalManaOut(t)
    /\ TotalManaIn(t) > TotalManaOut(t) => t.canBurnMana

(* HasManalockCondition, with HasTimelockUntil. *)
HasManalockCondition(o, a, s) == s < o.timelock /\ o.owner = a

(* Mutant: the slot is bounded for the block only. *)
minManalockedSlotOfBlock(t) == t.commitment + MaxCommittableAge

(* The past bounded slot of the commitment, and MaxCommittableAge more. *)
minManalockedSlot(t) == t.commitment + MaxCommittableAge + MaxCommittableAge

(* The mana that stays with the account of the output o: stored on it,     *)
(* allotted to it or locked to it for long enough.                         *)
ManaOutOfAccount(t, o) ==
    o.mana
    + (IF o.account \in DOMAIN t.allotments THEN t.allotments[o.account] ELSE 0)
    + SumOver(t.outputs, LAMBDA x :
                 IF HasManalockCondition(x, o.account, minManalockedSlot(t)) THEN x.mana ELSE 0)

(* The last part of accountBlockIssuerSTVF: the mana of the consumed       *)
(* account i must not be moved to other outputs or accounts.               *)
ManaStays(t, i) ==
    \A k \in DOMAIN t.outputs :
        LET o == t.outputs[k]
        IN  o.type = "Account" /\ o.account = i.chain =>
                TotalManaIn(t) - ManaOf(i, t.creationSlot) >= TotalManaOut(t) - ManaOutOfAccount(t, o)

BlockIssuersKeepMana(t) ==
    \A k \in DOMAIN t.inputs :
        t.inputs[k].type = "Account" /\ t.inputs[k].issuer => ManaStays(t, t.inputs[k])
=============================================================================
