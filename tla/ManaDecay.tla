------------------------------ MODULE ManaDecay ------------------------------
(***************************************************************************)
(* ManaDecayProvider (mana_decay_provider.go) over the slots and epochs of *)
(* the TimeProvider: mana decays from epoch to epoch and base tokens       *)
(* generate it from slot to slot, in fixed point arithmetic on a word of   *)
(* two halves of HalfBits bits (the code has 32).                          *)
(*                                                                         *)
(* An output with some excess base tokens is created in a slot and moved,  *)
(* by any number of transactions that each carry all of its mana over to   *)
(* the next output of the same amount, as TotalManaIn lets them.           *)
(***************************************************************************)
EXTENDS TimeProvider, Sequences, FiniteSetsExt

CONSTANTS
    HalfBits,
    GenerationRate, GenerationRateExponent,
    DecayFactors, DecayFactorsExponent,
    DecayFactorEpochsSum, DecayFactorEpochsSumExponent,
    DecayNumerator, DecayDenominator,   \* the decay of an epoch that the factors approximate
    Amounts                 \* excess base tokens of the outputs

Half == 2 ^ HalfBits
Word == Half * Half

ASSUME ManaDecayAssumption ==
    /\ HalfBits \in Nat \ {0}
    /\ DecayFactors \in Seq(0 .. Half - 1)
    /\ DecayFactorsExponent \in 0 .. HalfBits
    /\ GenerationRate \in Nat /\ GenerationRateExponent \in Nat
    /\ DecayFactorEpochsSum * GenerationRate < Half
    /\ DecayFactorEpochsSumExponent + GenerationRateExponent >= SlotsPerEpochExponent
    /\ DecayNumerator \in 1 .. DecayDenominator - 1
    /\ \A k \in DOMAIN DecayFactors :
          DecayFactors[k] = (DecayNumerator ^ k * 2 ^ DecayFactorsExponent) \div DecayDenominator ^ k
    /\ DecayFactorEpochsSum = (DecayNumerator * 2 ^ DecayFactorEpochsSumExponent)
                                  \div (DecayDenominator - DecayNumerator)
    /\ Amounts \subseteq 0 .. Word - 1

VARIABLES
    amount, stored,         \* the output: its excess base tokens, its stored mana
    created,                \* the slot it was created in
    origin                  \* the slot its first predecessor was created in

manaVars == <<clockVars, amount, stored, created, origin>>

-----------------------------------------------------------------------------
splitUint64(v) == <<v \div Half, v % Half>>
mergeUint64(h) == ((h[1] * Half) % Word) + h[2]

(* Mutant: the bits shifted out of the upper half are forgotten. *)
multiplySplittedTruncated(h, factor, scale) ==
    LET hi == (h[1] * factor) % Word
        lo == (((h[2] * factor) % Word) \div 2 ^ scale)
    IN  <<(hi \div 2 ^ scale) + lo \div Half, lo % Half>>

(* Both halves are multiplied, and what the shift takes out of the upper   *)
(* half goes into the lower one.                                           *)
fixedPointMultiplication32Splitted(h, factor, scale) ==
    LET hi == (h[1] * factor) % Word
        lo == (hi % 2 ^ scale) * 2 ^ (HalfBits - scale)
              + ((h[2] * factor) % Word) \div 2 ^ scale
    IN  <<(hi \div 2 ^ scale) + lo \div Half, lo % Half>>

(* A scale of more than a half is applied in two steps. *)
fixedPointMultiplication32(v, factor, scale) ==
    LET first == IF scale > HalfBits THEN HalfBits ELSE scale
    IN  mergeUint64(fixedPointMultiplication32Splitted(splitUint64(v), factor, first))
            \div 2 ^ (scale - first)

(* One step of the loop of decay: k epochs by one factor of the table. *)
decayedBy(h, k) ==
    fixedPointMultiplication32Splitted(h, DecayFactors[k], DecayFactorsExponent)

(* Mutant: the table is used once. *)
decayOnce(v, epochDiff) ==
    IF v = 0 \/ epochDiff = 0 \/ DecayFactors = <<>> THEN v
    ELSE LET k == IF epochDiff > Len(DecayFactors) THEN Len(DecayFactors) ELSE epochDiff
         IN  mergeUint64(decayedBy(splitUint64(v), k))

(* The table goes on to be used while epochs are left. *)
decay(v, epochDiff) ==
    LET length == Len(DecayFactors)
        halves[n \in 0 .. epochDiff] ==        \* after n epochs
            IF n = 0 THEN splitUint64(v)
            ELSE LET k == IF n % length = 0 THEN length ELSE n % length
                 IN  decayedBy(halves[n - k], k)
    IN  IF v = 0 \/ epochDiff = 0 \/ length = 0 THEN v
        ELSE mergeUint64(halves[epochDiff])

generateMana(v, slotDiff) ==
    IF slotDiff = 0 \/ GenerationRate = 0 THEN 0
    ELSE fixedPointMultiplication32(v, slotDiff * GenerationRate, GenerationRateExponent)

-----------------------------------------------------------------------------
(* The two failures of the provider: a target before the creation, and a   *)
(* sum or a difference out of a word.                                      *)
Error == -1

safe(v) == IF v \in 0 .. Word - 1 THEN v ELSE Error

DecayManaByEpochs(mana, creationEpoch, targetEpoch) ==
    IF creationEpoch > targetEpoch THEN Error ELSE decay(mana, targetEpoch - creationEpoch)

DecayManaBySlots(mana, creationSlot, targetSlot) ==
    DecayManaByEpochs(mana, EpochFromSlot(creationSlot), EpochFromSlot(targetSlot))

(* The first epoch, in part, and the last one, in part. *)
firstEpoch(v, creationSlot, epochDiff) ==
    decay(generateMana(v, SlotsBeforeNextEpoch(creationSlot)), epochDiff)

lastEpoch(v, targetSlot) == generateMana(v, SlotsSinceEpochStart(targetSlot))

(* What all the epochs of an infinite past would have left by now. *)
allEpochs(v) ==
    fixedPointMultiplication32(v, DecayFactorEpochsSum * GenerationRate,
        DecayFactorEpochsSumExponent + GenerationRateExponent - SlotsPerEpochExponent)

(* The epochs in between, from the sum over an infinite past. *)
manaOfManyEpochs(v, creationSlot, targetSlot, epochDiff) ==
    LET c == allEpochs(v)
        between == safe(c - decay(c, epochDiff - 1))
        afterFirst == safe(between + lastEpoch(v, targetSlot))
        all == safe(afterFirst + firstEpoch(v, creationSlot, epochDiff))
    IN  IF Error \in {between, afterFirst, all} THEN Error
        ELSE safe(all - c \div 2 ^ DecayFactorsExponent)

GenerateManaAndDecayBySlots(v, creationSlot, targetSlot) ==
    LET epochDiff == EpochFromSlot(targetSlot) - EpochFromSlot(creationSlot)
    IN  IF creationSlot > targetSlot THEN Error
        ELSE IF epochDiff = 0 THEN generateMana(v, targetSlot - creationSlot)
        ELSE IF epochDiff = 1 THEN safe(firstEpoch(v, creationSlot, 1) + lastEpoch(v, targetSlot))
        ELSE manaOfManyEpochs(v, creationSlot, targetSlot, epochDiff)

(* What the tokens above the minimum deposit of the output generated. *)
PotentialMana(s) == GenerateManaAndDecayBySlots(amount, created, s)

(* TotalManaIn for the output alone. *)
manaAt(s) ==
    LET rest == DecayManaBySlots(stored, created, s)
        potential == PotentialMana(s)
    IN  IF Error \in {rest, potential} THEN Error ELSE safe(rest + potential)

-----------------------------------------------------------------------------
ManaInit ==
    /\ ClockInit
    /\ amount \in Amounts
    /\ stored = 0
    /\ created = genesisSlot /\ origin = genesisSlot

Time == Tick /\ UNCHANGED <<amount, stored, created, origin>>

(* The first output of the amount is created later than at the genesis. *)
Create ==
    /\ stored = 0 /\ created = genesisSlot /\ origin = genesisSlot
    /\ slot > genesisSlot
    /\ created' = slot /\ origin' = slot
    /\ UNCHANGED <<clockVars, amount, stored>>

(* A transaction of the slot s, not later than now and not earlier than    *)
(* the output, moves the amount and all the mana there is by then, which   *)
(* is balanced.                                                            *)
Move(s) ==
    /\ manaAt(s) # Error
    /\ stored' = manaAt(s)
    /\ created' = s
    /\ UNCHANGED <<clockVars, amount, origin>>

ManaNext == Time \/ Create \/ (\E s \in created .. slot : Move(s))

ManaSpec == ManaInit /\ [][ManaNext]_manaVars

-----------------------------------------------------------------------------
(* The exact mana of the amount held from slot c to slot t, where every    *)
(* slot's generation decays in every epoch that begins after it, is        *)
(* exact(c, t) / unit(c, t).                                               *)
unit(c, t) ==
    2 ^ GenerationRateExponent * DecayDenominator ^ (EpochFromSlot(t) - EpochFromSlot(c))

exact(c, t) ==
    LET weight(s) == DecayNumerator ^ (EpochFromSlot(t) - EpochFromSlot(s))
                     * DecayDenominator ^ (EpochFromSlot(s) - EpochFromSlot(c))
    IN  amount * GenerationRate * MapThenSumSet(weight, c .. t - 1)

(* No mana comes from rounding: through whatever sequence of transactions  *)
(* the amount went, and over however many epochs, its mana is less than 2  *)
(* above what it really generated (the bound of the repository's tests for *)
(* one calculation).  With a genesis slot other than 0 this fails, because *)
(* SlotsBeforeNextEpoch counts the genesis slot in (see                    *)
(* CountsSlotsBeforeNextEpoch).                                            *)
NoManaFromRounding ==
    genesisSlot = 0 =>
        manaAt(slot) * unit(origin, slot) < exact(origin, slot) + 2 * unit(origin, slot)

(* Nor is mana lost to more than rounding: an output that was not moved    *)
(* yields what it generated but for 3 units and twice the share            *)
(* 2^-DecayFactorsExponent of the sum over an infinite past, which the     *)
(* code takes away to stay below the exact value.                          *)
LittleManaIsLost ==
    genesisSlot = 0 /\ created = origin =>
        (manaAt(slot) + 3 + (2 * (allEpochs(amount) + 1)) \div 2 ^ DecayFactorsExponent + 1)
            * unit(origin, slot) >= exact(origin, slot)
=============================================================================
