------------------------- MODULE LedgerAndClockProofs -------------------------
(***************************************************************************)
(* Proofs about OutputLedger, for all sets of candidates, any number of    *)
(* transactions and any number of inputs: a chain keeps the immutable      *)
(* features of its first output, and the two controllers of an anchor each *)
(* change only what is theirs.  Proofs about Foundries and TimeProvider    *)
(* follow: the tokens of the ledger are what the foundries say, and slots  *)
(* and epochs have neither gaps nor overlaps.                              *)
(***************************************************************************)
EXTENDS OutputLedger, Foundries, TimeProvider, FiniteSetTheorems, SequenceTheorems, TLAPS

(* The entry of the ledger for an output of a transaction. *)
Created(outs, k) == [oid |-> <<executed + 1, k>>, out |-> outs[k], chain |-> ChainOf(outs[k])]

(* The outputs of a transaction that begin a chain. *)
Births(outs) == {k \in DOMAIN outs : IsChainOutput(outs[k]) /\ outs[k].id = EmptyID}

(* The addresses that a transaction unlocks. *)
UnlockedBy(ins, outs, late) == {UnlockedFor(i, outs, late) : i \in ins}

-----------------------------------------------------------------------------
(* The unlock conditions of an anchor: its state controller, its governor. *)
AnchorConds(o) ==
    /\ o.conds \in Seq(UnlockConditions) /\ Len(o.conds) = 2
    /\ o.conds[1].t = UC.StateController /\ o.conds[2].t = UC.Governor

(* An output of a chain carries a chain ID, which is known. *)
ChainsAreKnown ==
    /\ \A c \in DOMAIN born : c \notin {EmptyID, NoChain}
    /\ \A i \in ledger :
          /\ i.out.type \in {"Basic", "Anchor", "NFT"}
          /\ IF i.out.type = "Basic" THEN i.chain = NoChain ELSE i.chain \in DOMAIN born

(* No chain has two unspent outputs, not even of two types. *)
OneOutputPerChain ==
    \A i, j \in ledger : i.chain # NoChain /\ i.chain = j.chain => i = j

AnchorsHaveControllers == \A i \in ledger : i.out.type = "Anchor" => AnchorConds(i.out)

(* The inductive invariant of the ledger. *)
LedgerInv ==
    /\ candidates \in DOMAIN Candidates
    /\ ChainsAreKnown
    /\ OneOutputPerChain
    /\ AnchorsHaveControllers
    /\ ImmutableSinceGenesis

-----------------------------------------------------------------------------
(* A transaction, with the part of its rules that the proofs need. *)
Transaction(ins, outs, late, capabilities) ==
    /\ ins \subseteq ledger /\ outs \in Candidates[candidates]
    /\ \A k \in DOMAIN outs : Decodable(outs[k])
    /\ SyntacticallyValid(outs, TRUE)
    /\ ChainTransitionsValid(ins, outs, UnlockedBy(ins, outs, late), capabilities)
    /\ Cardinality(Births(outs)) <= 1
    /\ \A k \in Births(outs) : ChainOf(outs[k]) \notin DOMAIN born

(* Its effect. *)
Effect(ins, outs, late) ==
    /\ ledger' = (ledger \ ins) \cup {Created(outs, k) : k \in DOMAIN outs}
    /\ unlocked' = UnlockedBy(ins, outs, late)
    /\ born' = [c \in DOMAIN born \cup {ChainOf(outs[k]) : k \in Births(outs)} |->
                   IF c \in DOMAIN born THEN born[c]
                   ELSE [imm |-> outs[CHOOSE k \in Births(outs) : ChainOf(outs[k]) = c].imm,
                         by |-> UnlockedBy(ins, outs, late)]]
    /\ candidates' = candidates

(* A step is a transaction. *)
LEMMA StepIsTransaction ==
    ASSUME LedgerNext
    PROVE  \E ins, outs, late, capabilities :
              Transaction(ins, outs, late, capabilities) /\ Effect(ins, outs, late)
<1>1. PICK ins \in UNION {kSubset(n, ledger) : n \in 1..MaxConsumed},
           outs \in Candidates[candidates], late \in BOOLEAN,
           capabilities \in {{}, {"Anchor", "NFT"}} :
              Execute(ins, outs, late, capabilities)
  BY Zenon DEF LedgerNext
<1>2. ins \subseteq ledger
  BY DEF kSubset
<1>3. Transaction(ins, outs, late, capabilities)
  BY <1>1, <1>2, Zenon DEF Execute, Transaction, UnlockedBy, Births
<1>4. Effect(ins, outs, late)
  BY <1>1, Zenon DEF Execute, Effect, UnlockedBy, Births, Created
<1> QED
  BY <1>3, <1>4, Zenon

(* The outputs that a transaction creates. *)
LEMMA CandidateFacts ==
    ASSUME NEW p \in DOMAIN Candidates, NEW outs \in Candidates[p]
    PROVE  /\ Len(outs) \in Nat /\ DOMAIN outs = 1..Len(outs)
           /\ \A k \in DOMAIN outs :
                 /\ outs[k].type \in {"Basic", "Anchor", "NFT"}
                 /\ outs[k].conds \in Seq(UnlockConditions)
<1>1. outs \in Seq(ToSet(outs))
  BY LedgerAssumption
<1> QED
  BY <1>1, LedgerAssumption

(* A transaction begins one chain at most. *)
LEMMA OneBirth ==
    ASSUME NEW ins, NEW outs, NEW late, NEW capabilities, candidates \in DOMAIN Candidates,
           Transaction(ins, outs, late, capabilities),
           NEW j \in Births(outs), NEW k \in Births(outs)
    PROVE  j = k
<1>1. Len(outs) \in Nat /\ DOMAIN outs = 1..Len(outs)
  BY CandidateFacts DEF Transaction
<1>2. IsFiniteSet(DOMAIN outs)
  BY <1>1, FS_Interval
<1>3. IsFiniteSet(Births(outs))
  BY <1>2, FS_Subset DEF Births
<1>4. Cardinality(Births(outs)) \in Nat /\ Cardinality(Births(outs)) <= 1
  BY <1>3, FS_CardinalityType DEF Transaction
<1>5. Cardinality({j}) = 1 /\ IsFiniteSet({j})
  BY FS_Singleton
<1>6. {j} \in SUBSET Births(outs)
  OBVIOUS
<1>7. Cardinality({j}) <= Cardinality(Births(outs)) /\ (Cardinality(Births(outs)) = Cardinality({j}) => Births(outs) = {j})
  BY <1>3, <1>6, FS_Subset
<1>8. Births(outs) = {j}
  BY <1>4, <1>5, <1>7
<1> QED
  BY <1>8

-----------------------------------------------------------------------------
(* The output k begins a chain that nobody has seen before. *)
Begins(ins, outs, late, k) ==
    /\ k \in Births(outs) /\ outs[k].type \in {"Anchor", "NFT"}
    /\ ChainOf(outs[k]) \notin DOMAIN born \cup {EmptyID, NoChain}
    /\ \A f \in All(outs[k].imm, FT.Issuer) : resolveUnderlyingAddress(f.v) \in UnlockedBy(ins, outs, late)

(* The output k is the next one of the chain of the input i. *)
Continues(i, outs, k) ==
    /\ k \in Nexts(i, outs)
    /\ outs[k].type \in {"Anchor", "NFT"} /\ i.out.type = outs[k].type
    /\ outs[k].id # EmptyID /\ outs[k].id = i.chain /\ ChainOf(outs[k]) = i.chain
    /\ i.chain \in DOMAIN born
    /\ StateChangeValid(i.out, outs[k])
    /\ i.out.type = "Anchor" => AnchorOwnerExists(i.out, outs[k])

Fate(ins, outs, late, k) ==
    \/ outs[k].type = "Basic" /\ ChainOf(outs[k]) = NoChain
    \/ Begins(ins, outs, late, k)
    \/ \E i \in ins : Continues(i, outs, k)

LEMMA ContinuesFacts ==
    ASSUME LedgerInv, NEW ins, NEW outs, NEW late, NEW capabilities,
           Transaction(ins, outs, late, capabilities),
           NEW k \in DOMAIN outs, NEW i \in ins, k \in Nexts(i, outs), outs[k].type # "Basic"
    PROVE  Continues(i, outs, k)
<1>1. outs[k].type \in {"Anchor", "NFT"}
  BY CandidateFacts DEF Transaction, LedgerInv
<1>2. i.out.type = outs[k].type /\ outs[k].id = i.chain
  BY DEF Nexts
<1>3. i.chain \in DOMAIN born /\ i.chain # EmptyID
  BY <1>1, <1>2 DEF LedgerInv, ChainsAreKnown, Transaction
<1>4. ChainOf(outs[k]) = i.chain
  BY <1>1, <1>2, <1>3 DEF ChainOf, IsChainOutput
<1>5. /\ StateChangeValid(i.out, outs[k])
      /\ i.out.type = "Anchor" => AnchorOwnerExists(i.out, outs[k])
  <2>1. IsChainOutput(i.out)
    BY <1>1, <1>2 DEF IsChainOutput
  <2> QED
    BY <2>1 DEF Transaction, ChainTransitionsValid
<1> QED
  BY <1>1, <1>2, <1>3, <1>4, <1>5 DEF Continues

(* Every output that a transaction creates is a basic one, begins a chain  *)
(* or continues the chain of an input.                                     *)
LEMMA OutputHasFate ==
    ASSUME LedgerInv, NEW ins, NEW outs, NEW late, NEW capabilities,
           Transaction(ins, outs, late, capabilities), NEW k \in DOMAIN outs
    PROVE  Fate(ins, outs, late, k)
<1>1. outs[k].type \in {"Basic", "Anchor", "NFT"}
  BY CandidateFacts DEF Transaction, LedgerInv
<1>2. CASE outs[k].type = "Basic"
  BY <1>2 DEF Fate, ChainOf, IsChainOutput
<1>3. CASE outs[k].type # "Basic" /\ \E i \in ins : k \in Nexts(i, outs)
  BY <1>3, ContinuesFacts, Zenon DEF Fate
<1>4. CASE outs[k].type # "Basic" /\ \A i \in ins : k \notin Nexts(i, outs)
  <2>1. IsChainOutput(outs[k])
    BY <1>4 DEF IsChainOutput
  <2>2. GenesisValid(outs[k], UnlockedBy(ins, outs, late))
    BY <1>4, <2>1 DEF Transaction, ChainTransitionsValid
  <2>3. outs[k].id = EmptyID /\ IsIssuerOnOutputUnlocked(outs[k], UnlockedBy(ins, outs, late))
    BY <1>1, <1>4, <2>2 DEF GenesisValid, anchorGenesisValid, nftGenesisValid
  <2>4. k \in Births(outs)
    BY <2>1, <2>3 DEF Births
  <2>5. ChainOf(outs[k]) \notin DOMAIN born
    BY <2>4 DEF Transaction
  <2>6. ChainOf(outs[k]) = ChainID[outs[k].type]
    BY <2>1, <2>3 DEF ChainOf
  <2>7. ChainOf(outs[k]) \notin {EmptyID, NoChain}
    BY <1>1, <1>4, <2>6, LedgerAssumption
  <2> QED
    BY <1>1, <1>4, <2>3, <2>4, <2>5, <2>7 DEF Fate, Begins, IsIssuerOnOutputUnlocked
<1> QED
  BY <1>1, <1>2, <1>3, <1>4

(* A chain has one next output, and then the input is the only one of the  *)
(* chain.                                                                  *)
LEMMA NextIsUnique ==
    ASSUME LedgerInv, NEW ins, NEW outs, NEW late, NEW capabilities,
           Transaction(ins, outs, late, capabilities),
           NEW j \in DOMAIN outs, NEW k \in DOMAIN outs, NEW h \in ins, NEW i \in ins,
           Continues(h, outs, j), Continues(i, outs, k), h.chain = i.chain
    PROVE  h = i /\ j = k
<1>1. h \in ledger /\ i \in ledger /\ i.chain # NoChain
  BY DEF Transaction, Continues, LedgerInv, ChainsAreKnown
<1>2. h = i
  BY <1>1 DEF LedgerInv, OneOutputPerChain
<1>3. outs[j].type = outs[k].type /\ outs[j].id = outs[k].id /\ outs[j].id # EmptyID /\ IsChainOutput(outs[j])
  BY <1>2 DEF Continues, IsChainOutput
<1>4. ChainConstrainedOutputUniqueness(outs)
  BY DEF Transaction, SyntacticallyValid
<1>5. j = k
  BY <1>3, <1>4 DEF ChainConstrainedOutputUniqueness
<1> QED
  BY <1>2, <1>5

-----------------------------------------------------------------------------
(* What the API decodes and the validators accept as an anchor has just    *)
(* the two controllers, in their order.                                    *)
LEMMA ValidAnchorConds ==
    ASSUME NEW o, o.type = "Anchor", o.conds \in Seq(UnlockConditions),
           Decodable(o), UnlockConditionLexicalOrderAndUniqueness(o)
    PROVE  AnchorConds(o)
<1> DEFINE c == o.conds
<1>1. Len(c) \in Nat /\ DOMAIN c = 1..Len(c)
  BY LenProperties
<1>2. OutputRules[o.type] = AnchorOutputRules
  BY DEF OutputRules
<1>3. {4, 5} \subseteq Types(c) /\ Types(c) \subseteq {4, 5}
  BY <1>2 DEF Decodable, ArraysDecodable, AnchorOutputRules, ArrayRules, UC
<1>4. \A i \in 1..Len(c) : c[i].t \in {4, 5}
  BY <1>1, <1>3 DEF Types, ToSet
<1>5. \A i \in 2..Len(c) : c[i - 1].t < c[i].t
  BY DEF UnlockConditionLexicalOrderAndUniqueness, LexicalOrderAndUniqueness
<1>6. PICK i \in 1..Len(c), j \in 1..Len(c) : c[i].t = 4 /\ c[j].t = 5
  BY <1>1, <1>3 DEF Types, ToSet
<1> HIDE DEF c
<1>7. Len(c) >= 2
  BY <1>1, <1>6
<1>8. c[1].t < c[2].t
  <2>1. c[2 - 1].t < c[2].t
    BY <1>1, <1>5, <1>7
  <2> QED
    BY <2>1
<1>9. ~(Len(c) >= 3)
  <2>1. SUFFICES ASSUME Len(c) >= 3 PROVE FALSE
    OBVIOUS
  <2>2. c[3 - 1].t < c[3].t
    BY <1>1, <1>5, <2>1
  <2>3. c[1].t \in {4, 5} /\ c[2].t \in {4, 5} /\ c[3].t \in {4, 5}
    BY <1>1, <1>4, <2>1
  <2> QED
    BY <1>8, <2>2, <2>3
<1>10. c[1].t = 4 /\ c[2].t = 5
  BY <1>1, <1>4, <1>7, <1>8
<1>11. Len(c) = 2
  BY <1>1, <1>7, <1>9
<1> QED
  BY <1>10, <1>11 DEF AnchorConds, UC, c

(* The accessors of the controllers. *)
LEMMA ControllersOfAnchor ==
    ASSUME NEW o, AnchorConds(o)
    PROVE  StateControllerOf(o) = o.conds[1].addr /\ GovernorOf(o) = o.conds[2].addr
<1>1. DOMAIN o.conds = 1..2
  BY LenProperties DEF AnchorConds
<1>2. ToSet(o.conds) = {o.conds[1], o.conds[2]}
  BY <1>1 DEF ToSet
<1>3. o.conds[1].t = 4 /\ o.conds[2].t = 5
  BY DEF AnchorConds, UC
<1>4. The(o.conds, UC.StateController) = o.conds[1]
  BY <1>2, <1>3 DEF The, UC
<1>5. The(o.conds, UC.Governor) = o.conds[2]
  BY <1>2, <1>3 DEF The, UC
<1> QED
  BY <1>4, <1>5 DEF StateControllerOf, GovernorOf

(* Anchors with the same controllers have the same unlock conditions. *)
LEMMA SameControllers ==
    ASSUME NEW o, NEW next, AnchorConds(o), AnchorConds(next),
           StateControllerOf(o) = StateControllerOf(next), GovernorOf(o) = GovernorOf(next)
    PROVE  o.conds = next.conds
<1> DEFINE c == o.conds
           d == next.conds
<1>1. c \in Seq(UnlockConditions) /\ d \in Seq(UnlockConditions) /\ Len(c) = 2 /\ Len(d) = 2
  BY DEF AnchorConds
<1>2. c[1] \in UnlockConditions /\ c[2] \in UnlockConditions /\ d[1] \in UnlockConditions /\ d[2] \in UnlockConditions
  BY <1>1, ElementOfSeq
<1>3. c[1].t = 4 /\ d[1].t = 4 /\ c[2].t = 5 /\ d[2].t = 5
  BY DEF AnchorConds, UC
<1>4. c[1].addr = d[1].addr /\ c[2].addr = d[2].addr
  BY ControllersOfAnchor
<1>5. ASSUME NEW x \in UnlockConditions, NEW y \in UnlockConditions,
             x.t \in {4, 5}, x.t = y.t, x.addr = y.addr
      PROVE  x = y
  <2>1. ASSUME NEW z \in UnlockConditions, z.t \in {4, 5}
        PROVE  z = [t |-> z.t, addr |-> z.addr, n |-> 0]
    BY <2>1 DEF UnlockConditions, UC
  <2>2. x = [t |-> x.t, addr |-> x.addr, n |-> 0]
    BY <1>5, <2>1
  <2>3. y = [t |-> y.t, addr |-> y.addr, n |-> 0]
    BY <1>5, <2>1
  <2> QED
    BY <1>5, <2>2, <2>3
<1>6. c[1] = d[1] /\ c[2] = d[2]
  BY <1>2, <1>3, <1>4, <1>5
<1> HIDE DEF c, d
<1>7. c = d
  <2>1. \A i \in 1..Len(c) : c[i] = d[i]
    BY <1>1, <1>6
  <2> QED
    BY <1>1, <2>1, SeqEqual
<1> QED
  BY <1>7 DEF c, d

(* An anchor that is continued was unlocked by the controller that its     *)
(* next state index asks for.                                              *)
LEMMA AnchorOwnerUnlocked ==
    ASSUME LedgerInv, NEW ins, NEW outs, NEW late, NEW capabilities,
           Transaction(ins, outs, late, capabilities),
           NEW k \in DOMAIN outs, NEW i \in ins, Continues(i, outs, k), i.out.type = "Anchor"
    PROVE  resolveUnderlyingAddress(AnchorOwner(i.out, outs[k])) \in UnlockedBy(ins, outs, late)
<1>1. k \in Nat
  BY CandidateFacts DEF Transaction, LedgerInv
<1>2. Nexts(i, outs) = {k}
  <2>1. k \in Nexts(i, outs)
    BY DEF Continues
  <2>2. ASSUME NEW j \in Nexts(i, outs) PROVE j = k
    <3>1. j \in DOMAIN outs /\ outs[j].type # "Basic"
      BY DEF Nexts
    <3>2. Continues(i, outs, j)
      BY <3>1, ContinuesFacts
    <3> QED
      BY <3>1, <3>2, NextIsUnique
  <2> QED
    BY <2>1, <2>2
<1>3. Max({k}) = k
  BY <1>1 DEF Max
<1>4. UnlockedFor(i, outs, late) = resolveUnderlyingAddress(AnchorOwner(i.out, outs[k]))
  BY <1>2, <1>3 DEF UnlockedFor
<1> QED
  BY <1>4 DEF UnlockedBy

-----------------------------------------------------------------------------
LEMMA InitEstablishes == LedgerInit => LedgerInv
<1> SUFFICES ASSUME LedgerInit PROVE LedgerInv
  OBVIOUS
<1>1. candidates \in DOMAIN Candidates /\ DOMAIN born = {}
  BY DEF LedgerInit
<1>2. \A i \in ledger : i.chain = NoChain /\ i.out.type = "Basic"
  BY <1>1, LedgerAssumption DEF LedgerInit
<1> QED
  BY <1>1, <1>2 DEF LedgerInv, ChainsAreKnown, OneOutputPerChain, AnchorsHaveControllers, ImmutableSinceGenesis

(* What is known of the chains after a transaction. *)
LEMMA BornGrows ==
    ASSUME LedgerInv, NEW ins, NEW outs, NEW late, NEW capabilities,
           Transaction(ins, outs, late, capabilities), Effect(ins, outs, late)
    PROVE  /\ \A c \in DOMAIN born : c \in DOMAIN born' /\ born'[c] = born[c]
           /\ \A c \in DOMAIN born' : c \notin {EmptyID, NoChain}
           /\ \A k \in Births(outs) :
                 /\ ChainOf(outs[k]) \in DOMAIN born'
                 /\ born'[ChainOf(outs[k])] = [imm |-> outs[k].imm, by |-> UnlockedBy(ins, outs, late)]
<1>1. \A c \in DOMAIN born : c \in DOMAIN born' /\ born'[c] = born[c]
  BY DEF Effect
<1>2. ASSUME NEW k \in Births(outs)
      PROVE  /\ ChainOf(outs[k]) \in DOMAIN born'
             /\ ChainOf(outs[k]) \notin {EmptyID, NoChain}
             /\ born'[ChainOf(outs[k])] = [imm |-> outs[k].imm, by |-> UnlockedBy(ins, outs, late)]
  <2>1. k \in DOMAIN outs
    BY DEF Births
  <2>2. Fate(ins, outs, late, k)
    BY <2>1, OutputHasFate
  <2>3. Begins(ins, outs, late, k)
    BY <2>2 DEF Fate, Births, IsChainOutput, Continues
  <2>4. (CHOOSE j \in Births(outs) : ChainOf(outs[j]) = ChainOf(outs[k])) = k
    BY OneBirth DEF LedgerInv
  <2> QED
    BY <2>3, <2>4 DEF Begins, Effect
<1>3. ASSUME NEW c \in DOMAIN born' PROVE c \notin {EmptyID, NoChain}
  <2>1. DOMAIN born' = DOMAIN born \cup {ChainOf(outs[k]) : k \in Births(outs)}
    BY DEF Effect
  <2>2. CASE c \in DOMAIN born
    BY <2>2 DEF LedgerInv, ChainsAreKnown
  <2>3. CASE \E k \in Births(outs) : c = ChainOf(outs[k])
    BY <1>2, <2>3
  <2> QED
    BY <2>1, <2>2, <2>3
<1> QED
  BY <1>1, <1>2, <1>3

(* An unspent output after a transaction was there before, or is new. *)
LEMMA AfterTransaction ==
    ASSUME NEW ins, NEW outs, NEW late, Effect(ins, outs, late), NEW j \in ledger'
    PROVE  \/ j \in ledger /\ j \notin ins
           \/ \E k \in DOMAIN outs : j.out = outs[k] /\ j.chain = ChainOf(outs[k]) /\ j = Created(outs, k)
BY DEF Effect, Created

LEMMA TransactionKeeps ==
    ASSUME LedgerInv, NEW ins, NEW outs, NEW late, NEW capabilities,
           Transaction(ins, outs, late, capabilities), Effect(ins, outs, late)
    PROVE  LedgerInv'
<1>1. (candidates \in DOMAIN Candidates)'
  BY DEF LedgerInv, Effect
<1>2. /\ \A c \in DOMAIN born : c \in DOMAIN born' /\ born'[c] = born[c]
      /\ \A c \in DOMAIN born' : c \notin {EmptyID, NoChain}
      /\ \A k \in Births(outs) :
            /\ ChainOf(outs[k]) \in DOMAIN born'
            /\ born'[ChainOf(outs[k])] = [imm |-> outs[k].imm, by |-> UnlockedBy(ins, outs, late)]
  BY BornGrows
<1>3. \A k \in DOMAIN outs : Fate(ins, outs, late, k)
  BY OutputHasFate
<1>4. ins \subseteq ledger
  BY DEF Transaction
<1>5. \A k \in DOMAIN outs :
         /\ outs[k].type \in {"Basic", "Anchor", "NFT"}
         /\ outs[k].conds \in Seq(UnlockConditions)
  BY CandidateFacts DEF Transaction, LedgerInv
<1>6. ChainsAreKnown'
  <2>1. ASSUME NEW i \in ledger'
        PROVE  /\ i.out.type \in {"Basic", "Anchor", "NFT"}
               /\ IF i.out.type = "Basic" THEN i.chain = NoChain ELSE i.chain \in DOMAIN born'
    <3>1. CASE i \in ledger
      BY <1>2, <3>1 DEF LedgerInv, ChainsAreKnown
    <3>2. ASSUME NEW k \in DOMAIN outs, i.out = outs[k], i.chain = ChainOf(outs[k])
          PROVE  /\ i.out.type \in {"Basic", "Anchor", "NFT"}
                 /\ IF i.out.type = "Basic" THEN i.chain = NoChain ELSE i.chain \in DOMAIN born'
      <4>1. CASE outs[k].type = "Basic" /\ ChainOf(outs[k]) = NoChain
        BY <3>2, <4>1
      <4>2. CASE Begins(ins, outs, late, k)
        BY <1>2, <3>2, <4>2 DEF Begins
      <4>3. CASE \E h \in ins : Continues(h, outs, k)
        BY <1>2, <3>2, <4>3 DEF Continues
      <4> QED
        BY <1>3, <4>1, <4>2, <4>3 DEF Fate
    <3> QED
      BY <3>1, <3>2, AfterTransaction
  <2> QED
    BY <1>2, <2>1 DEF ChainsAreKnown
<1>7. OneOutputPerChain'
  <2>1. ASSUME NEW j \in DOMAIN outs, ChainOf(outs[j]) # NoChain,
               NEW i \in ledger, i \notin ins, i.chain = ChainOf(outs[j])
        PROVE  FALSE
    <3>1. i.chain \in DOMAIN born
      BY <2>1 DEF LedgerInv, ChainsAreKnown
    <3>2. PICK h \in ins : Continues(h, outs, j)
      BY <1>3, <2>1, <3>1 DEF Fate, Begins
    <3>3. h.chain = i.chain /\ h \in ledger
      BY <1>4, <2>1, <3>2 DEF Continues
    <3>4. h = i
      BY <2>1, <3>3 DEF LedgerInv, OneOutputPerChain
    <3> QED
      BY <2>1, <3>4
  <2>2. ASSUME NEW j \in DOMAIN outs, NEW k \in DOMAIN outs, ChainOf(outs[j]) # NoChain,
               ChainOf(outs[j]) = ChainOf(outs[k])
        PROVE  j = k
    <3>1. Begins(ins, outs, late, j) \/ \E h \in ins : Continues(h, outs, j)
      BY <1>3, <2>2 DEF Fate
    <3>2. Begins(ins, outs, late, k) \/ \E i \in ins : Continues(i, outs, k)
      BY <1>3, <2>2 DEF Fate
    <3>3. CASE Begins(ins, outs, late, j) /\ Begins(ins, outs, late, k)
      BY <3>3, OneBirth DEF Begins, LedgerInv
    <3>4. CASE \E h \in ins : Continues(h, outs, j) /\ \E i \in ins : Continues(i, outs, k)
      <4>1. PICK h \in ins : Continues(h, outs, j)
        BY <3>4
      <4>2. PICK i \in ins : Continues(i, outs, k)
        BY <3>4
      <4>3. h.chain = i.chain
        BY <2>2, <4>1, <4>2 DEF Continues
      <4> QED
        BY <4>1, <4>2, <4>3, NextIsUnique
    <3> QED
      BY <2>2, <3>1, <3>2, <3>3, <3>4 DEF Begins, Continues
  <2>3. ASSUME NEW i \in ledger', NEW j \in ledger', i.chain # NoChain, i.chain = j.chain
        PROVE  i = j
    <3>1. CASE i \in ledger /\ j \in ledger
      BY <2>3, <3>1 DEF LedgerInv, OneOutputPerChain
    <3>2. CASE i \in ledger /\ i \notin ins /\ \E k \in DOMAIN outs : j.chain = ChainOf(outs[k])
      BY <2>1, <2>3, <3>2
    <3>3. CASE j \in ledger /\ j \notin ins /\ \E k \in DOMAIN outs : i.chain = ChainOf(outs[k])
      BY <2>1, <2>3, <3>3
    <3>4. ASSUME NEW k \in DOMAIN outs, NEW l \in DOMAIN outs,
                 i.chain = ChainOf(outs[k]), i = Created(outs, k),
                 j.chain = ChainOf(outs[l]), j = Created(outs, l)
          PROVE  i = j
      <4>1. k = l
        BY <2>2, <2>3, <3>4
      <4> QED
        BY <3>4, <4>1
    <3>5. \/ i \in ledger /\ i \notin ins
          \/ \E k \in DOMAIN outs : i.chain = ChainOf(outs[k]) /\ i = Created(outs, k)
      BY AfterTransaction
    <3>6. \/ j \in ledger /\ j \notin ins
          \/ \E k \in DOMAIN outs : j.chain = ChainOf(outs[k]) /\ j = Created(outs, k)
      BY AfterTransaction
    <3> QED
      BY <3>1, <3>2, <3>3, <3>4, <3>5, <3>6
  <2> QED
    BY <2>3 DEF OneOutputPerChain
<1>8. AnchorsHaveControllers'
  <2>1. ASSUME NEW i \in ledger', i.out.type = "Anchor" PROVE AnchorConds(i.out)
    <3>1. CASE i \in ledger
      BY <2>1, <3>1 DEF LedgerInv, AnchorsHaveControllers
    <3>2. ASSUME NEW k \in DOMAIN outs, i.out = outs[k] PROVE AnchorConds(i.out)
      <4>1. Decodable(outs[k]) /\ UnlockConditionLexicalOrderAndUniqueness(outs[k])
        BY DEF Transaction, SyntacticallyValid
      <4> QED
        BY <1>5, <2>1, <3>2, <4>1, ValidAnchorConds
    <3> QED
      BY <3>1, <3>2, AfterTransaction
  <2> QED
    BY <2>1 DEF AnchorsHaveControllers
<1>9. ImmutableSinceGenesis'
  <2> DEFINE Immutable(o, c, b) ==
        o.imm = b[c].imm /\ \A f \in All(o.imm, FT.Issuer) : resolveUnderlyingAddress(f.v) \in b[c].by
  <2>1. ASSUME NEW i \in ledger, i.chain # NoChain
        PROVE  i.chain \in DOMAIN born /\ Immutable(i.out, i.chain, born)
    BY <2>1 DEF LedgerInv, ChainsAreKnown, ImmutableSinceGenesis
  <2>2. ASSUME NEW k \in DOMAIN outs, ChainOf(outs[k]) # NoChain
        PROVE  Immutable(outs[k], ChainOf(outs[k]), born')
    <3>1. CASE Begins(ins, outs, late, k)
      <4>1. born'[ChainOf(outs[k])] = [imm |-> outs[k].imm, by |-> UnlockedBy(ins, outs, late)]
        BY <1>2, <3>1 DEF Begins
      <4>2. \A f \in All(outs[k].imm, FT.Issuer) : resolveUnderlyingAddress(f.v) \in UnlockedBy(ins, outs, late)
        BY <3>1 DEF Begins
      <4>3. born'[ChainOf(outs[k])].imm = outs[k].imm /\ born'[ChainOf(outs[k])].by = UnlockedBy(ins, outs, late)
        BY <4>1
      <4> QED
        BY <4>2, <4>3
    <3>2. CASE \E h \in ins : Continues(h, outs, k)
      <4>1. PICK h \in ins : Continues(h, outs, k)
        BY <3>2
      <4>2. h \in ledger /\ h.chain = ChainOf(outs[k]) /\ h.chain # NoChain /\ h.chain \in DOMAIN born
        BY <1>4, <2>2, <4>1 DEF Continues
      <4>3. Immutable(h.out, h.chain, born)
        BY <2>1, <4>2
      <4>4. h.out.imm = outs[k].imm
        BY <4>1 DEF Continues, StateChangeValid, anchorStateChangeValid, nftStateChangeValid
      <4>5. born'[h.chain] = born[h.chain]
        BY <1>2, <4>2
      <4> QED
        BY <4>2, <4>3, <4>4, <4>5
    <3> QED
      BY <1>3, <2>2, <3>1, <3>2 DEF Fate
  <2>3. ASSUME NEW i \in ledger', i.chain # NoChain
        PROVE  Immutable(i.out, i.chain, born')
    <3>1. CASE i \in ledger
      BY <1>2, <2>1, <2>3, <3>1
    <3>2. ASSUME NEW k \in DOMAIN outs, i.out = outs[k], i.chain = ChainOf(outs[k])
          PROVE  Immutable(i.out, i.chain, born')
      <4>1. Immutable(outs[k], ChainOf(outs[k]), born')
        BY <2>2, <2>3, <3>2
      <4> QED
        BY <3>2, <4>1
    <3> QED
      BY <3>1, <3>2, AfterTransaction
  <2> QED
    BY <2>3 DEF ImmutableSinceGenesis
<1> QED
  BY <1>1, <1>6, <1>7, <1>8, <1>9 DEF LedgerInv

LEMMA StutterKeeps == LedgerInv /\ UNCHANGED ledgerVars => LedgerInv'
BY DEF LedgerInv, ledgerVars, ChainsAreKnown, OneOutputPerChain, AnchorsHaveControllers, ImmutableSinceGenesis

(* The inductive invariant holds in every state of the ledger: each chain  *)
(* has one unspent output and its anchors have their two controllers.      *)
THEOREM LedgerIsConsistent == LedgerSpec => []LedgerInv
<1>1. LedgerInv /\ [LedgerNext]_ledgerVars => LedgerInv'
  BY StepIsTransaction, TransactionKeeps, StutterKeeps
<1> QED
  BY <1>1, InitEstablishes, PTL DEF LedgerSpec

(* Whatever transactions are executed, an output of a chain has the        *)
(* immutable features of the first one (nftStateChangeValid and            *)
(* anchorStateChangeValid refuse any other), and the issuer they name      *)
(* unlocked an input when the chain began.                                 *)
THEOREM ImmutableFeaturesStay == LedgerSpec => []ImmutableSinceGenesis
<1>1. LedgerInv => ImmutableSinceGenesis
  BY DEF LedgerInv
<1> QED
  BY <1>1, LedgerIsConsistent, PTL

-----------------------------------------------------------------------------
(* One anchor and its next output. *)
Separate(i, j, addrs) ==
    /\ resolveUnderlyingAddress(GovernorOf(i.out)) \notin addrs =>
          /\ i.out.conds = j.out.conds
          /\ FeatureUnchanged(FT.Metadata, i.out.feats, j.out.feats)
    /\ resolveUnderlyingAddress(StateControllerOf(i.out)) \notin addrs =>
          /\ i.out.amount = j.out.amount /\ i.out.index = j.out.index
          /\ FeatureUnchanged(FT.StateMetadata, i.out.feats, j.out.feats)

LEMMA ControllersStayApart ==
    ASSUME LedgerInv, NEW ins, NEW outs, NEW late, NEW capabilities,
           Transaction(ins, outs, late, capabilities), Effect(ins, outs, late), LedgerInv',
           NEW i \in ledger, NEW j \in ledger',
           i.out.type = "Anchor", j.out.type = "Anchor", i.chain = j.chain
    PROVE  Separate(i, j, unlocked')
<1>1. i.chain \in DOMAIN born /\ i.chain # NoChain
  BY DEF LedgerInv, ChainsAreKnown
<1>2. CASE j \in ledger
  <2>1. i = j
    BY <1>1, <1>2 DEF LedgerInv, OneOutputPerChain
  <2> QED
    BY <2>1 DEF Separate, FeatureUnchanged
<1>3. ASSUME NEW k \in DOMAIN outs, j.out = outs[k], j.chain = ChainOf(outs[k])
      PROVE  Separate(i, j, unlocked')
  <2>1. PICK h \in ins : Continues(h, outs, k)
    <3>1. Fate(ins, outs, late, k)
      BY OutputHasFate
    <3> QED
      BY <1>1, <1>3, <3>1 DEF Fate, Begins
  <2>2. h = i
    <3>1. h \in ledger /\ h.chain = i.chain
      BY <1>3, <2>1 DEF Continues, Transaction
    <3> QED
      BY <1>1, <3>1 DEF LedgerInv, OneOutputPerChain
  <2>3. i \in ins /\ Continues(i, outs, k)
    BY <2>1, <2>2
  <2>4. resolveUnderlyingAddress(AnchorOwner(i.out, outs[k])) \in unlocked'
    BY <2>3, AnchorOwnerUnlocked DEF Effect
  <2>5. anchorStateChangeValid(i.out, outs[k])
    BY <2>3 DEF Continues, StateChangeValid
  <2>6. CASE outs[k].index = i.out.index
    <3>1. resolveUnderlyingAddress(GovernorOf(i.out)) \in unlocked'
      BY <2>4, <2>6 DEF AnchorOwner
    <3>2. anchorGovernanceSTVF(i.out, outs[k])
      BY <2>5, <2>6 DEF anchorStateChangeValid
    <3> QED
      BY <1>3, <3>1, <3>2 DEF Separate, anchorGovernanceSTVF
  <2>7. CASE outs[k].index # i.out.index
    <3>1. resolveUnderlyingAddress(StateControllerOf(i.out)) \in unlocked'
      BY <2>4, <2>7 DEF AnchorOwner
    <3>2. anchorStateSTVF(i.out, outs[k])
      BY <2>5, <2>7 DEF anchorStateChangeValid
    <3>3. AnchorConds(i.out) /\ AnchorConds(j.out)
      BY DEF LedgerInv, AnchorsHaveControllers
    <3>4. i.out.conds = j.out.conds
      BY <1>3, <3>2, <3>3, SameControllers DEF anchorStateSTVF
    <3> QED
      BY <1>3, <3>1, <3>2, <3>4 DEF Separate, anchorStateSTVF
  <2> QED
    BY <2>6, <2>7
<1> QED
  BY <1>2, <1>3, AfterTransaction

(* The owner of an anchor is derived from the state index of its next      *)
(* output (AnchorOutput.Owner): without the governor, the conditions and   *)
(* the metadata of an anchor stay, without the state controller its        *)
(* amount, state index and state metadata do.                              *)
THEOREM AnchorPowersAreSeparate == LedgerSpec => PowersAreSeparate
<1> DEFINE Apart ==
        \A i \in ledger, j \in ledger' :
            i.out.type = "Anchor" /\ j.out.type = "Anchor" /\ i.chain = j.chain =>
                /\ resolveUnderlyingAddress(GovernorOf(i.out)) \notin unlocked' =>
                      /\ i.out.conds = j.out.conds
                      /\ FeatureUnchanged(FT.Metadata, i.out.feats, j.out.feats)
                /\ resolveUnderlyingAddress(StateControllerOf(i.out)) \notin unlocked' =>
                      /\ i.out.amount = j.out.amount /\ i.out.index = j.out.index
                      /\ FeatureUnchanged(FT.StateMetadata, i.out.feats, j.out.feats)
<1>1. LedgerInv /\ LedgerInv' /\ [LedgerNext]_ledgerVars => [Apart]_ledgerVars
  <2> SUFFICES ASSUME LedgerInv, LedgerInv', LedgerNext PROVE Apart
    BY Zenon
  <2>1. PICK ins, outs, late, capabilities :
           Transaction(ins, outs, late, capabilities) /\ Effect(ins, outs, late)
    BY StepIsTransaction
  <2>2. ASSUME NEW i \in ledger, NEW j \in ledger',
               i.out.type = "Anchor", j.out.type = "Anchor", i.chain = j.chain
        PROVE  Separate(i, j, unlocked')
    BY <2>1, <2>2, ControllersStayApart
  <2> QED
    BY <2>2 DEF Separate
<1>2. PowersAreSeparate <=> [][Apart]_ledgerVars
  BY DEF PowersAreSeparate
<1> HIDE DEF Apart
<1> QED
  BY <1>1, <1>2, LedgerIsConsistent, PTL DEF LedgerSpec

-----------------------------------------------------------------------------
(***************************************************************************)
(* Foundries, for any accounts, serial numbers and supplies: no foundry is *)
(* created twice, and the tokens of the ledger are what the foundries say. *)
(***************************************************************************)
SupplyInv ==
    FoundriesTypeOK /\ BornOnce /\ SerialsBelowCounter /\ SupplyIsConserved /\ NoOrphanedTokens

(* A token scheme is not the absence of one. *)
LEMMA SchemeIsFoundry ==
    ASSUME NEW s \in SimpleTokenScheme
    PROVE  s # NoFoundry
<1>1. DOMAIN s = {"MaximumSupply", "MintedTokens", "MeltedTokens"}
  BY DEF SimpleTokenScheme
<1>2. DOMAIN NoFoundry = {"none"}
  BY DEF NoFoundry
<1>3. "none" \notin {"MaximumSupply", "MintedTokens", "MeltedTokens"}
  OBVIOUS
<1> QED
  BY <1>1, <1>2, <1>3

LEMMA SchemeFields ==
    ASSUME NEW s \in SimpleTokenScheme
    PROVE  s.MaximumSupply \in Nat /\ s.MintedTokens \in Nat /\ s.MeltedTokens \in Nat
<1>1. s.MaximumSupply \in MaximumSupplies /\ s.MintedTokens \in 0..MaxTokens
        /\ s.MeltedTokens \in 0..MaxTokens
  BY Zenon DEF SimpleTokenScheme
<1>2. MaximumSupplies \subseteq Nat /\ 0..MaxTokens \subseteq Nat
  BY SerialsAssumption
<1> QED
  BY <1>1, <1>2, Zenon

LEMMA InitSupply == FoundriesInit => SupplyInv
<1> SUFFICES ASSUME FoundriesInit PROVE SupplyInv
  OBVIOUS
<1> USE DEF FoundriesInit
<1>1. FoundriesTypeOK
  BY DEF FoundriesTypeOK
<1>2. \A t \in Tokens : t[1] \in Accounts
  BY DEF Tokens
<1>3. BornOnce /\ SerialsBelowCounter
  BY DEF BornOnce, SerialsBelowCounter
<1>4. SupplyIsConserved /\ NoOrphanedTokens
  BY DEF SupplyIsConserved, NoOrphanedTokens
<1> QED
  BY <1>1, <1>3, <1>4 DEF SupplyInv

(* New accounts bring neither foundries nor tokens. *)
LEMMA NewAccountSupply ==
    ASSUME SupplyInv, NEW a \in Accounts, CreateAccount(a) \/ CreateImplicitAccount(a)
    PROVE  SupplyInv'
  BY DEF SupplyInv, CreateAccount, CreateImplicitAccount, FoundriesTypeOK, BornOnce,
         SerialsBelowCounter, SupplyIsConserved, NoOrphanedTokens, Tokens

(* Tokens that move without their foundry stay or are counted as burned. *)
LEMMA TransferSupply ==
    ASSUME SupplyInv, NEW t \in Tokens, NEW in \in 0..MaxTokens, NEW out \in 0..MaxTokens,
           NEW caps, Transfer(t, in, out, caps)
    PROVE  SupplyInv'
<1> USE SerialsAssumption DEF SupplyInv, Transfer, BalancedNativeToken
<1>1. FoundriesTypeOK'
  BY DEF FoundriesTypeOK
<1>2. BornOnce' /\ SerialsBelowCounter'
  BY DEF BornOnce, SerialsBelowCounter
<1>3. circulating[t] + burned[t] = circulating'[t] + burned'[t]
  BY DEF FoundriesTypeOK
<1>4. SupplyIsConserved'
  BY <1>3 DEF SupplyIsConserved, FoundriesTypeOK
<1>5. NoOrphanedTokens'
  BY DEF NoOrphanedTokens, FoundriesTypeOK
<1> QED
  BY <1>1, <1>2, <1>4, <1>5

(* One token of the account of a transaction, with the sums in and out.    *)
LEMMA TokenKeepsSupply ==
    ASSUME SupplyInv, NEW a \in Accounts, NEW s \in Serials,
           NEW next \in Nat \union {Destroyed}, NEW caps,
           NEW ins \in SUBSET Existing(a), NEW news \in SUBSET Serials,
           NEW outs \in [news -> {c \in SimpleTokenScheme : SyntacticalValidation(c)}],
           s \in NewFoundries(ins, outs) => counter[a] < s,
           NEW in \in 0..MaxTokens, NEW out \in 0..MaxTokens,
           in <= circulating[<<a, s>>],
           NativeTokensValid(s, outs, in, out, caps),
           StateTransition(a, s, ins, outs, in, out)
    PROVE  /\ circulating[<<a, s>>] - in + out \in Nat
           /\ s \notin ins \union news => /\ out <= in
                                          /\ foundry[<<a, s>>] = NoFoundry => out = 0 /\ in = 0
           /\ s \in news \ ins => births[<<a, s>>] = 0 /\ foundry[<<a, s>>] = NoFoundry
           /\ s \in news =>
                /\ circulating[<<a, s>>] - in + out + burned[<<a, s>>]
                        = outs[s].MintedTokens - outs[s].MeltedTokens
                /\ outs[s].MintedTokens - outs[s].MeltedTokens <= outs[s].MaximumSupply
           /\ s \in ins \ news => circulating[<<a, s>>] - in + out = 0 /\ burned[<<a, s>>] = 0
<1> DEFINE t == <<a, s>>
<1>0. DOMAIN outs = news /\ t \in Tokens /\ t[1] = a /\ t[2] = s
  BY DEF Tokens
<1>1. circulating[t] \in Nat /\ burned[t] \in Nat /\ births[t] \in Nat /\ in \in Nat /\ out \in Nat
        /\ s \in Nat /\ counter[a] \in Nat
  BY <1>0, SerialsAssumption DEF SupplyInv, FoundriesTypeOK
<1>2. foundry[t] # NoFoundry => foundry[t] \in SimpleTokenScheme
  BY <1>0 DEF SupplyInv, FoundriesTypeOK
<1>3. s \in ins => foundry[t] # NoFoundry
  BY DEF Existing
<1>4. ASSUME s \in news
      PROVE  /\ outs[s] \in SimpleTokenScheme
             /\ outs[s].MintedTokens - outs[s].MeltedTokens <= outs[s].MaximumSupply
  <2>1. outs[s] \in SimpleTokenScheme /\ SyntacticalValidation(outs[s])
    BY <1>4
  <2> QED
    BY <2>1, SchemeFields DEF SyntacticalValidation
<1>5. ASSUME s \in news \ ins
      PROVE  births[t] = 0 /\ foundry[t] = NoFoundry
    BY <1>0, <1>1, <1>5 DEF NewFoundries, SupplyInv, SerialsBelowCounter
<1>6. foundry[t] = NoFoundry => circulating[t] = 0 /\ burned[t] = 0
  BY <1>0 DEF SupplyInv, NoOrphanedTokens
<1>7. foundry[t] # NoFoundry =>
        circulating[t] + burned[t] = foundry[t].MintedTokens - foundry[t].MeltedTokens
  BY <1>0 DEF SupplyInv, SupplyIsConserved
<1>8. CASE s \in news \ ins
  <2>1. genesisValid(outs[s], out)
    BY <1>0, <1>8 DEF StateTransition, NewFoundries
  <2>2. in = 0 /\ circulating[t] = 0 /\ burned[t] = 0
    BY <1>1, <1>5, <1>6, <1>8
  <2> QED
    BY <1>1, <1>4, <1>5, <1>8, <2>1, <2>2, SchemeFields DEF genesisValid
<1>9. CASE s \in news \intersect ins
  <2>1. stateChangeValid(foundry[t], outs[s], in, out)
    BY <1>0, <1>9 DEF StateTransition
  <2>2. foundry[t] \in SimpleTokenScheme /\ outs[s] \in SimpleTokenScheme
    BY <1>2, <1>3, <1>4, <1>9
  <2>3. circulating[t] + burned[t] = foundry[t].MintedTokens - foundry[t].MeltedTokens
    BY <1>3, <1>7, <1>9
  <2>4. foundry[t].MintedTokens \in Nat /\ foundry[t].MeltedTokens \in Nat
        /\ outs[s].MintedTokens \in Nat /\ outs[s].MeltedTokens \in Nat
    BY <2>2, SchemeFields
  <2>5. outs[s].MintedTokens - outs[s].MeltedTokens
            = foundry[t].MintedTokens - foundry[t].MeltedTokens + out - in
    BY <1>1, <2>1, <2>4 DEF stateChangeValid
  <2> QED
    BY <1>1, <1>4, <1>9, <2>3, <2>4, <2>5
<1>10. CASE s \in ins \ news
  <2>1. destructionValid(foundry[t], out, in)
    BY <1>0, <1>10 DEF StateTransition
  <2>2. foundry[t].MintedTokens \in Nat /\ foundry[t].MeltedTokens \in Nat
    BY <1>2, <1>3, <1>10, SchemeFields
  <2> QED
    BY <1>1, <1>3, <1>7, <1>10, <2>1, <2>2 DEF destructionValid
<1>11. CASE s \notin ins \union news
  <2>1. out <= in
    BY <1>0, <1>11 DEF NativeTokensValid, BalancedNativeToken
  <2> QED
    BY <1>1, <1>6, <1>11, <2>1
<1> QED
  BY <1>8, <1>9, <1>10, <1>11

(* A transaction keeps the invariant: token by token, and                   *)
(* the counter of the account covers the foundries it creates.             *)
LEMMA TransactionSupply ==
    ASSUME SupplyInv, NEW a \in Accounts, NEW next \in Serials \union {0, Destroyed}, NEW caps,
           NEW ins \in SUBSET Existing(a), NEW news \in SUBSET Serials,
           NEW outs \in [news -> {c \in SimpleTokenScheme : SyntacticalValidation(c)}],
           NEW order, ExecuteTransaction(a, next, ins, outs, order, caps)
    PROVE  SupplyInv'
<1>0. /\ DOMAIN outs = news
      /\ next \in Nat \union {Destroyed}
      /\ counter \in [Accounts -> Nat]
      /\ Destroyed \notin Nat
  BY SerialsAssumption DEF SupplyInv, FoundriesTypeOK, Destroyed
<1>1. PICK in \in InSums(a), out \in Sums :
        /\ \A s \in Serials :
            /\ NativeTokensValid(s, outs, in[s], out[s], caps)
            /\ StateTransition(a, s, ins, outs, in[s], out[s])
        /\ circulating' = [t \in Tokens |->
                IF t[1] = a THEN circulating[t] - in[t[2]] + out[t[2]] ELSE circulating[t]]
        /\ burned' = [t \in Tokens |->
                IF t[1] = a /\ t[2] \notin ins \union news
                    THEN burned[t] + in[t[2]] - out[t[2]] ELSE burned[t]]
  BY <1>0 DEF ExecuteTransaction
<1>2. \A s \in Serials : /\ in[s] \in 0..MaxTokens /\ out[s] \in 0..MaxTokens
                         /\ in[s] <= circulating[<<a, s>>]
  BY DEF InSums, Sums
<1>13. \A s \in Serials : in[s] \in Nat /\ out[s] \in Nat
  <2>1. 0..MaxTokens \subseteq Nat
    BY SerialsAssumption
  <2> QED
    BY <1>2, <2>1, Zenon
<1>3. \A s \in NewFoundries(ins, outs) :
        next # Destroyed /\ account[a] = "live" /\ counter[a] < s /\ s <= next
  BY DEF ExecuteTransaction, foundryGenesisValid, foundrySerialNumberValid
<1>4. /\ account[a] \in {"implicit", "live"}
      /\ account[a] = "implicit" => next # Destroyed
      /\ account[a] = "live" /\ next # Destroyed => counter[a] <= next
  BY <1>0, SerialsAssumption
  DEF ExecuteTransaction, AccountTransitionValid, accountFoundryCounterSTVF
<1>5. account' = [account EXCEPT ![a] = IF next = Destroyed THEN "destroyed" ELSE "live"]
      /\ counter' = [counter EXCEPT ![a] = IF next = Destroyed THEN counter[a] ELSE next]
      /\ base' = (IF account[a] = "implicit" THEN [base EXCEPT ![a] = next] ELSE base)
      /\ panicked' = panicked
  BY DEF ExecuteTransaction
<1>6. foundry' = [t \in Tokens |->
            IF t[1] = a /\ t[2] \in news THEN outs[t[2]]
            ELSE IF t[1] = a /\ t[2] \in ins THEN NoFoundry
            ELSE foundry[t]]
      /\ births' = [t \in Tokens |->
            IF t[1] = a /\ t[2] \in news \ ins THEN births[t] + 1 ELSE births[t]]
  BY <1>0 DEF ExecuteTransaction, NewFoundries
<1>7. \A t \in Tokens : t[1] \in Accounts /\ t[2] \in Serials /\ t = <<t[1], t[2]>>
  BY DEF Tokens
<1>8. \A t \in Tokens : t[1] = a =>
           /\ circulating[t] - in[t[2]] + out[t[2]] \in Nat
           /\ t[2] \notin ins \union news =>
                /\ out[t[2]] <= in[t[2]]
                /\ foundry[t] = NoFoundry => out[t[2]] = 0 /\ in[t[2]] = 0
           /\ t[2] \in news \ ins => births[t] = 0 /\ foundry[t] = NoFoundry
           /\ t[2] \in news =>
                /\ circulating[t] - in[t[2]] + out[t[2]] + burned[t]
                        = outs[t[2]].MintedTokens - outs[t[2]].MeltedTokens
                /\ outs[t[2]].MintedTokens - outs[t[2]].MeltedTokens <= outs[t[2]].MaximumSupply
           /\ t[2] \in ins \ news =>
                circulating[t] - in[t[2]] + out[t[2]] = 0 /\ burned[t] = 0
  <2> TAKE t \in Tokens
  <2> HAVE t[1] = a
  <2>1. t[2] \in Serials /\ t = <<a, t[2]>>
    BY <1>7
  <2> DEFINE s == t[2]
  <2>2. s \in NewFoundries(ins, outs) => counter[a] < s
    BY <1>3
  <2>3. /\ in[s] \in 0..MaxTokens /\ out[s] \in 0..MaxTokens
        /\ in[s] <= circulating[<<a, s>>]
        /\ NativeTokensValid(s, outs, in[s], out[s], caps)
        /\ StateTransition(a, s, ins, outs, in[s], out[s])
    BY <1>1, <1>2, <2>1
  <2>4. s \in Serials /\ next \in Nat \union {Destroyed}
    BY <1>0, <2>1
  <2> HIDE DEF s
  <2>5. /\ circulating[<<a, s>>] - in[s] + out[s] \in Nat
        /\ s \notin ins \union news =>
                /\ out[s] <= in[s]
                /\ foundry[<<a, s>>] = NoFoundry => out[s] = 0 /\ in[s] = 0
        /\ s \in news \ ins => births[<<a, s>>] = 0 /\ foundry[<<a, s>>] = NoFoundry
        /\ s \in news =>
                /\ circulating[<<a, s>>] - in[s] + out[s] + burned[<<a, s>>]
                        = outs[s].MintedTokens - outs[s].MeltedTokens
                /\ outs[s].MintedTokens - outs[s].MeltedTokens <= outs[s].MaximumSupply
        /\ s \in ins \ news => circulating[<<a, s>>] - in[s] + out[s] = 0 /\ burned[<<a, s>>] = 0
    BY <2>2, <2>3, <2>4, TokenKeepsSupply
  <2> QED
    BY <2>1, <2>5 DEF s
<1>9. FoundriesTypeOK'
  <2>1. account' \in [Accounts -> {"none", "implicit", "live", "destroyed"}]
        /\ panicked' \in BOOLEAN
    BY <1>5 DEF SupplyInv, FoundriesTypeOK
  <2>2. counter' \in [Accounts -> Nat] /\ base' \in [Accounts -> Nat]
    BY <1>0, <1>4, <1>5 DEF SupplyInv, FoundriesTypeOK
  <2>3. \A t \in Tokens : foundry'[t] \in SimpleTokenScheme \union {NoFoundry}
    BY <1>6 DEF SupplyInv, FoundriesTypeOK
  <2>4. \A t \in Tokens : circulating'[t] \in Nat
    <3> TAKE t \in Tokens
    <3>1. circulating[t] \in Nat
      BY DEF SupplyInv, FoundriesTypeOK
    <3> QED
      BY <1>1, <1>8, <3>1
  <2>5. \A t \in Tokens : births'[t] \in Nat
    BY <1>6 DEF SupplyInv, FoundriesTypeOK
  <2>6. \A t \in Tokens : burned'[t] \in Nat
    <3> TAKE t \in Tokens
    <3>1. in[t[2]] \in Nat /\ out[t[2]] \in Nat
      BY <1>13, <1>7
    <3>2. burned[t] \in Nat
      BY DEF SupplyInv, FoundriesTypeOK
    <3> QED
      BY <1>1, <1>8, <3>1, <3>2
  <2> QED
    BY <1>1, <1>6, <2>1, <2>2, <2>3, <2>4, <2>5, <2>6 DEF FoundriesTypeOK
<1>10. BornOnce'
  BY <1>6, <1>8 DEF SupplyInv, BornOnce, FoundriesTypeOK
<1>11. SerialsBelowCounter'
  <2>1. ASSUME NEW t \in Tokens, births'[t] > 0
        PROVE  account'[t[1]] \in {"live", "destroyed"} /\ t[2] <= counter'[t[1]]
    <3>1. t[2] \in Nat /\ counter[t[1]] \in Nat
      BY <1>0, <1>7, SerialsAssumption
    <3>2. CASE t[1] = a /\ t[2] \in news \ ins
      BY <1>0, <1>3, <1>5, <3>2 DEF NewFoundries, SupplyInv, FoundriesTypeOK
    <3>3. CASE ~(t[1] = a /\ t[2] \in news \ ins)
      <4>1. account[t[1]] \in {"live", "destroyed"} /\ t[2] <= counter[t[1]]
        BY <1>6, <2>1, <3>3 DEF SupplyInv, SerialsBelowCounter
      <4> QED
        BY <1>0, <1>4, <1>5, <1>7, <3>1, <4>1 DEF SupplyInv, FoundriesTypeOK
    <3> QED
      BY <3>2, <3>3
  <2>2. ASSUME NEW t \in Tokens, foundry'[t] # NoFoundry
        PROVE  births'[t] > 0
    <3>1. births[t] \in Nat
      BY DEF SupplyInv, FoundriesTypeOK
    <3>2. CASE t[1] = a /\ t[2] \in news \ ins
      BY <1>6, <3>1, <3>2
    <3>3. CASE ~(t[1] = a /\ t[2] \in news \ ins)
      <4>1. foundry[t] # NoFoundry
        BY <1>6, <1>7, <2>2, <3>3 DEF Existing
      <4> QED
        BY <1>6, <3>3, <4>1 DEF SupplyInv, SerialsBelowCounter
    <3> QED
      BY <3>2, <3>3
  <2> QED
    BY <2>1, <2>2 DEF SerialsBelowCounter
<1>12. SupplyIsConserved' /\ NoOrphanedTokens'
  <2> SUFFICES ASSUME NEW t \in Tokens
               PROVE  /\ foundry'[t] # NoFoundry =>
                            /\ circulating'[t] + burned'[t]
                                    = foundry'[t].MintedTokens - foundry'[t].MeltedTokens
                            /\ circulating'[t] + burned'[t] <= foundry'[t].MaximumSupply
                      /\ foundry'[t] = NoFoundry => circulating'[t] = 0 /\ burned'[t] = 0
    BY DEF SupplyIsConserved, NoOrphanedTokens
  <2>1. circulating[t] \in Nat /\ burned[t] \in Nat /\ in[t[2]] \in Nat /\ out[t[2]] \in Nat
    <3>1. in[t[2]] \in Nat /\ out[t[2]] \in Nat
      BY <1>13, <1>7
    <3> QED
      BY <3>1 DEF SupplyInv, FoundriesTypeOK
  <2>2. /\ foundry[t] # NoFoundry =>
            /\ circulating[t] + burned[t] = foundry[t].MintedTokens - foundry[t].MeltedTokens
            /\ circulating[t] + burned[t] <= foundry[t].MaximumSupply
        /\ foundry[t] = NoFoundry => circulating[t] = 0 /\ burned[t] = 0
    BY DEF SupplyInv, SupplyIsConserved, NoOrphanedTokens
  <2>3. CASE t[1] = a /\ t[2] \in news
    <3>1. outs[t[2]] \in SimpleTokenScheme
      BY <2>3
    <3>2. foundry'[t] = outs[t[2]] /\ outs[t[2]] # NoFoundry
      BY <1>6, <2>3, <3>1, SchemeIsFoundry
    <3>3. circulating'[t] = circulating[t] - in[t[2]] + out[t[2]] /\ burned'[t] = burned[t]
      BY <1>1, <2>3
    <3> QED
      BY <1>8, <2>3, <3>2, <3>3
  <2>4. CASE t[1] = a /\ t[2] \in ins \ news
    BY <1>1, <1>6, <1>8, <2>4
  <2>5. CASE t[1] = a /\ t[2] \notin ins \union news
    <3>1. /\ foundry'[t] = foundry[t]
          /\ circulating'[t] = circulating[t] - in[t[2]] + out[t[2]]
          /\ burned'[t] = burned[t] + in[t[2]] - out[t[2]]
      BY <1>1, <1>6, <2>5
    <3>2. foundry[t] = NoFoundry => in[t[2]] = 0 /\ out[t[2]] = 0
      BY <1>8, <2>5
    <3>3. circulating'[t] + burned'[t] = circulating[t] + burned[t]
      BY <2>1, <3>1
    <3> QED
      BY <2>1, <2>2, <3>1, <3>2, <3>3
  <2>6. CASE t[1] # a
    BY <1>1, <1>6, <2>2, <2>6
  <2> QED
    BY <2>3, <2>4, <2>5, <2>6
<1> QED
  BY <1>9, <1>10, <1>11, <1>12 DEF SupplyInv

(* The conjunction of the properties with SerialsBelowCounter is inductive. *)
LEMMA SupplyInductive == FoundriesSpec => []SupplyInv
<1>1. ASSUME SupplyInv, [FoundriesNext]_foundriesVars
      PROVE  SupplyInv'
  <2>1. ASSUME NEW a \in Accounts, CreateAccount(a) \/ CreateImplicitAccount(a)
        PROVE  SupplyInv'
    BY <1>1, <2>1, NewAccountSupply
  <2>2. ASSUME NEW a \in Accounts, NEW next \in Serials \union {0, Destroyed}, NEW caps,
               AccountTransaction(a, next, caps)
        PROVE  SupplyInv'
    <3>1. PICK ins \in SUBSET Existing(a), news \in SUBSET Serials :
            \E outs \in [news -> {s \in SimpleTokenScheme : SyntacticalValidation(s)}] :
                \/ \E order \in Orders(news) : ExecuteTransaction(a, next, ins, outs, order, caps)
                \/ PanicOnImplicitAccount(a, next, ins, outs, caps)
      BY <2>2 DEF AccountTransaction
    <3>2. PICK outs \in [news -> {s \in SimpleTokenScheme : SyntacticalValidation(s)}] :
                \/ \E order \in Orders(news) : ExecuteTransaction(a, next, ins, outs, order, caps)
                \/ PanicOnImplicitAccount(a, next, ins, outs, caps)
      BY <3>1
    <3>3. CASE \E order \in Orders(news) : ExecuteTransaction(a, next, ins, outs, order, caps)
      BY <1>1, <3>3, TransactionSupply
    <3>4. CASE PanicOnImplicitAccount(a, next, ins, outs, caps)
      BY <1>1, <3>4
      DEF PanicOnImplicitAccount, SupplyInv, FoundriesTypeOK, BornOnce, SerialsBelowCounter,
          SupplyIsConserved, NoOrphanedTokens
    <3> QED
      BY <3>2, <3>3, <3>4
  <2>3. ASSUME NEW t \in Tokens, NEW in \in 0..MaxTokens, NEW out \in 0..MaxTokens, NEW caps,
               Transfer(t, in, out, caps)
        PROVE  SupplyInv'
    BY <1>1, <2>3, TransferSupply
  <2>4. CASE UNCHANGED foundriesVars
    BY <1>1, <2>4
    DEF foundriesVars, SupplyInv, FoundriesTypeOK, BornOnce, SerialsBelowCounter, SupplyIsConserved, NoOrphanedTokens
  <2> QED
    BY <1>1, <2>1, <2>2, <2>3, <2>4 DEF FoundriesNext
<1> QED
  BY <1>1, InitSupply, PTL DEF FoundriesSpec

(* The outputs of the ledger keep their types through every sequence of    *)
(* transactions; in particular no token count becomes negative.            *)
THEOREM FoundriesTypeCorrect == FoundriesSpec => []FoundriesTypeOK
  BY SupplyInductive, PTL DEF SupplyInv

(* foundrySerialNumberValid never lets a foundry ID be created twice, for  *)
(* any number of accounts and foundries.                                   *)
THEOREM FoundriesAreBornOnce == FoundriesSpec => []BornOnce
  BY SupplyInductive, PTL DEF SupplyInv

(* The token scheme's check of single transactions conserves the supply of *)
(* the whole ledger, within the maximum supply.                            *)
THEOREM SupplyConservation == FoundriesSpec => []SupplyIsConserved
  BY SupplyInductive, PTL DEF SupplyInv

(* destructionValid leaves no token without a foundry. *)
THEOREM NoTokenWithoutFoundry == FoundriesSpec => []NoOrphanedTokens
  BY SupplyInductive, PTL DEF SupplyInv

-----------------------------------------------------------------------------
(***************************************************************************)
(* The clock: any genesis slot, unit of time, slot duration and epoch      *)
(* length.                                                                 *)
(***************************************************************************)
LEMMA Division ==
    ASSUME NEW y \in Nat, NEW n \in Nat \ {0}
    PROVE  y \div n \in Nat /\ (y \div n) * n <= y /\ y < (y \div n) * n + n
  BY SMTT(30)

LEMMA Quotient ==
    ASSUME NEW y \in Nat, NEW n \in Nat \ {0}, NEW q \in Nat, q * n <= y, y < q * n + n
    PROVE  y \div n = q
<1>1. y \div n \in Nat /\ (y \div n) * n <= y /\ y < (y \div n) * n + n
  BY Division
<1>2. PICK r \in Nat : r = y \div n
  BY <1>1
<1>3. r * n <= y /\ y < r * n + n
  BY <1>1, <1>2
<1>4. r * n \in Int /\ q * n \in Int /\ (r + 1) * n = r * n + n /\ (q + 1) * n = q * n + n
  OBVIOUS
<1>5. ASSUME NEW a \in Nat, NEW b \in Nat, a >= b + 1 PROVE a * n >= (b + 1) * n
  BY <1>5, SMTT(30)
<1>6. ASSUME r >= q + 1 PROVE FALSE
  <2>1. r * n >= (q + 1) * n
    BY <1>5, <1>6
  <2> QED
    BY <1>3, <1>4, <2>1
<1>7. ASSUME q >= r + 1 PROVE FALSE
  <2>1. q * n >= (r + 1) * n
    BY <1>5, <1>7
  <2> QED
    BY <1>3, <1>4, <2>1
<1> QED
  BY <1>2, <1>6, <1>7

(* The time of a clock that has begun lies in its slot. *)
LEMMA ClockSlots ==
    ASSUME genesisSlot \in Nat, now \in Nat
    PROVE  TimeIsInItsSlot
<1> DEFINE u == UnitsPerSecond
           l == SlotDurationSeconds
           a == now \div u
<1>1. u \in Nat \ {0} /\ l \in Nat \ {0}
  BY TimeAssumption
<1>2. a \in Nat /\ a * u <= now /\ now < a * u + u
  BY <1>1, Division
<1>3. PICK b \in Nat : b = a \div l /\ b * l <= a /\ a < b * l + l
  BY <1>1, <1>2, Division
<1>4. PICK s \in Nat : s = slot /\ s = genesisSlot + b + 1
  <2>1. ~(now < 0)
    OBVIOUS
  <2>2. slot = genesisSlot + b + 1
    BY <1>3, <2>1, Zenon DEF slot, SlotFromTime
  <2> QED
    BY <2>2
<1>5. /\ s > genesisSlot /\ s - genesisSlot - 1 = b /\ s - genesisSlot = b + 1
      /\ s + 1 > genesisSlot /\ s + 1 - genesisSlot - 1 = b + 1
  BY <1>4
<1> DEFINE e == (b + 1) * l * u
<1>6. SlotStartTime(s) = b * l * u
  BY <1>1, <1>4, <1>5 DEF SlotStartTime
<1>7. SlotEndTime(s) = e - 1
  BY <1>1, <1>4, <1>5 DEF SlotEndTime
<1>8. SlotStartTime(s + 1) = e
  BY <1>1, <1>4, <1>5 DEF SlotStartTime
<1>9. e \in Nat /\ (b + 1) * l \in Nat /\ b * l \in Nat /\ b * l * u \in Nat /\ a * u \in Nat
  BY <1>1, <1>2, <1>3
<1>10. b * l * u <= now
  <2>1. ASSUME NEW x \in Nat, NEW y \in Nat, x <= y PROVE x * u <= y * u
    BY <1>1, <2>1, SMTT(30)
  <2>2. b * l * u <= a * u
    BY <1>2, <1>3, <1>9, <2>1
  <2> QED
    BY <1>2, <1>9, <2>2
<1>11. now <= e - 1
  <2>1. ASSUME NEW x \in Nat, NEW y \in Nat, x + 1 <= y PROVE x * u + u <= y * u
    <3>1. (x + 1) * u <= y * u
      BY <1>1, <2>1, SMTT(30)
    <3>2. (x + 1) * u = x * u + u
      BY <1>1
    <3> QED
      BY <3>1, <3>2
  <2>2. (b + 1) * l = b * l + l
    BY <1>1
  <2>3. a + 1 <= (b + 1) * l
    BY <1>1, <1>2, <1>3, <1>9, <2>2
  <2>4. a * u + u <= e
    BY <1>2, <1>9, <2>1, <2>3
  <2> QED
    BY <1>1, <1>2, <1>9, <2>4
<1>12. SlotFromTime(e) = s + 1
  <2>1. e \div u = (b + 1) * l
    <3>1. ASSUME NEW x \in Nat PROVE (x * u) \div u = x
      <4>1. x * u \in Nat /\ x * u < x * u + u
        BY <1>1
      <4> QED
        BY <1>1, <4>1, Quotient
    <3> QED
      BY <1>9, <3>1
  <2>2. ((b + 1) * l) \div l = b + 1
    <3>1. (b + 1) * l < (b + 1) * l + l
      BY <1>1, <1>9
    <3> QED
      BY <1>1, <1>9, <3>1, Quotient
  <2>3. ~(e < 0)
    BY <1>9
  <2>4. SlotFromTime(e) = genesisSlot + (e \div u) \div l + 1
    BY <2>3 DEF SlotFromTime
  <2>5. SlotFromTime(e) = genesisSlot + (b + 1) + 1
    BY <2>1, <2>2, <2>4
  <2> QED
    BY <1>4, <2>5
<1>13. (e - 1) + 1 = e
  BY <1>9
<1> HIDE DEF e, a
<1> QED
  BY <1>4, <1>6, <1>7, <1>8, <1>10, <1>11, <1>12, <1>13 DEF TimeIsInItsSlot

(* Every slot of the clock lies in its epoch, and epochs have no gap. *)
LEMMA ClockEpochs ==
    ASSUME genesisSlot \in Nat, slot \in Nat, slot >= genesisSlot
    PROVE  SlotIsInItsEpoch
<1>1. PICK d \in Nat \ {0} : d = EpochDurationSlots
  BY TimeAssumption DEF EpochDurationSlots
<1>2. PICK s \in Nat : s = slot /\ s >= genesisSlot
  OBVIOUS
<1>3. PICK x \in Nat : x = s - genesisSlot
  BY <1>2
<1>4. PICK e \in Nat : e = x \div d /\ e * d <= x /\ x < e * d + d
  BY <1>1, <1>3, Division
<1>5. e * d \in Nat /\ (e + 1) * d = e * d + d
  BY <1>1
<1>6. ASSUME NEW y \in Nat
      PROVE  EpochFromSlot(genesisSlot + y) = y \div d
  <2>1. CASE y = 0
    <3>1. 0 * d <= 0 /\ 0 < 0 * d + d
      BY <1>1
    <3>2. 0 \div d = 0
      BY <1>1, <3>1, Quotient
    <3> QED
      BY <2>1, <3>2 DEF EpochFromSlot
  <2>2. CASE y # 0
    <3>1. ~(genesisSlot + y <= genesisSlot) /\ genesisSlot + y - genesisSlot = y
      BY <2>2
    <3> QED
      BY <1>1, <3>1 DEF EpochFromSlot
  <2> QED
    BY <2>1, <2>2
<1>7. epoch = e
  <2>1. s = genesisSlot + x
    BY <1>2, <1>3
  <2> QED
    BY <1>2, <1>4, <1>6, <2>1 DEF epoch
<1>8. /\ EpochStart(e) = genesisSlot + e * d
      /\ EpochEnd(e) = genesisSlot + (e * d + d - 1)
      /\ EpochStart(e + 1) = genesisSlot + (e * d + d)
  BY <1>1, <1>5 DEF EpochStart, EpochEnd
<1>9. EpochFromSlot(genesisSlot + e * d) = e
  <2>1. (e * d) \div d = e
    <3>1. e * d <= e * d /\ e * d < e * d + d
      BY <1>1, <1>5
    <3> QED
      BY <1>1, <1>5, <3>1, Quotient
  <2> QED
    BY <1>5, <1>6, <2>1
<1>10. EpochFromSlot(genesisSlot + (e * d + d - 1)) = e
  <2>1. PICK y \in Nat : y = e * d + d - 1
    BY <1>1, <1>5
  <2>2. y \div d = e
    <3>1. e * d <= y /\ y < e * d + d
      BY <1>1, <1>5, <2>1
    <3> QED
      BY <1>1, <3>1, Quotient
  <2> QED
    BY <1>6, <2>1, <2>2
<1>11. /\ genesisSlot + e * d <= s /\ s <= genesisSlot + (e * d + d - 1)
       /\ genesisSlot + (e * d + d - 1) + 1 = genesisSlot + (e * d + d)
  BY <1>1, <1>2, <1>3, <1>4, <1>5
<1> QED
  BY <1>2, <1>7, <1>8, <1>9, <1>10, <1>11 DEF SlotIsInItsEpoch

LEMMA ClockPartitions ==
    ASSUME genesisSlot \in Nat, now \in Int
    PROVE  SlotsPartitionTime
<1>1. CASE now < 0
  <2>1. slot = genesisSlot
    BY <1>1 DEF slot, SlotFromTime
  <2>2. SlotIsInItsEpoch
    BY <2>1, ClockEpochs
  <2> QED
    BY <1>1, <2>2 DEF SlotsPartitionTime, TimeIsInItsSlot
<1>2. CASE now >= 0
  <2>1. slot \in Nat /\ slot >= genesisSlot
    <3>1. PICK a \in Nat : a = now \div UnitsPerSecond
      BY <1>2, Division, TimeAssumption
    <3>2. PICK b \in Nat : b = a \div SlotDurationSeconds
      BY Division, TimeAssumption
    <3>3. slot = genesisSlot + b + 1
      BY <1>2, <3>1, <3>2 DEF slot, SlotFromTime
    <3> QED
      BY <3>3
  <2> QED
    BY <1>2, <2>1, ClockSlots, ClockEpochs DEF SlotsPartitionTime
<1> QED
  BY <1>1, <1>2

(* SlotFromTime, SlotStartTime and SlotEndTime agree at every boundary of  *)
(* a slot, EpochFromSlot, EpochStart and EpochEnd at every boundary of an  *)
(* epoch, for all genesis slots, durations and epoch lengths.              *)
THEOREM TimeIsPartitioned == ClockSpec => []SlotsPartitionTime
<1> DEFINE Inv == genesisSlot \in Nat /\ now \in Int
<1>1. ClockInit => Inv
  BY TimeAssumption DEF ClockInit
<1>2. Inv /\ [Tick]_clockVars => Inv'
  BY DEF Tick, clockVars
<1>3. Inv => SlotsPartitionTime
  BY ClockPartitions
<1> HIDE DEF Inv
<1> QED
  BY <1>1, <1>2, <1>3, PTL DEF ClockSpec
=============================================================================
