----------------------------- MODULE OutputLedger -----------------------------
(***************************************************************************)
(* The unspent outputs over many transactions.  A transaction consumes     *)
(* outputs, creates others from a set of candidates, which need not come   *)
(* from a builder, and is executed if the syntactic validators and the     *)
(* rules of the virtual machine allow it.  Who may unlock an input is the  *)
(* subject of Unlocks; here the owner unlocks it, or the return address of *)
(* an expiration that is over.                                             *)
(***************************************************************************)
EXTENDS ChainTransitions

CONSTANTS
    Candidates,     \* sets of sequences of outputs, one of which a behaviour uses
    Genesis,        \* the output that a behaviour starts with, for each set
    ChainID,        \* the ID that the first chain of each type gets
    MaxTransactions, MaxConsumed    \* bounds

VARIABLES
    candidates,     \* the outputs that transactions of this behaviour may create
    ledger,         \* set of [oid, out, chain]
    unlocked,       \* the addresses that the last transaction unlocked
    born,           \* for each chain its first immutable features and unlocked addresses
    executed        \* the number of transactions

ledgerVars == <<candidates, ledger, unlocked, born, executed>>

NoChain == "no chain"

(* The conditions that name a controller or an account carry no number. *)
UnlockConditions ==
    [t : {UC.Address, UC.StorageDepositReturn, UC.Timelock, UC.Expiration}, addr : DOMAIN AddressType, n : Nat]
    \cup [t : {UC.StateController, UC.Governor, UC.ImmutableAccount}, addr : DOMAIN AddressType, n : {0}]

ASSUME LedgerAssumption ==
    /\ \A p \in DOMAIN Candidates :
          /\ \A k \in DOMAIN Genesis[p] : Genesis[p][k].type = "Basic"
          /\ \A outs \in Candidates[p] :
                /\ outs \in Seq(ToSet(outs))
                /\ \A k \in DOMAIN outs :
                      outs[k].type \in {"Basic", "Anchor", "NFT"} /\ outs[k].conds \in Seq(UnlockConditions)
    /\ \A t \in {"Anchor", "NFT"} : ChainID[t] \notin {EmptyID, NoChain}

ChainOf(o) == IF ~IsChainOutput(o) THEN NoChain ELSE IF o.id = EmptyID THEN ChainID[o.type] ELSE o.id
Nexts(i, outs) == {k \in DOMAIN outs : outs[k].type = i.out.type /\ outs[k].id = i.chain}

(* The address that unlocks the input i. *)
UnlockedFor(i, outs, late) ==
    resolveUnderlyingAddress(
        IF i.out.type = "Anchor"
        THEN IF Nexts(i, outs) = {} THEN GovernorOf(i.out) ELSE AnchorOwner(i.out, outs[Max(Nexts(i, outs))])
        ELSE IF late /\ Has(i.out.conds, UC.Expiration)
             THEN The(i.out.conds, UC.Expiration).addr ELSE Owner(i.out))

(* ExecFuncChainTransitions *)
ChainTransitionsValid(ins, outs, addrs, capabilities) ==
    /\ \A i \in ins :
          IsChainOutput(i.out) =>
              IF Nexts(i, outs) = {}
              THEN DestructionValid(i.out, capabilities)
              ELSE \A k \in Nexts(i, outs) :
                      /\ i.out.type = "Anchor" => AnchorOwnerExists(i.out, outs[k])
                      /\ StateChangeValid(i.out, outs[k])
    /\ \A k \in DOMAIN outs :
          IsChainOutput(outs[k]) /\ (\A i \in ins : k \notin Nexts(i, outs)) => GenesisValid(outs[k], addrs)

(* Execute of the virtual machine; one chain of each type is born (bound). *)
Execute(ins, outs, late, capabilities) ==
    LET by(i) == UnlockedFor(i, outs, late)
        inputs == {[oid |-> i.oid, out |-> i.out, by |-> by(i)] : i \in ins}
        addrs == {by(i) : i \in ins}
        new == {[oid |-> <<executed + 1, k>>, out |-> outs[k], chain |-> ChainOf(outs[k])] : k \in DOMAIN outs}
        chains == {k \in DOMAIN outs : IsChainOutput(outs[k]) /\ outs[k].id = EmptyID}
    IN  /\ Cardinality(chains) <= 1 /\ \A k \in chains : ChainOf(outs[k]) \notin DOMAIN born
        /\ \A k \in DOMAIN outs : Decodable(outs[k])
        /\ SyntacticallyValid(outs, TRUE)
        /\ SenderUnlocked(outs, addrs)
        /\ BalancedBaseTokens(inputs, outs)
        /\ AtMostOneImplicitAccountCreationAddress(ins)
        /\ ChainTransitionsValid(ins, outs, addrs, capabilities)
        /\ ledger' = (ledger \ ins) \cup new
        /\ unlocked' = addrs
        /\ born' = [c \in DOMAIN born \cup {ChainOf(outs[k]) : k \in chains} |->
                       IF c \in DOMAIN born THEN born[c]
                       ELSE [imm |-> outs[CHOOSE k \in chains : ChainOf(outs[k]) = c].imm, by |-> addrs]]
        /\ executed' = executed + 1
        /\ UNCHANGED candidates

LedgerInit ==
    /\ candidates \in DOMAIN Candidates
    /\ ledger = {[oid |-> <<0, k>>, out |-> Genesis[candidates][k], chain |-> NoChain] : k \in DOMAIN Genesis[candidates]}
    /\ unlocked = {} /\ executed = 0
    /\ born = [c \in {} |-> 0]

LedgerNext ==
    /\ executed < MaxTransactions[candidates]
    /\ \E ins \in UNION {kSubset(n, ledger) : n \in 1..MaxConsumed} :
       \E outs \in Candidates[candidates] :
          /\ MapThenSumSet(LAMBDA i : i.out.amount, ins) = Amounts(outs)     \* fewer to try
          /\ \E late \in BOOLEAN, capabilities \in {{}, {"Anchor", "NFT"}} :
                Execute(ins, outs, late, capabilities)

LedgerSpec == LedgerInit /\ [][LedgerNext]_ledgerVars

-----------------------------------------------------------------------------
(* The owner of an anchor is derived from the state index that the next    *)
(* output claims; still the state controller never changes what belongs to *)
(* the governor, nor the governor the state: in every transition each part *)
(* of the anchor but its mana changes only when its own controller         *)
(* unlocked.  The mana is nobody's: nova/vm.go:650-652 has it among the    *)
(* parts that neither transition may mutate, but no check compares it, and *)
(* so either controller may store or take mana.                            *)
PowersAreSeparate ==
    [][\A i \in ledger, j \in ledger' :
          i.out.type = "Anchor" /\ j.out.type = "Anchor" /\ i.chain = j.chain =>
              /\ resolveUnderlyingAddress(GovernorOf(i.out)) \notin unlocked' =>
                    /\ i.out.conds = j.out.conds
                    /\ FeatureUnchanged(FT.Metadata, i.out.feats, j.out.feats)
              /\ resolveUnderlyingAddress(StateControllerOf(i.out)) \notin unlocked' =>
                    /\ i.out.amount = j.out.amount /\ i.out.index = j.out.index
                    /\ FeatureUnchanged(FT.StateMetadata, i.out.feats, j.out.feats)]_ledgerVars

(* Whatever transitions a chain takes, it has the immutable features of    *)
(* its first output, and the issuer they name agreed to that output.       *)
ImmutableSinceGenesis ==
    \A i \in ledger :
        i.chain # NoChain =>
            /\ i.out.imm = born[i.chain].imm
            /\ \A f \in All(i.out.imm, FT.Issuer) : resolveUnderlyingAddress(f.v) \in born[i.chain].by

(* A deposit can be returned: the output that returns just its amount to   *)
(* its address is valid, whatever kind of address that is.                 *)
ReturnIsPossible ==
    \A i \in ledger : \A c \in All(i.out.conds, UC.StorageDepositReturn) :
        LET o == ReturnOutput(c.addr, c.n) IN Decodable(o) /\ SyntacticallyValid(<<o>>, FALSE)

(* What an address has in simple transfers and is promised in deposits. *)
Claim(a, l) ==
    MapThenSumSet(LAMBDA i :
        (IF IsSimpleTransfer(i.out) /\ Owner(i.out) = a THEN i.out.amount ELSE 0)
        + MapThenSumSet(LAMBDA c : IF c.addr = a THEN c.n ELSE 0, All(i.out.conds, UC.StorageDepositReturn)), l)

(* The claim of an address never shrinks without it, also when several     *)
(* deposits are consumed at once, and every deposit can be returned.       *)
DepositsAreSafe ==
    []ReturnIsPossible /\
    [][\A a \in DOMAIN AddressType :
          resolveUnderlyingAddress(a) \notin unlocked' => Claim(a, ledger') >= Claim(a, ledger)]_ledgerVars
=============================================================================
