-------------------------------- MODULE Foundries --------------------------------
(***************************************************************************)
(* Foundries and their native tokens over sequences of transactions: the   *)
(* foundry counter of an account (vm/nova/vm.go), the transitions of a     *)
(* foundry and of its token scheme (token_scheme_simple.go) and the        *)
(* balance of native tokens of a transaction (vm/vm.go).                   *)
(*                                                                         *)
(* The ledger's account outputs are account and counter, its foundry       *)
(* outputs are foundry, and the native tokens in its outputs are           *)
(* circulating.  The token scheme never sees the ledger: it compares the   *)
(* sums of one transaction with the foundry before and after.  The last    *)
(* three variables remember the past for the properties.                   *)
(***************************************************************************)
EXTENDS Integers, FiniteSets

CONSTANTS
    Accounts,           \* account IDs, each derived from the output that creates it
    Serials,            \* serial numbers of foundries
    MaximumSupplies,    \* maximum supplies foundries are created with
    MaxTokens,          \* bound on the minted and melted tokens of a foundry
    CapabilitySets      \* capabilities transactions have

ASSUME SerialsAssumption ==
    /\ Serials \subseteq Nat
    /\ MaximumSupplies \subseteq Nat
    /\ MaxTokens \in Nat

VARIABLES
    account,        \* "none", "implicit", "live" or "destroyed"
    counter,        \* FoundryCounter of the account output
    foundry,        \* the token scheme of the foundry output, or NoFoundry
    circulating,    \* native tokens in the outputs of the ledger
    panicked,       \* the virtual machine has panicked
    births,         \* how often the foundry was created
    burned,         \* tokens burned
    base            \* the counter with which the account came into being

foundriesVars == <<account, counter, foundry, circulating, panicked, births, burned, base>>

(* A foundry ID, which is also the ID of its native token: account address *)
(* and serial number (there is one type of token scheme).                  *)
Tokens == Accounts \X Serials
NoFoundry == [none |-> TRUE]
SimpleTokenScheme ==
    [MaximumSupply : MaximumSupplies, MintedTokens : 0..MaxTokens, MeltedTokens : 0..MaxTokens]

Sums == [Serials -> 0..MaxTokens]
Destroyed == -1

-----------------------------------------------------------------------------
(* SimpleTokenScheme *)

SyntacticalValidation(s) ==
    /\ s.MaximumSupply > 0
    /\ s.MintedTokens - s.MeltedTokens \in 0..s.MaximumSupply

genesisValid(s, out) == s.MeltedTokens = 0 /\ out = s.MintedTokens

(* Mutant: tokens may be left when the foundry goes. *)
destructionValidUnmelted(s, out, in) == s.MintedTokens + out - in >= s.MeltedTokens

destructionValid(s, out, in) == s.MintedTokens + out - in = s.MeltedTokens

(* Mutant: the melted counter may move while tokens are minted. *)
stateChangeValidLoose(s, next, in, out) ==
    /\ s.MaximumSupply = next.MaximumSupply
    /\ s.MintedTokens <= next.MintedTokens
    /\ s.MeltedTokens <= next.MeltedTokens
    /\ out > in => next.MintedTokens - s.MintedTokens = out - in
    /\ out < in => next.MeltedTokens - s.MeltedTokens = in - out

stateChangeValid(s, next, in, out) ==
    /\ s.MaximumSupply = next.MaximumSupply
    /\ s.MintedTokens <= next.MintedTokens
    /\ s.MeltedTokens <= next.MeltedTokens
    /\ out > in => /\ next.MintedTokens - s.MintedTokens = out - in
                   /\ next.MeltedTokens = s.MeltedTokens
    /\ out < in => /\ next.MeltedTokens - s.MeltedTokens = in - out
                   /\ next.MintedTokens = s.MintedTokens
    /\ out = in => /\ next.MintedTokens = s.MintedTokens
                   /\ next.MeltedTokens = s.MeltedTokens

-----------------------------------------------------------------------------
(* The checks of one transaction that consumes account a.  ins are the     *)
(* serial numbers of the foundries of a it consumes, outs maps those it    *)
(* creates to their token schemes (a serial number occurs once), order     *)
(* lists them by output index; in and out are the sums of a's tokens.      *)

Orders(S) ==
    {order \in [1..Cardinality(S) -> S] : \A i, j \in DOMAIN order : order[i] = order[j] => i = j}

NewFoundries(ins, outs) == DOMAIN outs \ ins

(* Sums of tokens the transaction can have on its input side. *)
InSums(a) == {in \in Sums : \A s \in Serials : in[s] <= circulating[<<a, s>>]}

(* Mutant: only the missing capability to burn is looked at. *)
BalancedNativeTokenUnbounded(in, out, caps) == "BurnNativeTokens" \notin caps => out = in

(* ExecFuncBalancedNativeTokens for a token without foundry on the output side. *)
BalancedNativeToken(in, out, caps) ==
    /\ out <= in
    /\ "BurnNativeTokens" \notin caps => out = in

(* accountFoundryCounterSTVF *)
accountFoundryCounterSTVF(current, next, ins, outs) ==
    /\ current <= next
    /\ current # next => next - current = Cardinality(NewFoundries(ins, outs))

(* Mutant: the counter of the consumed account is a valid serial number. *)
foundrySerialNumberAtStart(s, current, next, ins, outs, order) ==
    /\ current <= s
    /\ s <= next

(* foundrySerialNumberValid: the foundries before s in the outputs come    *)
(* before it in serial numbers too.                                        *)
foundrySerialNumberValid(s, current, next, ins, outs, order) ==
    /\ current < s
    /\ s <= next
    /\ \A i, j \in DOMAIN order :
            i < j /\ order[j] = s /\ order[i] \in NewFoundries(ins, outs) => order[i] < s

(* The transition of the account itself as far as foundries are concerned: *)
(* an implicit account has no counter to compare with.                     *)
AccountTransitionValid(a, next, ins, outs, caps) ==
    \/ /\ account[a] = "implicit"
       /\ next # Destroyed
    \/ /\ account[a] = "live"
       /\ next = Destroyed
       /\ "DestroyAccountOutputs" \in caps
    \/ /\ account[a] = "live"
       /\ next # Destroyed
       /\ accountFoundryCounterSTVF(counter[a], next, ins, outs)

(* foundrySTVF for a new foundry: its account is on both sides, and the    *)
(* consumed one has a counter.                                             *)
foundryGenesisValid(a, s, next, ins, outs, order) ==
    /\ next # Destroyed
    /\ account[a] = "live"
    /\ foundrySerialNumberValid(s, counter[a], next, ins, outs, order)

(* foundrySTVF: what a destruction needs besides its token scheme. *)
foundryDestructionValid(s, caps) == "DestroyFoundryOutputs" \in caps

(* SimpleTokenScheme.StateTransition for the transition that foundry s of  *)
(* account a takes, with the sums of its token; none if it takes none.     *)
StateTransition(a, s, ins, outs, in, out) ==
    /\ s \in NewFoundries(ins, outs) => genesisValid(outs[s], out)
    /\ s \in ins \intersect DOMAIN outs => stateChangeValid(foundry[<<a, s>>], outs[s], in, out)
    /\ s \in ins \ DOMAIN outs => destructionValid(foundry[<<a, s>>], out, in)

(* ExecFuncBalancedNativeTokens leaves a token to its foundry if that is   *)
(* on the output side.                                                     *)
NativeTokensValid(s, outs, in, out, caps) ==
    s \notin DOMAIN outs => BalancedNativeToken(in, out, caps)

-----------------------------------------------------------------------------
FoundriesInit ==
    /\ account = [a \in Accounts |-> "none"]
    /\ counter = [a \in Accounts |-> 0]
    /\ base = [a \in Accounts |-> 0]
    /\ foundry = [t \in Tokens |-> NoFoundry]
    /\ circulating = [t \in Tokens |-> 0]
    /\ births = [t \in Tokens |-> 0]
    /\ burned = [t \in Tokens |-> 0]
    /\ panicked = FALSE

(* A new account output; OutputsSyntacticalAccount wants its counter zero. *)
CreateAccount(a) ==
    /\ account[a] = "none"
    /\ account' = [account EXCEPT ![a] = "live"]
    /\ UNCHANGED <<counter, foundry, circulating, panicked, births, burned, base>>

(* A basic output to an implicit account creation address. *)
CreateImplicitAccount(a) ==
    /\ account[a] = "none"
    /\ account' = [account EXCEPT ![a] = "implicit"]
    /\ UNCHANGED <<counter, foundry, circulating, panicked, births, burned, base>>

(* A transaction that passes: the account is transitioned, converted or    *)
(* destroyed, foundries are created, transitioned and destroyed, tokens    *)
(* move.                                                                   *)
ExecuteTransaction(a, next, ins, outs, order, caps) ==
    /\ AccountTransitionValid(a, next, ins, outs, caps)
    /\ \A s \in NewFoundries(ins, outs) : foundryGenesisValid(a, s, next, ins, outs, order)
    /\ \A s \in ins \ DOMAIN outs : foundryDestructionValid(s, caps)
    /\ \E in \in InSums(a), out \in Sums :
        /\ \A s \in Serials :
            /\ NativeTokensValid(s, outs, in[s], out[s], caps)
            /\ StateTransition(a, s, ins, outs, in[s], out[s])
        /\ circulating' = [t \in Tokens |->
                IF t[1] = a THEN circulating[t] - in[t[2]] + out[t[2]] ELSE circulating[t]]
        /\ burned' = [t \in Tokens |->
                IF t[1] = a /\ t[2] \notin ins \union DOMAIN outs
                    THEN burned[t] + in[t[2]] - out[t[2]] ELSE burned[t]]
    /\ account' = [account EXCEPT ![a] = IF next = Destroyed THEN "destroyed" ELSE "live"]
    /\ counter' = [counter EXCEPT ![a] = IF next = Destroyed THEN @ ELSE next]
    /\ base' = IF account[a] = "implicit" THEN [base EXCEPT ![a] = next] ELSE base
    /\ foundry' = [t \in Tokens |->
            IF t[1] = a /\ t[2] \in DOMAIN outs THEN outs[t[2]]
            ELSE IF t[1] = a /\ t[2] \in ins THEN NoFoundry
            ELSE foundry[t]]
    /\ births' = [t \in Tokens |->
            IF t[1] = a /\ t[2] \in NewFoundries(ins, outs) THEN births[t] + 1 ELSE births[t]]
    /\ UNCHANGED panicked

(* A transaction that converts an implicit account and creates a foundry   *)
(* of it: once its token scheme is accepted, foundryGenesisValid asserts   *)
(* that the consumed account is an AccountOutput.                          *)
PanicOnImplicitAccount(a, next, ins, outs, caps) ==
    /\ account[a] = "implicit"
    /\ AccountTransitionValid(a, next, ins, outs, caps)
    /\ \E in \in InSums(a), out \in Sums :
        /\ \A s \in Serials : NativeTokensValid(s, outs, in[s], out[s], caps)
        /\ \E s \in NewFoundries(ins, outs) : StateTransition(a, s, ins, outs, in[s], out[s])
    /\ panicked' = TRUE
    /\ UNCHANGED <<account, counter, foundry, circulating, births, burned, base>>

(* A transaction without accounts: its tokens are balanced or burned. *)
Transfer(t, in, out, caps) ==
    /\ in <= circulating[t]
    /\ BalancedNativeToken(in, out, caps)
    /\ circulating' = [circulating EXCEPT ![t] = @ - in + out]
    /\ burned' = [burned EXCEPT ![t] = @ + in - out]
    /\ UNCHANGED <<account, counter, foundry, panicked, births, base>>

Existing(a) == {s \in Serials : foundry[<<a, s>>] # NoFoundry}

(* The transactions that consume account a. *)
AccountTransaction(a, next, caps) ==
    \E ins \in SUBSET Existing(a), news \in SUBSET Serials :
        \E outs \in [news -> {s \in SimpleTokenScheme : SyntacticalValidation(s)}] :
            \/ \E order \in Orders(news) : ExecuteTransaction(a, next, ins, outs, order, caps)
            \/ PanicOnImplicitAccount(a, next, ins, outs, caps)

(* A panic ends the program. *)
FoundriesNext ==
    /\ ~panicked
    /\ \/ \E a \in Accounts : CreateAccount(a)
       \/ \E a \in Accounts : CreateImplicitAccount(a)
       \/ \E a \in Accounts, next \in Serials \union {0, Destroyed}, caps \in CapabilitySets :
                AccountTransaction(a, next, caps)
       \/ \E t \in Tokens, in, out \in 0..MaxTokens, caps \in CapabilitySets :
                Transfer(t, in, out, caps)

FoundriesSpec == FoundriesInit /\ [][FoundriesNext]_foundriesVars

-----------------------------------------------------------------------------
(* The variables have their types (the ledger's outputs and the history). *)
FoundriesTypeOK ==
    /\ account \in [Accounts -> {"none", "implicit", "live", "destroyed"}]
    /\ counter \in [Accounts -> Nat]
    /\ foundry \in [Tokens -> SimpleTokenScheme \union {NoFoundry}]
    /\ circulating \in [Tokens -> Nat]
    /\ panicked \in BOOLEAN
    /\ births \in [Tokens -> Nat]
    /\ burned \in [Tokens -> Nat]
    /\ base \in [Accounts -> Nat]

(* A foundry ID is created at most once in the life of the ledger, also    *)
(* after the foundry or its account is gone: foundrySerialNumberValid and  *)
(* accountFoundryCounterSTVF never let a serial number come back, so a     *)
(* native token never gets a second maximum supply.                        *)
BornOnce == \A t \in Tokens : births[t] <= 1

(* Although the token scheme sees only the sums of single transactions,    *)
(* the tokens of a foundry in the whole ledger, with those burned by       *)
(* transactions without it, are what it minted and did not melt, and never *)
(* more than its maximum supply.                                           *)
SupplyIsConserved ==
    \A t \in Tokens : foundry[t] # NoFoundry =>
        /\ circulating[t] + burned[t] = foundry[t].MintedTokens - foundry[t].MeltedTokens
        /\ circulating[t] + burned[t] <= foundry[t].MaximumSupply

(* destructionValid leaves no token behind: one without foundry exists     *)
(* nowhere, and a foundry some of whose tokens were burned is never        *)
(* destroyed.                                                              *)
NoOrphanedTokens ==
    \A t \in Tokens : foundry[t] = NoFoundry => circulating[t] = 0 /\ burned[t] = 0

(* A foundry was created by an account that exists or existed, under a     *)
(* serial number up to its counter.  With the properties above it is       *)
(* inductive.                                                              *)
SerialsBelowCounter ==
    /\ \A t \in Tokens : births[t] > 0 =>
            account[t[1]] \in {"live", "destroyed"} /\ t[2] <= counter[t[1]]
    /\ \A t \in Tokens : foundry[t] # NoFoundry => births[t] > 0

=============================================================================
