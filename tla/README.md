# TLA+ models of iota.go

iota.go is the Go library of the IOTA 2.0 protocol: the objects of the protocol
and their syntactic rules, the virtual machine that executes transactions, the
providers that tell which protocol version, slot and epoch is in force, builders
for transactions, outputs and blocks, the proof of work, encodings and clients for
a node. This directory holds TLA+ models of the parts with logic of their own, TLC
configurations that check them on small instances, and TLAPS proofs for all
instances of what matters most.

    tlc -workers 2 -config MCUnlocks.cfg MCUnlocks      # any run of PROJECT.json
    tlapm UnlocksProofs.tla                             # any *Proofs module

`PROJECT.json` maps every definition to its lines of the source, lists the runs,
a mutant for each property (a plausible bug that breaks it), the hazards of the
code with the properties that cover them, the findings and the theorems.

## Inventory

| component | state | operations | hard because | correct when |
|---|---|---|---|---|
| unlock validation (`unlock.go`, `vm/vm.go`) | maps of seen unlocks; `UnlockedAddrsByAddrKey`, `SignatureUnlockedAddrsByIndex` | the validator per unlock; `unlockOutput` per input | references between unlocks, nested multi unlocks, chains that own chains, pointers shared between maps | only what signatures authorise is unlocked; the incremental checks equal the declarative rules |
| expiration and timelock (`unlock_cond.go`, `vm/vm.go`, `block.go`) | none; the slot of a commitment stands for that of the block | checks per block and per input | the commitment is older than the block, each block may choose another one | owner and return address never overlap, nothing is early, nothing is lost |
| proof of work (`blockissuer/pow`) | a flag, two channels, a wait group | `Mine` | goroutines, cancellation | a valid nonce or a justified error, no panic, hang or leak |
| API provider (`api_epoch_based_provider.go`) | versions, parameters, latest and committed API | `AddProtocolParametersAtEpoch`, `AddFutureVersion`, `SetCommittedSlot` | calls interleave, slots come out of order | the committed API is that of the committed slot |
| node clients (`nodeclient`) | an API provider, result sets, subscriptions | requests, paged queries, subscriptions | late answers, failing requests, callbacks, contexts | no panic, no results silently missing, handlers end |
| time provider (`timeprovider.go`) | parameters | conversions | boundaries, genesis slot | slots partition time, epochs partition slots |
| mana decay (`mana_decay_provider.go`) | decay factors | decay, generation | fixed point arithmetic in halves of words | neither more nor much less mana than the exact value |
| foundries and native tokens (`vm/nova/vm.go`, `token_scheme_simple.go`, `vm/vm.go`) | foundry counter, token scheme, native tokens of the outputs | genesis, transition, destruction, transfer, burning | each transaction is checked alone, the supply is a fact of the whole ledger | a foundry ID is created once; minted less melted is what exists or was burned |
| account features (`vm/nova/vm.go`) | block issuer and staking feature | genesis, conversion of an implicit account, transition, destruction | epochs are judged by a commitment of the sender's choice | rewards once and afterwards, stake bound, issuer accountable |
| delegations (`vm/nova/vm.go`) | start and end epoch, zeroed ID | genesis, delayed claiming, destruction | bounds computed from different slots | rewarded only for epochs whose power was measured |
| anchors and NFTs (`vm/nova/vm.go`) | state index, features | state and governance transition, destruction | two owners with different rights; who owns is derived from the output that is proposed | each owner changes only its part, immutable features stay |
| balances (`vm/vm.go`, `mana.go`) | inputs and outputs of a transaction | base tokens, mana, native tokens, storage deposit returns | several deposits at once, mana that is bound to accounts | nothing is created or lost |
| output syntax (`output.go`, `api_v3.go`, `storagescore.go`) | none | the validators per output | an output that is valid must also be spendable | deposits can be returned |
| transaction builder (`builder/transaction_builder.go`) | inputs, outputs, allotments, unlocked positions | adding parts, distributing mana, `Build` | calls in any order, picks references for unlocks, repeats the mana rules of the virtual machine | what it builds passes validation and pays for its block |
| output and block builders (`builder`) | the output or block, slices shared with the previous output | setters, transitions, `Build` | any order, sorting after signing | what is built decodes, transitions and is signed |
| addresses (`address*.go`, `bech32`) | none | writing and parsing | padding, case, separator, checksum | one text per address, typos are found |
| Merkle hasher (`merklehasher`) | none | hash, proof, check | recursion on sizes that are no power of two | a root binds its list, proofs prove what is in it |

Interaction: a builder makes a transaction out of outputs and wraps it into a block;
`block.go` checks the commitments, `unlock.go` the unlocks, the virtual machine then
computes the unlocked addresses which all later checks use (sender, issuer, storage
deposit return, transitions). The clients feed committed slots and protocol parameters
into the API provider, which hands out the API (and its time provider) everything else
is checked with.

## Modules

| module | models |
|---|---|
| `Unlocks`, `MCUnlocks`, `UnlocksProofs` | unlock validation, syntactic and semantic |
| `CommitmentRules`, `EpochRules` | which commitments a block may name; the two bounded slots and their epochs |
| `CommitmentWindow` | who may spend an output when |
| `Foundries` | foundries and native tokens of the ledger (run by `MCOutputs`, proved in `LedgerAndClockProofs`) |
| `AccountFeatures` | staking and block issuance of an account |
| `Delegations` | the life of a delegation output |
| `MCCommitments`, `CommitmentProofs` | instances and proofs of the three above |
| `PowMine`, `PowMineProofs` | the goroutines of `Mine` |
| `EpochBasedProvider` | the API provider |
| `NodeClient`, `PagedQueries`, `EventClient` | a client, its queries in pages, its subscriptions |
| `NodeSession`, `MCNodeSession`, `NodeSessionProofs` | composition of the four above |
| `TimeProvider` | time, slots, epochs (its proofs are in `LedgerAndClockProofs`) |
| `ManaDecay`, `MCManaDecay` | mana over time |
| `ManaRules` | what the virtual machine asks of the mana of a transaction |
| `TransactionBuilder`, `BlockBuilder` | the builders |
| `BuiltTransactions`, `MCBuiltTransactions`, `BuiltTransactionsProofs` | composition of the two with the rules of `ManaRules` and with `Unlocks` |
| `OutputSyntax` | what decodes, the validators of outputs, storage scores |
| `ChainTransitions` | anchors, NFTs and base tokens in the virtual machine |
| `OutputBuilder`, `OutputBuilderProofs` | the builders of outputs |
| `OutputLedger`, `MCOutputs`, `LedgerAndClockProofs` | the ledger over many transactions; its run also runs the builders and the foundries |
| `Sorting`, `OrderLemmas` | what sorting does to a slice; lemmas on numbers in order, for the proofs about both kinds of builders |
| `Bech32`, `Addresses`, `MerkleHasher`, `Encodings`, `MCEncodings` | texts of addresses, roots of lists |

`CommitmentWindow`, `AccountFeatures` and `Delegations` extend `CommitmentRules`;
the last two do so through `EpochRules`, which instantiates `TimeProvider` with the
slot of the block as its clock. A module whose constants the cfg can give directly has no `MC` module. `BuiltTransactions` instantiates `Unlocks` and `BlockBuilder` and
drives their actions with what the transaction builder returned. `MCCommitments` and
`MCOutputs` give each behaviour one of the specifications they join, which share no
variable that changes. Definitions whose
comment begins with "Mutant" are the plausible bugs of `PROJECT.json`; no
specification uses them.

### Unlocks

`seen` are the maps that `SignaturesUniqueAndReferenceUnlocksValidator` closes over,
`unlocked` is `UnlockedAddrsByAddrKey` (of an address: the input that unlocked it and
the inputs that refer to it) and `sigUnlocked` is `SignatureUnlockedAddrsByIndex`. The
transaction is not chosen at the start. One action reads the next unlock and validates
it as one call of the validator does; the next phase picks the next consumed output and
runs `unlockOutput` on it. So a prefix is explored once for all its continuations. A
signature is its key and whether it verifies; an address is a model value with a type, a
key, members or an underlying address. Of an output the model keeps owner, governor,
chain, expiration and what the transaction does to an anchor's state index. That
addresses nest as the serializer's rules allow is an assumption (`NestingAssumption`).

`ValidatorIsExact` compares the incremental validator with its rules stated over the
whole sequence of unlocks. `UnlocksAreAuthorised` says that the unlocked addresses lie
in the least set closed under: the key of the address signed; members of enough weight
are in the set; the owner of the chain's input is. `ReferencesAreConsistent` concerns
what later checks ask, `UnlockedBy` of an input and an address, in both directions. It
has one exception, `BookedOnSigner`: an input whose owner is unlocked by reference to the
signature of another address of the same key is booked on that address.

### CommitmentRules and CommitmentWindow

The virtual machine does not know the slot of the block. The rules of `block.go` tie the
commitment input of a transaction to that slot, and `PastBoundedSlotIndex` and
`FutureBoundedSlotIndex` enclose it. In `CommitmentWindow` the slots go by and blocks
spend one output with an expiration and a timelock; all spends are kept, the conflicting
ones too, since each of them is valid when it is processed. A commitment input to
slot 0 passes the check for recent commitments in any slot (`block.go:429`); the
properties name this exception. `DeadSlotsAreKnown` says in which slots nobody can spend
the output whatever a block names: before the timelock, and, if the expiration follows the
timelock so closely that no commitment suits the owner (`OwnerIsShutOut`), before the
expiration too.

### Foundries

The variables are the ledger: account outputs, foundry outputs, and the native tokens
of all outputs together. One action is one accepted transaction that consumes an account
and any of its foundries, and creates, transitions and destroys foundries while tokens
move in and out; `Transfer` is a transaction without accounts. The actions contain the
account's counter check, the serial numbers in the order of the outputs, the three
transitions of the token scheme and the balance of the tokens without foundry on
the output side. `births`, `burned` and `base` only remember the past.

### AccountFeatures

One account is created (directly, or as an implicit account that is converted later),
transitioned and destroyed while the slots of the blocks go up. Each action takes any
commitment that a block of the current slot may name. `boundIn`, `claims` and `issuable`
remember which block set the end of the stake, which epochs were paid, and up to which
slot the account could issue blocks. The mana that must stay on such an account is the
subject of `ManaRules`.

### Delegations

One delegation output, in the same setting. The specification's side of the property
is that the voting power for epoch `e` is measured at the end of slot
`registrationSlot(e - 1)`.

### PowMine

A step is one operation that goroutines synchronise on: load or store of the flag, send,
receive, close, the return of `wg.Wait`. The hash is abstracted to the set of nonces that
meet the target, any set including the empty one. Nonces wrap around after `MaxNonce`.

### EpochBasedProvider, NodeClient, PagedQueries, EventClient

A method of the provider is one action, since it holds the mutex, except
`AddProtocolParametersAtEpoch`, which takes the mutex twice. `StartEpoch` is what the
network agreed on; a caller may give a version any start epoch, and `Agreed` tells whether
the slice of versions holds the ones agreed on. Parameters are identified with their version.
`AddFutureVersion` announces epochs after the committed ones, as the upgrade signalling
of a node does. The slice of versions is sorted again after each append; on a slice that
is sorted this is an insertion, and that is how `Added` states it.

`NodeClient` extends the provider: `New` asks for the versions, which the node lists in
any number, order and from any epochs (`Listings`), and adds one after the
other; each later call remembers the API it will decode its answer with, and the answer
arrives in a step of its own, with any status code. An answer to `Info` may be older than
one that arrived before and sets the committed slot back. Answers that the client takes
for granted and panics on are actions: `Info` or the block issuance without content,
output IDs that are not hexadecimal, an output of another kind than asked for. `misled`
remembers that one of them came. An answer of the indexer without items is an error,
not a panic (`indexer_client.go:162`).

In `PagedQueries` the node answers a cursor with a page; requests fail at any time. A
result set may be asked for the next page after a failure, and `ValidatorsAll` stops at
its limit of pages.

In `EventClient` a handler is a goroutine per message: it decodes with the API of the
message's version and then waits, on the channel of its own subscription, for a reader or
for the context of the client. Subscribing again replaces the handler of the topic;
`Connect` replaces the context. The select statement has evaluated its context by
then: a waiting handler keeps the one it began with.

`NodeSession` gives every behaviour one user of the provider: a node under upgrades, or
one activity of a client. The activities of a client only share the provider, and only
requests change it.

### TimeProvider and ManaDecay

Times are relative to the genesis and counted in fractions of a second, so that the last
unit of a slot is not a whole second. The genesis slot is a variable that never changes,
so one run explores several.

`ManaDecay` adds an output that holds an amount of base tokens. A transaction moves it
with all the mana it has, in any slot, again and again. The arithmetic is that of the
code on words of two halves of `HalfBits` bits: the 32 bits of the code are 6 in the run,
so that the carries between the halves and the shifts across them happen with numbers
that TLC can enumerate. `exact` is the mana as a fraction, from the decay per epoch that
the table of factors approximates.

### TransactionBuilder, ManaRules, BlockBuilder

The variables of `TransactionBuilder` are the fields of the builder; a wallet says what
its caller may do. `distributed` remembers the operation that distributed the mana last
and is reset by every later change: the promises of these operations hold for what is
built right afterwards. Loops that subtract one output after the other from the available
mana are sums. `ManaRules` holds what the virtual machine asks: the balance and the last
part of `accountBlockIssuerSTVF`. The stored and potential mana of an input are given
per slot. In `BlockBuilder` a signature is the content that was signed, so that sorting
the parents in `Build` is visible. `CalculateAndSetMaxBurnedMana` fails where the
cost exceeds `ManaLimit`, and later calls and `Build` then only report that.

### OutputSyntax, ChainTransitions, OutputBuilder, OutputLedger

An output is a record with sequences of unlock conditions and features. `OutputSyntax`
has the registrations of `api_v3.go`, which decide what decodes, and the validators of
`output.go`. `OutputBuilder` has one action per setter; for the block issuer keys of an
account it models slices and arrays, since the builder's clone shares its array of keys
with the previous output; a slice that the caller hands over is stored as it is, and
`orderly` remembers whether it was ascending. `Decodable` contains the rules for block
issuer keys of `api_common.go`: how many, and in which order. `OutputLedger` executes transactions over a set of candidate
outputs that need not come from a builder; `born` and `unlocked` remember what the
properties compare with. The sizes of outputs and addresses are in
`ScoreParams`, chosen so that a deposit can be too small for the output that returns it.

### Encodings

Texts are sequences of ASCII codes and go through the real base32 grouping and the real
checksum polynomial; an identifier is one byte instead of 32, and the limit on the length
is scaled with it. Besides texts the code wrote there are texts of another encoder, which
may be non-canonical in any way, and texts with up to two wrong characters. The Merkle
hash is free: a hash is a record of what was hashed, and one of the values has the bytes
of an inner node.

## What the runs show

| run | states | bounds, and why they are enough |
|---|---|---|
| `unlocks` | 30498 | three inputs, two keys, eight addresses of all types: a signature, a chain it unlocks through a multi address, and an input that chain owns fit into three inputs; one key has two addresses; commitments before, between and after the windows of an expiration |
| `commitments` | 171314 | fourteen slots, committable ages 1 and 3, epochs of two slots. Every position of expiration and timelock before, in and after a window, and two spends, one of each side; delegations whose past and future bounds fall into different epochs and on both sides of the registration slot; two stakes of an account after each other, with ends moved in between |
| `pow_mine` | 35401 | all sets of solutions, three workers and four nonces: two winners and a loser, wrap-around |
| `node_session` | 127244 | four versions, of which one starts before an older one, and four epochs; lists of up to two versions from epochs 0 and 1; up to five results in pages of two, page limits below, at and above the need; three messages, two channels, two contexts, so that a subscription or a context is replaced while a handler waits |
| `mana_over_time` | 311027 | four epochs of four slots, a table of three factors, so that decay takes the table more than once; amounts up to the largest word |
| `encodings` | 61702 | all types of addresses, three prefixes, up to two typos anywhere; lists of up to six values, past a power of two on both sides |
| `built_transactions` | 935439 | three inputs out of twelve owned in different ways; two accounts and three outputs with mana, two slots; four calls of a block builder, with a reference mana cost below and above the limit |
| `outputs` | 21284 | three calls of any output builder and up to two calls of `Build`, slices of no, one and two keys in any order, a maximum of three keys (128 in the code); three transactions with an anchor or an NFT, two with deposits to three kinds of addresses; foundries of one account with two serial numbers and up to two tokens, so that one is created after another is destroyed and tokens are minted, moved, melted and burned in parts, with and without the three capabilities |
| `time_provider_next_epoch` | violated | genesis slots 0, 1 and 4 |
| `chain_unlocks`, `staking_end_epoch` | violated | those of `unlocks` and `commitments` |
| `pow_errors` | violated | two workers, two nonces |

`PROJECT.json` names the properties of each run. Deadlock is not checked: a transaction
that was accepted or refused, a mined block, a panic, a built object and a destroyed
output are ends, and time stops at the bound of a run.

Fairness is assumed in two places. In `PowMine`: weak fairness of each goroutine, as the
Go scheduler is preemptive and the flag is an atomic that the loop reads every round.
Nobody is forced to cancel. `MineEnds` therefore promises a return only if the context
is canceled, a solution exists or the target is impossible. In `NodeSession`: weak
fairness of the goroutine of each message's handler, which includes the handover to a
reader that keeps reading. Nobody is forced to read, to cancel a context or to send.
`ReadMessagesArrive` excepts readers that leave, `HandlersEnd` needs the context to end.

### Disagreements between code and documentation

Each is a run that TLC violates; the passing properties follow the code.

`time_provider_next_epoch`: `SlotsBeforeNextEpoch` counts the genesis slot twice. The
potential mana of an output is computed with it, so on a network whose genesis slot is
not 0 an output generates too much mana in its first epoch; `NoManaFromRounding` and
`LittleManaIsLost` are stated for genesis slot 0.

`chain_unlocks`: the doc of the validator of unlocks says that chain unlocks lead to a
signature unlock in the end (`unlock.go:141`); the code accepts a multi unlock there,
without which a chain owned by a multi address could unlock nothing.

`pow_errors`: `ErrCanceled` is documented for a canceled context (`worker.go:13`) and
`ErrInvalidTargetTrailingZeroes` for an impossible target (`worker.go:19`). The error of the
worker is dropped in its goroutine (`worker.go:75`), and `Mine` reports `ErrCanceled`.

`staking_end_epoch`: a staking feature counts as expired when the epoch is "equal or after
the end epoch" in the comment (`vm/nova/vm.go:516`), after it in the code (`:449`). That
rewards are claimed only afterwards (`RewardedAfterwards`) needs the reading of the code.

### Observations

Met while modelling; the models contain the behaviour unless noted otherwise.

- An input unlocked by reference is booked on the address whose signature it refers to,
  not on its own (`vm/vm.go:247`, the doc at `:224`); `UnlockedBy`, which the storage
  deposit check asks, then denies the input to its owner.
- A foundry created in the transaction that converts its implicit account makes the
  virtual machine panic at a type assertion (`vm/nova/vm.go:812`, where the comment
  before it assumes an account output). `Foundries` has this as `PanicOnImplicitAccount`.
- An output whose expiration comes at most `MaxCommittableAge - MinCommittableAge` slots
  after its timelock, or before it, can never be spent by its owner (`OwnerIsShutOut`), and
  nothing refuses such an output.
- The mana of an anchor is compared by neither kind of transition (`vm/nova/vm.go:707-750`),
  though the doc does not list it as mutable (`:650-652`): either controller may change it.
  `PowersAreSeparate` excepts it.
- A second `Build` of an anchor builder counts the state index again
  (`output_builder_anchor.go:120`); after a state transition the virtual machine refuses the
  result. `BuiltIsValid` states both.
- No builder checks block issuer keys: `RemoveKey` can remove the last one, `AddKeys` exceed
  the maximum, and `BlockIssuer` and `Keys` keep an unordered slice, none of which
  decodes. `BuiltIsValid` excepts them. `BlockIssuerTransition` and `StakingTransition` promise
  to create a feature that is missing (`output_builder_account.go:164`), but the feature they
  create is put into no output.
- The client panics on the answers named with `ReadyClientNeverPanics`, and once a node
  listed no version, at the next call. Start epochs other than those agreed on can leave a
  slot without a version.
- `BlockIssuerFeature.Clone` shares the array of keys (`feat_blockissuer.go:40`), so the
  account builder can change the keys of the previous output while it edits the clone.
- `MultiAddress.Clone` makes a slice of length 0 and assigns to its elements
  (`address_multi.go:62`), which panics; `TransactionBuilder.Clone` and the clones of
  outputs reach it. `Clone` of the builder is not modelled.
- `ParseBech32` does not look at bytes behind a multi address or behind the capabilities
  of a restricted one (`address.go:223`); `TextsAreCanonical` excepts multi addresses.
- A chain may own itself through a restricted address: the cyclic check compares the
  address of the condition and not the one inside.
- `New` of the client panics if a node lists a version the library has no API for.
- Closing a subscription whose topic was subscribed again unsubscribes the new one;
  a handler whose reader left waits until the context is done, and `Close` of the
  event client does not end it; an error of decoding can be reported twice.
- Sending a transaction builder a second time distributes the mana once more
  (`blockissuer_client.go:128`); the second transaction may differ from the first.
- `FutureBoundedSlotIndex(0)` may lie ahead of the block, where its doc excludes that
  (`vm/vm.go:138`); the conversion of an implicit account accepts any foundry counter, where
  the doc of the error wants the number of new foundries (`output_account.go:14`; the model
  has this as `base`).
- `ParseBech32` decodes without validation, so also a restricted address inside a
  restricted one; `Addresses` refuses that text, as no property speaks of such texts.

## What is proved

All theorems hold for every value of the constants that meets the named assumptions.

| theorem | states |
|---|---|
| `UnlocksProofs!TypeCorrect`, `Soundness` | types; nothing is unlocked that the signatures do not authorise |
| `UnlocksProofs!AcceptedIsUnlocked`, `ReferencesStayConsistent`, `ValidatorStaysExact` | the owners of accepted inputs are unlocked; `UnlockedBy` agrees with the unlocks, direct references excepted; the incremental validator equals its rules |
| `CommitmentProofs!OwnerOnlyBefore`, `ReturnOnlyAfter`, `OwnerPrecedesReturn`, `NoOtherSlotIsDead` | the windows of owner and return address, and the slots that they leave to nobody |
| `LedgerAndClockProofs!FoundriesTypeCorrect`, `FoundriesAreBornOnce`, `SupplyConservation`, `NoTokenWithoutFoundry` | the tokens of the ledger |
| `CommitmentProofs!AccountTypeCorrect`, `NoDoubleRewards`, `NoEarlyRewards`, `StakesUnbond`, `IssuersAreAccountable` | rewards, stakes and block issuers |
| `CommitmentProofs!RewardsAreMeasured` | delegations are rewarded for epochs that measured them |
| `LedgerAndClockProofs!TimeIsPartitioned` | slots partition time, epochs partition slots |
| `PowMineProofs!MineTypeCorrect`, `ResultsAreJustified`, `SendsNeverPanicOrBlock` | the goroutines of `Mine`, any number of them |
| `NodeSessionProofs!ProviderStaysConsistent`, `ClientsNeverPanic`, `PagedQueriesAreComplete` | the provider under nodes and clients, the answers a client may panic on, the queries in pages |
| `LedgerAndClockProofs!LedgerIsConsistent`, `ImmutableFeaturesStay`, `AnchorPowersAreSeparate` | chains over sequences of transactions |
| `BuiltTransactionsProofs!BuiltUnlocksPass`, `BlocksAreSigned`, `ManaLocksOutliveBlocks` | what the transaction builder and the block builder make passes the validators |
| `OutputBuilderProofs!BuiltOutputsAreValid` | what the output builders make passes the decoder, the order of its parts and, for anchors, the virtual machine, but for the exceptions named |

*Unlocks.* `UnlocksAreAuthorised` is not inductive: a reference may be accepted on the
strength of `sigUnlocked` alone. `AuthorisationInv` adds that the keys in `sigUnlocked`
signed the transaction (`SignaturesAreSigned`) and that nothing is unlocked before the
semantic phase, while unlocks are still being read (`NothingBeforeExecution`). The step
for an input then shows for each kind of unlock that a set closed under the rules which
contains the unlocked addresses also contains the new one; more inputs make a set
closed less often, never more often. `OwnersInv` is `AcceptedOwnersUnlocked` for every
prefix of the inputs, with the fact that an accepted transaction has as many inputs as
unlocks. `ReferencesInv` says of every entry that its references are reference unlocks to
the place of the entry, and of every input that its owner's entry or the signer's books
it; it needs `SignedAreDirect`, because the entry of a chain is written
anew when the chain's output is unlocked, and a signature's entry must not be. The lemma
`UnlockAddressFates` reduces a step to what can happen to one entry. For the validator,
`SeenIsExact` says of each of its maps which unlocks are in it; each rule over the whole
sequence then splits into the rule for the prefix, which holds by induction, and the rule
for the last unlock, which is the question put to the maps.

*CommitmentWindow.* `WindowInv` remembers of each spend that it was justified by some
header commitment when it was recorded. The lemma `BlockSlotIsBounded` turns that into
the inequalities between its slot and the two bounded slots. `DeadSlotsAreKnown` needs no
more than the types. For the slots that are not dead the newest commitment of the window
serves the return address, and the oldest one that the timelock lets pass serves the
owner, who needs one old enough for the expiration; conversely, a commitment that serves the owner of an output with both is
bounded from both sides, which `OwnerIsShutOut` contradicts.

*Foundries.* `SupplyInv` joins all four properties and `SerialsBelowCounter`. Supply
alone is not inductive: a second creation of a foundry ID would begin again with nothing
minted while tokens of the first one circulate. That no ID comes back needs the counter,
and that a new foundry starts with no token in the ledger needs `NoOrphanedTokens`.

*AccountFeatures.* `StakingInv` adds `StakePromises`: the paid epochs lie before the start
of the current stake, and its end is at least the unbonding period after the epoch of the
block that set it. Both rest on the slot of the block lying between the two bounds. For
a commitment to slot 0 only the past bound holds, and the virtual machine may believe in
an epoch that has not begun. `StakePromises` therefore also says that no stake ends
before the epoch of slot `MaxCommittableAge`: as `MinCommittableAge` is not larger, no
stake ever seems over to a transaction that commits to slot 0. `IssuableIsCovered`, that
the expiry slot of a block issuer is not before the last slot it could issue in, carries
`IssuerIsAccountable` through transitions that shorten the feature.
The epoch length enters through the assumption that `2 ^ SlotsPerEpochExponent` is a
positive natural number, which TLC evaluates and the provers cannot derive; the same in
`Delegations` and `TimeProvider`.

*Delegations.* `RewardedForMeasured` alone does not know where the start
epoch came from. `StartWasExpected` adds that some commitment explains it, from which
`Registrations` and `EpochsMonotone` derive that it begins after the registration slot of
the epoch before.

*TimeProvider.* The time and the genesis slot have their types, and the rest is
arithmetic on quotients, from the lemmas `Division` and `Quotient`: `ClockSlots` and
`ClockEpochs`. The run checks `SlotsPartitionTime` under `ManaSpec`, whose steps leave the
clock alone or are steps of it. These proofs share a module with those of `OutputLedger`
and `Foundries`, with which they have nothing else in common.

*PowMine.* `MineInv` says who may have set the flag (`FlagIsJustified`: the context, or a
worker that has sent or is about to), that only solutions are sent, and that there are no
more results than finished workers (`OneResultEach`). The last one bounds the channel by
counting: while a worker runs, the finished ones are a proper subset of the workers.

*NodeSession.* `ProviderInv` says that the slice of versions is strictly sorted, that it
holds just the known versions, and how the committed version, the latest one and the
callback stand to the versions in force at the committed and at the highest slot. It is
stated for a provider that has not panicked and for two phases, while the node sets it up and
afterwards. The scan through the slice for an epoch is shown to find the greatest version
that has started (`ScanFindsNewest`), and an insertion to keep the slice sorted
(`AddKeepsSorted`). That a nonempty bounded set of numbers has a greatest element
comes from the well-foundedness of the order (`WFMin`), as induction is not available.
All of it is conditional on `Agreed`: with other start epochs the versions need not be in
force from epoch 0 on. `ClientInv` ties the phases of a client to this: if `New` returned,
listed a version and was told the epochs agreed on, a version is in force in every epoch, so
that a call never finds the provider empty. A panic of the client then needs an answer that
set `misled`. `ProviderAssumption` says that the genesis version is at least 3, the first
one for which the library has an API. `QueryInv` and
`PagesInv` say that what was collected is a prefix of the results, of the length at which
the cursor stands, and that only a query with an error may stop before the end.

*OutputLedger.* `ImmutableSinceGenesis` and the separation of an anchor's powers hold per
chain, and a chain must not have two outputs: `OneOutputPerChain` is the invariant that
matters. It rests on `ChainConstrainedOutputUniqueness` for two outputs of a transaction, on
the new chain's ID for a genesis, and on the invariant itself for the output of a chain
that is not consumed. `OutputHasFate` splits the outputs of a transaction into basic ones,
beginnings and continuations. That an anchor's unlock conditions stay when both
controllers do needs `AnchorsHaveControllers`: what decodes and is lexically ordered has
just these two conditions. `LedgerAssumption` says that candidates are basic, anchor or NFT
outputs, the types of this module, that the ledger begins with basic ones, and that a
chain's ID is neither the empty one nor the mark of outputs without chain.

*BuiltTransactions.* Three invariants, each on top of the one before. `BuilderInv`: a
built transaction is what `build` makes of the inputs that the builder still holds, and
each of them could be unlocked. `BlockInv`: the parents are ascending at all times, the
payload of a block is the built transaction, and a signature that was the last call is over
the content. `BlockIsSigned` follows, because sorting what is ascending changes nothing
(`SortKeepsAscending`); the setters leave ascending parents because a finite set of numbers has
an ascending enumeration, which is shown for a least counterexample (`FiniteIsEnumerated`).
`ManaLockOutlivesBlock` joins the two builders: the virtual machine bounds the end of the
lock, and the rules for blocks the slot, by the same commitment.
`BuiltUnlocksAccepted` is far from inductive, since it says nothing before the end.
`UnlockKinds` splits the unlocks that `build` picks into three kinds: the signature of the
first input of a key, a reference to it, a reference to the input that carries the owner.
`VMInv` then says what the validators know after each prefix. `Reading`: the maps of the
syntactic validator hold just the positions and signers read so far. `Resolving`: the
inputs resolved are a prefix of the builder's. `Unlocking`, if the caller was right: the
owner of a signed input is unlocked at that input and nowhere else (`SignersUnlocked`), a
chain at the input that carries it (`ChainsUnlocked`), and an address with a key is only
there if it owns an input (`DirectsAreOwners`), which is why a signature never meets an
address that is unlocked already. That the entry of a chain is not written twice
needs that no two inputs carry the same chain, and that a signature's entry is not
overwritten needs that a chain's address has no key. `WalletAssumption` says what the
ledger guarantees of the outputs it holds, `BlockAssumption` that parents are sequences and
that there is a slot to begin with.

*OutputBuilder.* `BuiltIsValid` says nothing of an output that is still being edited, and
calls may come in any order. `OutputBuilderInv` has three parts that hold between any two
calls. `OutputOk`: the slices of conditions and features hold no type twice, only types
that the builder offers, and every condition that the output must have; the order is
left to `Build`. `Upsert` and `Remove` keep this. Sorting a slice without two of a type is
then shown to give the same elements in strict order (`SortSlice`), and since a ledger output
is in this order already, sorting returns it unchanged, which is what keeps the conditions of
an anchor equal to those of its previous output. `KeysInv`: the keys that the output sees of
its array are ascending while the caller's slices were (`orderly`). The array may be shared with the previous output
(`BlockIssuerFeature.Clone`) and have room behind them, so adding and removing rewrite it in
place; only what the output sees matters, and each call sorts just that. `AnchorInv`: until
`Build`, whatever belongs to the state controller is as it was or `stateCtrlReq` is set, and
likewise for the governor. `Build` refuses both at once and counts the index for the first,
so that the controller which the virtual machine finds from the index is the one whose parts
changed (`AnchorIsBuilt`); that a count modulo `IndexLimit`, once or twice, is never the same index needs a limit
above 2. `BuilderAssumption` says that previous outputs were decoded and validated, that
keys are numbers of which at most 128 are allowed, and that callers hand over no implicit
account creation address: no builder checks that, and the output would be refused.

`OrderLemmas` has what both kinds of builders need of sorting: that distinct numbers can be
sorted, in one way only, and that the sorted sequence has the same elements. Where one would
use induction it takes a least counterexample.

Only model-checked, and why:

- liveness of `PowMine` and `EventClient` (`MineEnds`, `HandlersEnd`, `ReadMessagesArrive`):
  fairness is out of reach of the prover;
- `NoManaFromRounding` and `LittleManaIsLost`, `DistributedManaIsValid` and `IssuerCanPay`,
  `DepositsAreSafe`: their sums and decays over sequences need induction over data.
  `IssuerCanPay` moreover holds only while allotments stay below `ManaLimit`, as
  `IncreaseAllotment` wraps; the run stays below;
- the properties of `Addresses` and `MerkleHasher`: bit operations and recursive operators.

The proof of `BuiltUnlocksPass` found a flaw of an earlier model: outputs without a chain
shared one mark, and the virtual machine, which asks that no two inputs carry the same
chain, never resolved a second one of them. They now carry `NoChain`. The proof of
`BuiltOutputsAreValid` found that `RemoveKey` left out the sort with which
`BlockIssuerKeys.Remove` ends.

## Plan

Theorems to come: `ReturnIsPossible` of `DepositsAreSafe`.

Models to come: several sets of parameters per version in `EpochBasedProvider`; one ledger
with base tokens, native tokens and mana together; a client that sends the same
transaction builder again after a failure.

## What is not modelled

The serializer and generated identifiers (external or generated code), REST types and HTTP
itself (input and output without logic), key derivation, formatting of numbers, limits on
the sizes of blocks and network IDs. 256-bit overflow of token sums is left out in
`Foundries`; the amounts, addresses and immutable features that transitions compare for
equality are left out where no property tells them apart. The reference mana cost and the
rewards are computed by a node and are inputs here. `PROJECT.json` lists every component
with its reason.
