# Verification of the stablecoin chain

TLA+ specifications of the parts of `src/chain` that carry logic of their own, the TLC
configurations that check small instances of them, and TLAPS proofs of what matters most for
every instance.  `PROJECT.json` lists the components, runs, mutants, findings, hazards and
theorems, and maps each definition to the source lines it stands for.

## 1. Inventory

The repository is a Cosmos SDK application generated by Ignite, with the operational code
around it.  Keepers, blocks, stores and genesis commands are the SDK's and CometBFT's; the
repository calls them.

| Part | State | Operations | What is hard |
|---|---|---|---|
| **Zero-height export** `app/export.go` | the export's check-state context over the stores of x/distribution, x/staking, x/slashing | `ExportAppStateAndValidators`, `prepForZeroHeightGenesis` (eight loops) | records deleted while others point at them; a height switched back and forth; errors ignored; an early return; a list reused after the state changed |
| **Multi-node testnet** `cmd/…/testnet_multi_node.go` | directories of the nodes: keys, gentx files, genesis, configs | the `multi-node` command | reruns over what an earlier, failed or larger run left; two clean-up policies, one of which may itself fail half way; port arithmetic |
| **In-place testnet** `cmd/…/testnet.go` | stores in memory, stores on disk, consensus state | the `in-place-testnet` command | writes that reach the disk only with the next block; five indexes that name validators; exit between minting and sending; one call whose error is dropped |
| **Single-node scripts** `scripts/start-single-node.sh`, `reset-local.sh` | the home directory | bootstrap, reset, configure, start | ended between any two commands; partial `rm -rf`; two defaults for one directory |
| **x/stablecoin** `x/stablecoin` | the `Params` item | `UpdateParams`, `Params` query, `InitGenesis`, `ExportGenesis` | atomicity of transactions; partial genesis files; a query that hides a missing item |
| **Module accounts and block order** `app/app_config.go`, `app.go` | balances of the bank, and what staking, distribution, gov and transfer believe to hold | genesis, begin and end block, transactions, proposals | three lists of accounts that must fit each other; orders whose reasons are comments; a missing permission shows blocks later |
| **Scaffold script** `scripts/scaffold-chain.sh` | the chain directory, the temporary directory | one run: test, generate, merge, normalise, record | a merge that is cut short; failures that are ignored; edits between runs |
| **Wire codec** `x/stablecoin/types/*.pb.go` | the buffer, the position in it, the message being filled | `Marshal`, `Size`, `Unmarshal`, `skip…` of seven messages | lengths and varints that overflow; unknown fields and groups; a nested call on a slice; a buffer filled backwards into a size computed before |
| **Query gateway** `x/stablecoin/types/query.pb.gw.go`, `query.pb.go` | registered routes, the connection and the goroutine that closes it, requests in flight | three registrations, the HTTP handler, the gRPC client and service handler | contexts that end and connections that close under requests; replies after an error |
| Commands, devnet script, OpenAPI page, placeholders | – | – | not modelled, see section 8 |

The parts meet at the genesis: the generator and the scripts write the one a chain starts
from, the export writes the one the next chain starts from, and x/stablecoin is part of both.
They run in different processes and share nothing else, so no module composes them.  The
accounts and orders of `app_config.go` are those of the chain that they all start.  Inside the
chain the codec carries every message of x/stablecoin, and the gateway carries its query:
`WireCodec` composes the two directions of the codec, `QueryGateway` the HTTP handlers with the
client, the connection, the service handler and the keeper's answer.

What makes each part correct:

* *Export.*  Rewards are neither lost nor counted twice.  The exported records refer to each
  other consistently and to no height the new chain has not reached.  Nothing panics but for
  an allow list that excludes a validator in power, or an address that does not parse.
* *Generator.*  A run that succeeds leaves one network: one genesis, a gentx per node signed
  with the key in that node's keyring, peers that listen where they are announced, and no two
  listeners on one port, whatever lay in the output directory before.
* *In-place testnet.*  Afterwards the new validator is in every index and the old ones are in
  none that a block reads, so the next block can be made, unless setting the signing info failed
  unnoticed; a run that exits leaves no trace.
* *Scripts.*  Only an interruption can make a run fail; an existing home keeps its chain.
* *Module accounts.*  A module holds what it has booked, nobody else can send to the accounts
  where that matters, and no missing permission or early module stops the chain.
* *Scaffold script.*  A completed run leaves the scaffold of that run, edits are lost only to
  `--force`, and a refusal means that there is a scaffold.
* *Wire codec.*  Any bytes are either the fields of a message or refused, without leaving the
  buffer and without reading for ever; what is encoded decodes to the same message.
* *Query gateway.*  Each request gets one reply, for a true reason, also when a context or the
  connection ends under it; a connection that was dialled is closed when its context is done.
* *x/stablecoin.*  Only a genesis or an authorised update stores the item, and only its
  absence or a malformed section makes a start or an export panic.

## 2. Modules

| Module | Models | Runs |
|---|---|---|
| `DistributionF1` | one validator's reward records and the x/distribution operations on them | – |
| `ZeroHeightExport` (extends it) | blocks, the export loop by loop, the import of its genesis | `export`, `export_one_seat` |
| `TestnetFiles` | the generator over its output directory | `testnet_files`, `testnet_stakes` |
| `InPlaceTestnet` | `initAppForTestnet`, with the blocks before and after | `in_place`, `in_place_default` |
| `SingleNodeBootstrap` | both scripts over one home | `single_node` |
| `StablecoinParams` | the `Params` item over successive chains | `params` |
| `ModuleAccounts` | coins between users, modules, proposals and IBC | `accounts` |
| `ScaffoldMerge` | the scaffold script over one chain directory | `scaffold` |
| `WireFormat` | widths, tags, lengths and the fields of the messages | – |
| `WireDecoder` (extends it) | the `Unmarshal` and `skip` functions byte by byte | `wire` |
| `WireCodec` (extends that) | the `Marshal` and `Size` functions, and messages that pass through both | `wire` |
| `WireSyntax` (extends `WireFormat`) | the grammar: varints, items, groups, fields | – |
| `WireGrammar` (extends it) | the abstract specification of decoding, which `WireCodec` implements | `wire` |
| `QueryGateway` | registration, connection, requests and service of the Params query | `gateway` |
| `ZeroHeightExportProofs`, `InPlaceTestnetProofs`, `SingleNodeBootstrapProofs`, `TestnetFilesProofs`, `StablecoinProofs`, `ModuleAccountsProofs`, `ScaffoldMergeProofs`, `WireCodecProofs` | theorems | – |

Each `MC…` module holds the values its configurations give to the constants.  A definition
preceded by a comment that begins with *Mutant* is a plausible bug and is used by no
specification; `PROJECT.json` pairs it with the definition it replaces and the property that
then fails.

### DistributionF1 and ZeroHeightExport

A validator's record holds the fields of x/distribution (`current`, `period`, `historical`,
`starting`, `outstanding`, `commission`, `slashes`) and three sums that the SDK keeps elsewhere
or not at all: what went to the community pool, what was paid, what was ever received.
Amounts are integers in sub-units, `Unit` of them to the coin, so that truncation and its
remainders are real.  The records never mix validators, so each has its own share of the
pool.  The keeper operations are external, but the export is about their preconditions, so
they are modelled with their arithmetic and their panics (`panics` counts a call that met the
condition of one).

`phase` and `todo` are the program counter of `prepForZeroHeightGenesis`: one action per loop
iteration, in the order of the iterator, and one for each straight stretch between loops.

| Action | Code |
|---|---|
| `BeginZeroHeight` | the allow list, lines 57–72; a bad address panics, one that is no validator's or spells one otherwise (`Strangers`) protects nobody |
| `WithdrawCommission`, `ListDelegations`, `WithdrawRewards` | lines 76–107 |
| `ClearRecords` | lines 109–117, with the context's height set to zero |
| `ReinitializeValidator`, `BeginDelegations`, `ReinitializeDelegation` | lines 119–168 |
| `ResetEntries` | lines 170–203, back at the old height |
| `ResetValidator`, `CloseFails`, `ApplyUpdates` | lines 205–240 |
| `ResetSigning` | lines 242–255 |
| `ExportAtHeight` | an export not for zero height |

Blocks carry one operation each (reward, delegation, undelegation, redelegation, slash with or
without loss, unjailing) and end with the validator-set update.  `Import` starts the next
chain, so blocks and a second export follow a first one.  The export works on a context whose
writes reach the genesis only.  The errors that lines 32–49 return, of a module's own export, of
the encoding and of the list of validators, end the command without a genesis and are left out.

### TestnetFiles

`dirs` is what lies under the output directory and survives from run to run.  A key or account
made for node *i* by run *r* is `<<r, i>>`, which is all the properties need to tell old from
new.  Every step may fail: `Abort` is the error paths that leave the directory, and a kill;
`AbortAndRemoveAll` the ones that remove it.  The code drops the error of that removal, and it may
be killed as well, so it leaves any part of the node keys, of the gentx files and of the rest
(`Left`); `removed` remembers the node keys it took.  A gentx is `[node, account, stake]`, filed
under the node's key.

### InPlaceTestnet

`app` holds the stores the process works on, `disk` those of the last committed block; the
command changes `app` only, a block copies it to `disk`, and starting a process copies `disk`
back.  `voters` is the consensus state, which the SDK's server changes on its own.
`BlockHalts` says when a vote or an index entry does not resolve (`Unresolved`) or a voter has no
signing info.  Calls may fail: `ErrorExits` is `handleErr`, `SigningInfoFails` the one call whose
error the command drops, line 175, and `unsigned` remembers that.

### SingleNodeBootstrap

`home` records which run made each file, so a gentx for one key and a genesis with another
account differ.  `Kill` ends the script between two commands, `KillRemoval` in the middle of
`rm -rf`.  `interrupted` remembers that one of them happened during a bootstrap or removal and
that no complete removal followed.

### StablecoinParams

`Params` has no fields, so the state is whether the item is stored.  A genesis file names the
modules it has a section for and whether that of x/stablecoin parses.  `DeliverTx` is a
transaction or proposal of one or two messages, updates by any signer or messages of other
modules that pass or fail; it commits all or nothing.  That is BaseApp's, as is the rollback: of
this repository is which messages fail, and that an update stores the item.  The query's internal
error, of an item that does not decode, is in `QueryGateway` only, since here every item was
written by a genesis or an update.

### ModuleAccounts

The configuration is translated as it stands: `moduleAccPerms`, `blockAccAddrs`,
`BlockedAddresses` and the lists `InitGenesis`, `BeginBlockers` and `EndBlockers`, the last
three without the modules that move no coins.  What those modules do is external; it is
modelled by the coins it moves, the permission it needs and the amount it books.  A missing
permission in a begin or end block, a refund that gov cannot pay, and a gentx before its
parameters halt the chain; the vouchers that x/transfer mints are left out.

### ScaffoldMerge

A file is absent, the project's own, or of the scaffold of a numbered run; `todo` is what rsync
has still to copy, in any order.  `sdk` holds the SDK version of `go.mod` and of
`configs/scaffold.env`.  `Kill` ends the script anywhere, `cut` remembers that this left half a
merge, and `Edit` is the project changing a generated file between two runs.  The greps of line
121 find the SDK in every go.mod that Ignite writes, and `go mod tidy` is assumed to leave the
version that `go get` set.

### WireFormat, WireDecoder, WireCodec, WireSyntax and WireGrammar

The generator writes the same loops into every function, so the model has them once, and one
action per generated function that is taken where that function runs (`Current` is the message
that is being decoded, `File` decides whose `skip` is called).  `pc` is the place in the loops,
`index` and `pre` are `iNdEx` and `preIndex`, `base` and `end` the slice of the innermost call,
`caller` what the outer one resumes with.  Positions count from the start of the whole buffer;
sums are taken relative to the slice, as the code takes them, and wrap at the width of an int.

| Action | Code (in `tx.pb.go`) |
|---|---|
| `BeginField`, `ReadVarint`, `RejectTag`, `KnownField`, `UnknownField` | lines 354–384 and 445–447 |
| `RejectLength`, `TakeString`, `EnterParams`, `LeaveParams`, `Accept` | lines 399–444 and 461–464 |
| `SkipBegin` … `SkipFurther` | lines 516–593 |
| `SkipReturn`, `RejectSkipped` | lines 448–457 |
| `BeginMarshal`, `WriteField`, `EndMarshal` | lines 247–343 |

A message is what its authority holds, since `Params` has no fields.  `WireGrammar` knows no
loops, calls or counters: a message is a sequence of fields, and a reader takes one whole field
after the other.  `WireSyntax` says which pieces of the buffer are fields.  A piece is given by
the positions before and at its end; a group or a message is one that can be cut into items or
fields (`Splits`), and `Items`, which says where an item may end, is recursive because a group
holds items.  The reader's `taken` is the end of the last complete field, its `read` the
authority so far, its `verdict` abstracts `pc`.

Unmarshal merges into the message it is called on; its callers pass a new one, as the model
does.  The generated `XXX_Marshal` fills a buffer by its capacity and has no caller here.

### QueryGateway

`way` is how the routes were registered: `RegisterQueryHandlerServer`, `RegisterQueryHandlerClient`
(as `module.go` does it) or `RegisterQueryHandlerFromEndpoint`, whose steps between dialling and
starting the goroutine `closer` are actions of their own.  `handler` is the place of each HTTP
handler, `rpc` its call on the connection, `replies` what was written to its client.
`ContextEnds` is a client that leaves or the timeout of its header, `ContextDone` the end of
the context of the registration, `OwnerCloses` the end of a connection that belongs to the node.
`CallDirectly` is a gRPC call past the gateway, with bytes that may not decode.  A call on the
connection ends with its answer, with the end of its context (`CallContext`), with the close of
the connection (`Lost`), or because the transport fails (`TransportFails`).

## 3. Runs and bounds

| Run | Shows | Bounds, and why they suffice |
|---|---|---|
| `export` | conservation, a fresh start, no panic of x/distribution, withdrawals that pay what was pending, and the end of the export, for two bonded validators | 2 validators and 3 delegators (each operator has its own delegation and can have the other, the third can go from one validator to the other), 4 blocks: enough for a delegation, rewards on both sides of a slash, and a jailing before the export |
| `export_one_seat` | usable records, bonded set and causes of panics with one place in the bonded set, two exports and `iter.Close` failing | 3 blocks spread over three chains: unbonded validators, an export of an imported chain; allow lists of both validators, of an address that parses and is neither's, and of one that does not parse |
| `testnet_files` | one network after any earlier run | 2 runs of 1 or 2 nodes, so that a rerun may be larger or smaller, over every part of the files that a removal may leave; stakes that parse or not, are negative, or exceed the balance |
| `in_place` | the next block exists, exits leave nothing | 2 operators, 3 keys, 2 blocks, 2 commands: a validator in every state, the command over its own result, a reused operator or key |
| `single_node` | only interruptions break a home | 3 runs: bootstrap, damage, repair |
| `accounts` | modules hold what they booked; what halts a chain | genesis and 3 blocks, 3 coins and the provisions, 2 proposals: fees allocated in the block after, slashes of both pools, one proposal spending what another deposited |
| `scaffold` | a completed run is whole, edits are kept | 3 runs, 3 generated and 2 own files: a run cut short, an edit, a repair |
| `params` | who stores the item, why a chain panics | 2 chains of 2 transactions |
| `wire` | decoding implements the grammar, stays in the buffer and returns; encoding round-trips | all buffers of up to 3 of 16 bytes, up to 4 of 8 and up to 5 of 5 for `MsgUpdateParams`, up to 3 of 8 bytes for the others: both known fields, all wire types of an unknown one, nested groups, and the largest byte. A byte has 5 + 1 bits and an int 12, so three bytes overflow a varint and positions overflow with buffers this short; authorities of 31 and 32 bytes have lengths of one and two |
| `gateway` | one reply with a true cause, freed from a silent service by every end of a context or connection, connection released | 2 requests, each over HTTP or gRPC, each way of registration, a stored, missing or undecodable item; two requests share nothing but the connection, so a third adds no case |

Two runs show a disagreement between the code and what it says of itself, each with its trace:

* `testnet_stakes`: an entry that is no integer does not default, it shifts the entries after it.
* `in_place_default`: without `--accounts-to-fund` the command exits, since splitting an empty
  string gives one empty address.

Five more differences were met that need no trace.  The comment in `export.go:205` says
validators are visited by power, while the iterator goes by address; the effect is the same.
The help in `testnet_multi_node.go:139` shows peers on 46656, while they are announced on
26656 − 3*i*.  The comment in `app_config.go:96` lets gov alone receive coins, while the accounts
of transfer and interchainaccounts are not blocked either.  `scaffold-chain.sh` looks for the
scaffold in `$TMP_PARENT/$CHAIN_NAME` although its help offers `SCAFFOLD_REL_PATH`, where Ignite
then writes.  Outside `/workspace`, `reset-local.sh` does not touch the home that the start script
uses, and says it removed it.

Deadlock is not checked: all bounds stop a behaviour, and a chain that panicked, a node that
runs, or a finished command stops on its own.

## 4. Properties

Each module has one type invariant.  The others, by module:

* **ZeroHeightExport.**  `RewardsAccounted`: what was received equals what was paid, pooled and
  is outstanding, at every point of the export.  `RecordsUsable` has two parts.
  `ReferenceCounts`: in a running chain and in a genesis the historical records are exactly the
  referenced ones with exact counts.  `NoFutureHeights`: no record names a height the chain has
  not reached; the signing infos do after an early return, which it excepts by `skipped`.
  `NoDistributionPanic`: no call meets the condition of a panic, before or after the export.  It
  speaks of instances where `SlashesDivide`: x/distribution compares a stake that it has slashed
  step by step with one computed from shares, and with self-delegations of 2 or 6 instead of 4 in
  `export.cfg` the two round apart, since a stake has no decimals here.
  `FreshAccounting`: a zero-height genesis owes nothing and starts every delegation at zero
  with its stake.  `BondedSetKept`: the export bonds and unbonds nobody.  `PanicCause`: it panics
  exactly for the two causes in section 1.  `PaysWhatWasPending`: each withdrawal pays what the committed
  state owed that delegation alone.  `ExportEnds`.
* **TestnetFiles.**  `OneNetwork`, whose parts are `OneGenesis`, `CollectedAgree` (the comment
  "they should not differ"), `PeersListen` and `ListenersDistinct`; `CollectFailureCause`
  (collecting fails only for a stake above the balance, the remains of a larger network, or a gentx
  that a removal left when it took the key of its node); `KeysAnnounced` (peer lists and gentx files
  name the keys that lie beside them, unless a removal took those keys).
* **InPlaceTestnet.**  `OldSetRemoved`, `NextBlockPossible`, `GrantsBacked`.  The
  first two except a node killed before its first block (`lost`), and `NextBlockPossible` a
  missing signing info of the new key after the dropped error (`unsigned`): these hazards are
  real, the code has no answer to them, and the model shows that they are the only exceptions.
* **SingleNodeBootstrap.**  `FailsOnlyInterrupted`, `ExistingHomeKept`, `PricesOfThisRun`.
* **ModuleAccounts.**  `BooksBalanced`; `HaltCause`: a halted chain has passed a proposal that
  sends coins from the account of gov, where the deposits of the other proposals lie;
  `SlashedAfterAllocation`, the comment on the order of begin block.
* **ScaffoldMerge.**  `ReportsTrue`, of `RefusesWholeScaffold` and `DoneMeansThisRun`, and
  `EditsKept`.  A refusal excepts
  a merge that was cut short (`cut`): go.mod may be there without the rest, and only `--force`
  repairs that.
* **StablecoinParams.**  `StoredByGenesisOrAuthority`, `PanicCause`.
* **WireDecoder, WireCodec.**  `InBounds`: the slice lies in the buffer, the field in the slice,
  every byte that is read too, and what is accepted was read to its end.  `RoundTrip`: a message
  read from any bytes, canonical or not, is encoded in exactly the size computed for it and
  decodes to itself.  `ImplementsGrammar`: every step of the loops is a step of `WireGrammar` or
  none; so a field is skipped whole, a field that comes twice counts once, a message cut short is
  refused, and nothing else is.  `Terminates`.
* **QueryGateway.**  `OneReplyWithCause`; `EveryRequestAnswered`: a request is answered unless it
  waits for ever for a service that is silent (`Unanswered`), and it does not once its context or
  the connection ends; `ConnectionReleased`.

## 5. Fairness

The export and the codec are sequential functions that run on once they have begun, so there is
weak fairness of their own steps: of the export's in `ZeroHeightExport`, of every step in
`WireCodec`, where nothing else happens.  `ZeroHeightExport` spells weak fairness out: infinitely
often the export is not running, or infinitely often it takes a step.  A step of it is enabled
exactly while it runs.  In `QueryGateway` Go runs every goroutine on, so each handler, the
registration and the closing goroutine are weakly fair; the service is not, for a connection may
lead to one that never answers.  The gateway sets no deadline of its own: then a request waits for
its client to leave, its header's timeout or the close of the connection.  No block, failure, kill, end of a context or close by an
owner is forced.  The other modules state no liveness and assume no fairness.

## 6. Proofs

Each theorem holds for every value of the constants that its module's assumptions admit.  The
method is the same throughout: an invariant that is inductive, checked with TLC on an instance
first, and one lemma per action.

**`ZeroHeightExportProofs`**, for any number of validators and delegators, any `Unit`, amounts
and bounds, and whether closing the iterator may fail (`UnitAssumption`, `SizesAssumption`):

* `TypeCorrect` (`TypeOK`) and `RewardsConserved` (`RewardsAccounted`).  The equation is not
  inductive without the types: that amounts stay integers depends on the shape of the historical
  and starting maps, through the reward calculation.  `Sound(r)` joins both for one validator's
  record, and one lemma per operation of `DistributionF1` shows it keeps `Sound`: payments split
  an amount into coins and remainder (`PayOutSound`), a period of a validator without tokens
  moves its rewards to the pool (`PeriodSound`), and `AfterValidatorCreated` keeps the equation
  only after the donation (`DonatedSound`).
* `BondsSurvive` (`BondedSetKept`) and `PanicsExplained` (`PanicCause`).  `BondInv` says which
  validators are in the power store, jailed and bonded, phase by phase.  That the update of the
  export finds the set the last block left is an argument about ranks: whoever is visited is
  determined by those before, so a set of validators with a difference would have a minimal one
  (`MinimalSubset`).
* `AccountingFresh` (`FreshAccounting`), `CountsExact` and `HeightsReached`, together
  `RecordsStayUsable` (`RecordsUsable`).  `LedgerInv` says that a validator's shares add up to
  its total, with a running sum over the delegators as witness, so that stakes and new shares are
  in range.  `RecInv` says which delegations have a starting info and that the reference counts
  are exact: `Tracks` for a running chain, whose records point at each other; between the deletion
  and the end of the delegations' loop nothing of the sort holds of the records not yet visited,
  and `Renewed` says what holds of the others.  `HeightInv` bounds the heights.  The conjunction
  of these parts is `ExportIInv`.
* `ExportAdvances`: while the export runs no block and no import does, and each of its steps
  makes the natural number `ExportStepsLeft` smaller (the loops left, then what is left to visit
  in this one).  This is what `ExportEnds` says but for fairness.
* `NoPanicWhenSlashesDivide` (`NoDistributionPanic`) and `PendingIsPaid` (`PaysWhatWasPending`),
  where `SlashesDivide` holds: a self-delegation can be halved evenly as often as one validator
  can be slashed in `MaxBlocks` blocks.  Both configurations satisfy it.  Without it
  `NoDistributionPanic` can fail in the model (section 4); with it no operation rounds a stake, so
  what is proved is that nothing but rounding can bring a stake above the current one, or what is
  due above what is there.
  - `GrainInv`: every stake of a validator, and its tokens, are whole numbers of a unit that the
    slashes left to it (`SlashesLeft`) still halve evenly, and all shares are worth the same
    (`Grained`).  A delegation adds whole units, who leaves takes only his own along, and a slash
    halves the unit (`GrainJoin`, `GrainLeave`, `GrainSlash`).
  - `SolvInv` says that the records are `Solvent`: each delegation's walk over the slash events
    ends in its current stake, and the dues of all of them together, for the closed
    periods and for the open one, are within what is outstanding beyond the commission.  The sum
    has a witness, one bound per delegator (`Covered`).  Closing a period adds to each due its
    stake's part of a gain that the tokens cover (`Gains`); a slash takes a part of the stake
    and nothing of what was earned before it; a settlement pays exactly what is due and leaves the
    dues of the others (`Pays`).  In the export it holds until the records are cleared, and
    between that and the end of the loop of the delegations for those that are back.
  - `PendInv`: a withdrawal still to come would pay now (`Claim`) what `committed.pending` says.
    A withdrawal closes a period of its validator, which moves what the others earn from the open
    period into a closed one and leaves their sum (`WithdrawClaims`).

  The walk over the slash events is a recursive function on the periods (`RewardWalk`).  That it
  has values, and the same ones in records that differ where it does not look, is shown period by
  period (`NoSmallest`).  The conjunction of the three with `ExportIInv` is `SolventIInv`.

**`TestnetFilesProofs`**, for any number of nodes and runs and any stakes and ports:
`FilesTypes` (`TypeOK`), `CollectFailuresExplained` (`CollectFailureCause`), `KeysAreKept`
(`KeysAnnounced`), and `GenesisIsOne`, which is `OneNetwork` but for the listeners.
`Named` and `Signed` hold of what outlives the runs, whatever part of it a removal leaves: a key is
that of the node that has it, a gentx was signed by a node with an account of some run or is an
`Orphan`, of a key that was removed.  `Making`, `AllMade`, `Writing`,
`Copying`, `Collecting` and `Finished` say for each phase how far the running command has come;
`Has` ties the two: where a node of this run has filed its gentx no other under its key is left, so
that an older one that makes the collection fail is of a node this run does not have or of a key
that a removal took.
`NetworkIsOne` proves all of `OneNetwork` for up to 3887 nodes, and no more is true: most
ports go down in steps of 1 to 3 from 9090, 1317, 26656 and so on, and the gRPC server of one more node
would have the port of the API of the second, 1316.  The copies are pairs of a source and a destination
counted by one number, which needs a few lemmas about quotients (`PairOfCounter`, `CounterOfPair`).

**`InPlaceTestnetProofs`**, for any operators, keys, blocks and commands and finitely many
accounts: `InPlaceTypes`, `OldSetIsRemoved` (`OldSetRemoved`) and `BlocksGoOn`
(`NextBlockPossible`).  Two chains make their next block for different reasons: the old one
because its indexes name validators it has and its voters are the last validators (`Resolved`,
`Votes`), which every block preserves (`CommitKeepsOldChain`); the new one because there is but
one validator, under every index (`Sole`), and a block cannot remove the last one.  `lost` enters
only where a restart changes the stores, and `unsigned` only where the signing info is set: the new
key is the one voter that may lack it (`Signed`).  `GrantsAreBacked` (`GrantsBacked`): minting and sending
keep the supply the sum of the balances.  The sum is a fold over the accounts, which cannot be
unfolded by induction; the lemmas take it for a function on the subsets of `Accounts` that adds
one account at a time, and the smallest subset on which two such functions differ does not exist
(`SumsAgree`, `SumsExist`).

**`SingleNodeBootstrapProofs`**, for any prices and number of runs: `FailureExplained`
(`FailsOnlyInterrupted`), `PricesApplied` (`PricesOfThisRun`) and `ExistingHomeSafe`
(`ExistingHomeKept`).  Whether a command fails depends on what the commands before it left, so
`Progress` says what each finds in a home without interruption; of an interrupted one nothing but
the types is known, and only a complete removal ends that.  `ExistingHomeKept` needs no
`Progress`: it holds for damaged homes too.

**`ModuleAccountsProofs`**, for any number of proposals, coins and blocks, of which there is at
least one: `PoolsAccountedFor` (`BooksBalanced`) is inductive once amounts are integers
(`Integral`).  Three lemmas carry the steps: a move between other accounts (`AroundPools`) or of
one pool together with its book (`IntoPool`, `OutOfPool`) keeps it, and `Named` says that every
account the equations are about is blocked, so that sends, proposals and packets are of the first
kind.  `SlashingAfterAllocation` (`SlashedAfterAllocation`): `OrderInv` places the step of begin
block in its list, and says that the fee pool is empty once distribution had its turn.
`HaltsExplained` (`HaltCause`): until a proposal takes coins out of gov's account the deposits of
all proposals lie in it side by side, so every refund can be paid, and the lists grant every
permission that is asked for.  `CoinsBounded` (`TypeOK`): a balance is bounded because the total
of all accounts is, by the coins of the genesis and one provision per block.

**`StablecoinProofs`** is about both modules of x/stablecoin.  `ParamsTypes` (`ParamsTypeOK`),
`ItemOrigin` (`StoredByGenesisOrAuthority`) and `PanicExplained` (`PanicCause`), for all modules,
signers and authorities: a panic is explained by the item's absence, which is explained by its
origin, so the two need each other and the types.  `GatewayTypes` (`TypeOK`) and
`RepliesJustified` (`OneReplyWithCause`), for any set of requests: the result that a handler holds
has a cause; causes last (`CauseKept`: contexts stay ended, closed connections closed), and so the
reply has it too.

**`ScaffoldMergeProofs`**, for any files, versions and number of runs: `ReportsAreTrue`
(`ReportsTrue`) and `EditsAreKept` (`EditsKept`).  `Merging` follows the copies; `ModStandsForAll`
says that a go.mod in chain/ stands for all generated files outside a merge unless one was cut
short; `ForcedOrFirst` that a run which reaches the copying was forced or found no scaffold.

**`WireCodecProofs`**, for integers and bytes of any width (`WidthsAssumption`), buffers of any
contents (`InputsAssumption`) and any authorities.  A byte carries so many bits of a number that
both tags take one (`GroupAssumption`), and neither buffers nor authorities fill half of what an
int counts (`SizesAssumption`: no slice of a program does).

* `CodecInBounds` (`InBounds`) and `CodecTypes` (`CodecTypeOK`).  Neither is inductive.
  `Positions` adds that a skip has not gone back behind its beginning when it reads on, and is
  less than an int ahead of it, so that the sum of two lengths is either right or negative
  (`SumOrNegative`).  That is why the tests for a negative sum suffice, and why the caller of
  `skip` ends up where `skip` did (`SkippedIsTrue`).
* `CodecImplementsGrammar` (`ImplementsGrammar`): every step of the loops is a step of
  `WireGrammar` or none.  `Progress` says what the bytes already read are, and which ends the
  field that began at `pre` can have, given what is left to read: a varint in the middle of which
  the loop is, the contents of an unknown field from the tag on, so many open groups.  `Nested`
  says the same of the call that waits for the one of `Params`.  The loops are lemmas of their
  own (a varint ends at the first byte without continuation bit and not beyond the width), and
  each decoder step keeps the set of possible ends, takes the only one, or shows it empty
  (`Same`, `Takes`, `Refuses`).  `Weight`, `Sums` and `Items` are recursive functions; that they
  satisfy their equations is shown first, from their being defined on an interval
  (`PrimitiveRecursion`), and inductions over positions are arguments about the least
  counterexample (`NoSmallest`).
* `CodecRoundTrip` (`RoundTrip`).  Dividing by the weight of a group as often as `sov` counts
  leaves less than one group (`SovIsGroups`), so the bytes that are written for a number are read back
  as it (`ReadBack`), and the computed size is that of the encoding (`SizeIs`).  The buffer is
  filled from behind: `Encoder` says which fields are in their final place at each step
  (`Unwritten`, `ParamsDone`, `AllDone`).  At the position where a written field begins the
  grammar has no other field (`KnownFieldUnique`, `EncodedString`, `EncodedParams`); with
  `ImplementsGrammar` the decoder can therefore stop nowhere else and refuses nothing (`Resent`).
* `DecoderReturns` and `CodecReturns`: every step of the decoder makes the natural number
  `StepsLeft` smaller, which for a buffer of *n* bytes begins at 6*n*² + 15*n* + 7
  (`FirstSteps`), and every step of the codec does that or makes `CallsLeft` smaller.  A complete
  field moves its start ahead by at least its tag (`Consumed`), which counts more than anything
  within a field; there an unknown field goes back to its tag once, and a group counts what is
  left behind it.  This is what `Terminates` says but for fairness.

*Only model-checked:*

* the liveness properties `ExportEnds`, `Terminates`, `EveryRequestAnswered` and
  `ConnectionReleased`: fairness and `ENABLED` are beyond the prover;
* what x/distribution does where a slash rounds a stake: the bound that a payment is clamped to
  is then needed, and `RewardsConserved`, which is proved without `SlashesDivide`, uses only the
  clamp.

## 7. Plan

1. *Prove more:* progress of the gateway's requests, as of the export; a bound on how far a
   rounded stake can exceed the current one, in place of `SlashesDivide`.
2. *Abstract specifications:* the generator as one atomic step that writes a network or leaves
   failure behind, and the export as one step from a committed state to a genesis, each
   refined by its detailed module.
3. *More of the system:* a mux with the routes of more than one registration; the vouchers of
   x/transfer in `ModuleAccounts`, with its permissions to mint and burn; the height that the
   export command loads; the devnet script once it shares a genesis.

## 8. Not modelled

The dependency injection, the command tree and default configurations keep no state.  Simulation
code and the OpenAPI page have no behaviour of their own, and neither have the descriptors and
accessors of the generated files.  The indexer, API and
web clients are a README each.  The mint, compliance and fee modules exist in the documents
only.  `start-devnet.sh` leaves its shared genesis to do.
Within the modelled parts, telemetry, logging, monikers, file permissions and the wording of
errors are left out, and so is the listener of the profiler, whose address the generator does not
set; the SDK's calls are modelled only as far as this code depends on them.
