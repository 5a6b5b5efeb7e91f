--------------------------- MODULE ZeroHeightExport ---------------------------
(***************************************************************************)
(* Genesis export of a running chain: ExportAppStateAndValidators and      *)
(* prepForZeroHeightGenesis (src/chain/app/export.go), the blocks that lead*)
(* to the exported state, and the chain that starts from the export.       *)
(*                                                                         *)
(* Validators are numbered by operator address, delegators by account      *)
(* address, so the integer order is the store order of both.  A block      *)
(* (actions Block...) carries one staking or distribution operation of the *)
(* Cosmos SDK and ends with the validator-set update of its EndBlocker;    *)
(* blocks are EXTERNAL and produce the states an export can meet.  The     *)
(* export itself is one action per loop iteration or straight-line stretch *)
(* of export.go, in its order; it works on the check-state context, whose  *)
(* writes only reach the exported genesis, so it runs in the process that  *)
(* exports and the chain continues from the genesis (Import).              *)
(***************************************************************************)
EXTENDS DistributionF1

CONSTANTS
  NumValidators,        \* validators 1 .. NumValidators
  NumDelegators,        \* delegators 1 .. NumDelegators
  Strangers,            \* addresses that parse, but not as a validator spells its own
  SelfStake,            \* tokens and shares of a genesis self-delegation
  Reward,               \* sub-units a reward block allocates
  MaxValidators,        \* size of the bonded set
  MaxBlocks,            \* bound: blocks produced in a behaviour
  MaxExports,           \* bound: exports in a behaviour
  CloseMayFail          \* whether closing the store iterator may fail

Validators == 1 .. NumValidators
Delegators == 1 .. NumDelegators

ASSUME SizesAssumption ==
  /\ NumValidators \in Nat \ {0}
  /\ NumDelegators \in Nat /\ NumDelegators >= NumValidators
  /\ Strangers \cap (0 .. NumValidators) = {}
  /\ SelfStake \in Nat \ {0}
  /\ Reward \in Nat
  /\ MaxValidators \in Nat \ {0}
  /\ MaxBlocks \in Nat /\ MaxExports \in Nat
  /\ CloseMayFail \in BOOLEAN

(* An address of the allow list that the validator address codec rejects.  *)
BadAddress == 0

(* What an allow list may hold.                                            *)
Addresses == Validators \cup {BadAddress} \cup Strangers

VARIABLES
  phase,        \* "chain", a phase of the export, "done" or "panicked"
  todo,         \* what the current loop of the export still has to visit
  allowed,      \* jailAllowedAddrs of the running export
  height,       \* LastBlockHeight of the chain
  ctxHeight,    \* block height of the export's context
  exportHeight, \* Height of the exported app, when phase = "done"
  skipped,      \* some export returned early: iter.Close failed
  val,          \* validator -> [tokens, total, jailed, bonded, unbondingHeight]
  shares,       \* validator -> delegator -> delegation shares, 0 for none
  powerIndex,   \* validators in the power store
  entries,      \* set of [kind, delegator, validator, creation]
  signing,      \* validator -> StartHeight of its signing info
  dist,         \* validator -> its records of DistributionF1
  committed,    \* the last committed state an export started from
  blocks,       \* blocks produced so far
  exports       \* exports started so far

staking == <<val, shares, powerIndex, entries>>
counters == <<height, blocks, exports>>
control == <<allowed, exportHeight, skipped, committed>>
vars == <<phase, todo, control, counters, ctxHeight, staking, signing, dist>>

Delegations == {x \in Delegators \X Validators : shares[x[2]][x[1]] > 0}

(* TokensFromShares; its divisor stays positive, operators never leave.    *)
Stake(v, d) == Quo(shares[v][d] * val[v].tokens, val[v].total)

(* SharesFromTokens of a new delegation.                                   *)
SharesFor(v) == Quo(SelfStake * val[v].total, val[v].tokens)

(***************************************************************************)
(* The validator set                                                       *)
(***************************************************************************)

(* Power store order: more tokens first, then the smaller address.         *)
Outranks(vs, v, w) ==
  vs[v].tokens > vs[w].tokens \/ (vs[v].tokens = vs[w].tokens /\ v < w)

(* The validators the update visits: the first MaxValidators of the power  *)
(* store, up to the first without power.                                   *)
Visited(vs, index) ==
  {v \in index : /\ Cardinality({w \in index : Outranks(vs, w, v)}) < MaxValidators
                 /\ \A w \in index : Outranks(vs, w, v) => vs[w].tokens > 0}

(* ApplyAndReturnValidatorSetUpdates stops on a jailed validator           *)
UpdateFails(vs, index) == \E v \in Visited(vs, index) : vs[v].jailed

BondedAfter(vs, index) == {v \in Visited(vs, index) : vs[v].tokens > 0}

(* ... and otherwise moves validators in and out of the bonded set.        *)
UpdateValidators(vs, index, h) ==
  [v \in Validators |->
     LET in == v \in BondedAfter(vs, index) IN
     [vs[v] EXCEPT !.bonded = in,
                   !.unbondingHeight = IF vs[v].bonded /\ ~in THEN h ELSE @]]

(* AfterValidatorBonded restarts the signing info.                         *)
UpdateSigning(vs, index, h) ==
  [v \in Validators |->
     IF v \in BondedAfter(vs, index) /\ ~vs[v].bonded THEN h ELSE signing[v]]

(***************************************************************************)
(* Genesis and blocks                                                      *)
(***************************************************************************)

(* Delegator v is the operator of validator v and delegates to it.         *)
GenesisRecord(v) ==
  LET empty == [current |-> 0, period |-> 0, historical |-> [p \in {} |-> 0],
                starting |-> [d \in {} |-> 0], outstanding |-> 0, commission |-> 0,
                slashes |-> {}, pool |-> 0, paid |-> 0, received |-> 0, panics |-> 0]
  IN  InitializeDelegation(IncrementValidatorPeriod(InitializeValidator(empty), SelfStake),
                           v, SelfStake, 0)

Init ==
  /\ phase = "chain" /\ todo = {} /\ allowed = {}
  /\ height = 0 /\ ctxHeight = 0 /\ exportHeight = 0 /\ skipped = FALSE
  /\ val = [v \in Validators |->
              [tokens |-> SelfStake, total |-> SelfStake, jailed |-> FALSE,
               bonded |-> v <= MaxValidators, unbondingHeight |-> 0]]
  /\ shares = [v \in Validators |-> [d \in Delegators |-> IF d = v THEN SelfStake ELSE 0]]
  /\ powerIndex = Validators
  /\ entries = {}
  /\ signing = [v \in Validators |-> 0]
  /\ dist = [v \in Validators |-> GenesisRecord(v)]
  /\ committed = [bonded |-> {}, pending |-> <<>>]
  /\ blocks = 0 /\ exports = 0

(* Execute one operation, run the EndBlocker and commit.                   *)
CommitBlock(vs, index) ==
  /\ phase = "chain" /\ blocks < MaxBlocks
  /\ ~UpdateFails(vs, index)
  /\ height' = height + 1 /\ blocks' = blocks + 1
  /\ powerIndex' = index
  /\ val' = UpdateValidators(vs, index, height + 1)
  /\ signing' = UpdateSigning(vs, index, height + 1)
  /\ UNCHANGED <<phase, todo, control, ctxHeight, exports>>

BlockReward(v) ==
  /\ val[v].bonded
  /\ dist' = [dist EXCEPT ![v] = AllocateTokensToValidator(@, Reward)]
  /\ UNCHANGED <<shares, entries>>
  /\ CommitBlock(val, powerIndex)

(* The hooks around a first delegation: BeforeDelegationCreated before the *)
(* tokens move, AfterDelegationModified after.                             *)
AddDelegation(d, v) ==
  /\ shares[v][d] = 0 /\ val[v].tokens > 0
  /\ dist' = [dist EXCEPT ![v] =
       InitializeDelegation(IncrementValidatorPeriod(@, val[v].tokens), d, SelfStake, height + 1)]
  /\ shares' = [shares EXCEPT ![v][d] = SharesFor(v)]

Joined(v) ==
  [val EXCEPT ![v].tokens = @ + SelfStake,
              ![v].total  = @ + SharesFor(v)]

Left(vs, d, v) ==
  [vs EXCEPT ![v].tokens = @ - Stake(v, d), ![v].total = @ - shares[v][d]]

BlockDelegate(d, v) ==
  /\ AddDelegation(d, v)
  /\ UNCHANGED entries
  /\ CommitBlock(Joined(v), powerIndex)

(* Undelegate everything; an operator keeps its self-delegation.  The hook *)
(* that withdraws the rewards fails without a starting info.               *)
Leaves(d, v) == d # v /\ shares[v][d] > 0 /\ d \in DOMAIN dist[v].starting

BlockUndelegate(d, v) ==
  /\ Leaves(d, v)
  /\ dist' = [dist EXCEPT ![v] =
       SettleDelegation(@, d, val[v].tokens, Stake(v, d), height + 1)]
  /\ shares' = [shares EXCEPT ![v][d] = 0]
  /\ entries' = entries \cup {[kind |-> "unbonding", delegator |-> d, validator |-> v,
                               creation |-> height + 1]}
  /\ CommitBlock(Left(val, d, v), powerIndex)

BlockRedelegate(d, v, w) ==
  /\ Leaves(d, v)
  /\ shares[w][d] = 0 /\ val[w].tokens = val[w].total /\ Stake(v, d) = SelfStake
  /\ dist' = [dist EXCEPT
       ![v] = SettleDelegation(@, d, val[v].tokens, Stake(v, d), height + 1),
       ![w] = InitializeDelegation(IncrementValidatorPeriod(@, val[w].tokens), d,
                                   SelfStake, height + 1)]
  /\ shares' = [shares EXCEPT ![v][d] = 0, ![w][d] = SelfStake]
  /\ entries' = entries \cup {[kind |-> "redelegation", delegator |-> d, validator |-> v,
                               creation |-> height + 1]}
  /\ CommitBlock(Left(Joined(w), d, v), powerIndex)

(* Slash and jail a bonded validator: jailing leaves the power store.      *)
BlockSlash(v, keep) ==
  /\ val[v].bonded /\ val[v].tokens > 0
  /\ dist' = [dist EXCEPT ![v] = RecordSlash(@, val[v].tokens, height + 1, keep)]
  /\ UNCHANGED <<shares, entries>>
  /\ CommitBlock([val EXCEPT ![v].tokens = (@ * keep) \div 2, ![v].jailed = TRUE],
                 powerIndex \ {v})

BlockUnjail(v) ==
  /\ val[v].jailed /\ val[v].tokens > 0
  /\ UNCHANGED <<shares, entries, dist>>
  /\ CommitBlock([val EXCEPT ![v].jailed = FALSE], powerIndex \cup {v})

Block ==
  \/ \E v \in Validators : BlockReward(v) \/ BlockUnjail(v)
  \/ \E v \in Validators, keep \in {0, 1} : BlockSlash(v, keep)
  \/ \E v \in Validators, d \in Delegators : BlockDelegate(d, v) \/ BlockUndelegate(d, v)
  \/ \E v, w \in Validators, d \in Delegators : BlockRedelegate(d, v, w)

(***************************************************************************)
(* The export                                                              *)
(***************************************************************************)

(* What a delegation could withdraw from the committed state on its own.   *)
Pending(d, v) ==
  SettleDelegation(dist[v], d, val[v].tokens, Stake(v, d), height).paid - dist[v].paid

Snapshot ==
  [bonded  |-> {v \in Validators : val[v].bonded},
   pending |-> [x \in Delegations |-> Pending(x[1], x[2])]]

(* ExportAppStateAndValidators without forZeroHeight writes the state as it*)
(* is, for a chain that goes on at the next height.                        *)
ExportAtHeight ==
  /\ phase = "chain" /\ exports < MaxExports
  /\ phase' = "done" /\ exportHeight' = height + 1 /\ exports' = exports + 1
  /\ ctxHeight' = height
  /\ committed' = Snapshot
  /\ UNCHANGED <<todo, allowed, skipped, height, blocks, staking, signing, dist>>

(* prepForZeroHeightGenesis parses the allow list before it writes.        *)
BeginZeroHeight(addrs) ==
  /\ phase = "chain" /\ exports < MaxExports
  /\ allowed' = addrs /\ exports' = exports + 1
  /\ ctxHeight' = height
  /\ exportHeight' = 0
  /\ committed' = Snapshot
  /\ IF BadAddress \in addrs
       THEN phase' = "panicked" /\ todo' = {}
       ELSE phase' = "commission" /\ todo' = Validators
  /\ UNCHANGED <<skipped, height, blocks, staking, signing, dist>>

(* Store order: validators by address, delegations by delegator and then   *)
(* validator.                                                              *)
LowestAddress(v, S) == \A w \in S : v <= w
HighestAddress(v, S) == \A w \in S : w <= v
FirstInStore(x, S) ==
  \A y \in S : x[1] < y[1] \/ (x[1] = y[1] /\ x[2] <= y[2])

WithdrawCommission ==
  /\ phase = "commission"
  /\ \E v \in todo :
       /\ LowestAddress(v, todo)
       /\ dist' = [dist EXCEPT ![v] = WithdrawValidatorCommission(@)]
       /\ todo' = todo \ {v}
  /\ UNCHANGED <<phase, control, counters, ctxHeight, staking, signing>>

(* Read the delegations; the records of the validators stay as they are.   *)
ListDelegationsWith(records) ==
  /\ phase = "commission" /\ todo = {}
  /\ phase' = "rewards" /\ todo' = Delegations
  /\ dist' = records
  /\ UNCHANGED <<control, counters, ctxHeight, staking, signing>>

(* Mutant: slash events are cleared before the rewards are withdrawn.      *)
ListDelegationsWithoutSlashes ==
  ListDelegationsWith([v \in Validators |-> [dist[v] EXCEPT !.slashes = {}]])

ListDelegations == ListDelegationsWith(dist)

WithdrawRewards ==
  /\ phase = "rewards"
  /\ \E d \in Delegators, v \in Validators :
       /\ <<d, v>> \in todo /\ FirstInStore(<<d, v>>, todo)
       /\ dist' = [dist EXCEPT ![v] =
            WithdrawDelegationRewards(@, d, val[v].tokens, Stake(v, d), ctxHeight)]
       /\ todo' = todo \ {<<d, v>>}
  /\ UNCHANGED <<phase, control, counters, ctxHeight, staking, signing>>

(* Mutant: DeleteAllValidatorSlashEvents is forgotten.                     *)
ClearedOfHistoryOnly(r) == [r EXCEPT !.historical = [p \in {} |-> 0]]

(* No slash event and no historical record is left.                        *)
Cleared(r) == [r EXCEPT !.slashes = {}, !.historical = [p \in {} |-> 0]]

(* Clear the records and give the context the height h.                    *)
ClearRecordsTo(h) ==
  /\ phase = "rewards" /\ todo = {}
  /\ dist' = [v \in Validators |-> Cleared(dist[v])]
  /\ ctxHeight' = h
  /\ phase' = "validators" /\ todo' = Validators
  /\ UNCHANGED <<control, counters, staking, signing>>

(* Mutants: the context keeps its height, or goes back by one block.       *)
ClearRecordsAtHeight == ClearRecordsTo(height)
ClearRecordsOneBack == ClearRecordsTo(ctxHeight - 1)

ClearRecords == ClearRecordsTo(0)

(* Mutants: nothing is donated; the hook is not called.                    *)
HookOnly(r) == InitializeValidator(r)
DonatedOnly(r) == DonateOutstanding(r)

(* Donate what nobody withdrew to the community pool, then the hook        *)
(* AfterValidatorCreated.                                                  *)
Reinitialized(r) == InitializeValidator(DonateOutstanding(r))

ReinitializeValidator ==
  /\ phase = "validators"
  /\ \E v \in todo :
       /\ LowestAddress(v, todo)
       /\ dist' = [dist EXCEPT ![v] = Reinitialized(@)]
       /\ todo' = todo \ {v}
  /\ UNCHANGED <<phase, control, counters, ctxHeight, staking, signing>>

(* Mutant: the validators are gone through again.                          *)
BeginValidatorsAgain ==
  /\ phase = "validators" /\ todo = {}
  /\ todo' = Validators
  /\ UNCHANGED <<phase, control, counters, ctxHeight, staking, signing, dist>>

BeginDelegations ==
  /\ phase = "validators" /\ todo = {}
  /\ phase' = "delegations" /\ todo' = Delegations
  /\ UNCHANGED <<control, counters, ctxHeight, staking, signing, dist>>

(* BeforeDelegationCreated, then AfterDelegationModified.                  *)
ReinitializeDelegation ==
  /\ phase = "delegations"
  /\ \E d \in Delegators, v \in Validators :
       /\ <<d, v>> \in todo /\ FirstInStore(<<d, v>>, todo)
       /\ dist' = [dist EXCEPT ![v] =
            InitializeDelegation(IncrementValidatorPeriod(@, val[v].tokens),
                                 d, Stake(v, d), ctxHeight)]
       /\ todo' = todo \ {<<d, v>>}
  /\ UNCHANGED <<phase, control, counters, ctxHeight, staking, signing>>

(* Mutant: the unbonding delegations are forgotten.                        *)
OnlyRedelegationReset(e) == IF e.kind = "redelegation" THEN [e EXCEPT !.creation = 0] ELSE e

ResetEntry(e) == [e EXCEPT !.creation = 0]

(* Back to the context's height; redelegations, then unbondings.           *)
ResetEntries ==
  /\ phase = "delegations" /\ todo = {}
  /\ ctxHeight' = height
  /\ entries' = {ResetEntry(e) : e \in entries}
  /\ phase' = "jail" /\ todo' = Validators
  /\ UNCHANGED <<control, counters, val, shares, powerIndex, signing, dist>>

(* Mutants: an empty allow list excludes everybody; the unbonding height   *)
(* stays.                                                                  *)
JailedUnlessListed(v) ==
  [val[v] EXCEPT !.unbondingHeight = 0, !.jailed = @ \/ v \notin allowed]
KeptUnbondingHeight(v) ==
  [val[v] EXCEPT !.jailed = @ \/ (allowed # {} /\ v \notin allowed)]

(* A validator that is not on a non-empty allow list is jailed.            *)
Reset(v) ==
  [val[v] EXCEPT !.unbondingHeight = 0,
                 !.jailed = @ \/ (allowed # {} /\ v \notin allowed)]

(* The reverse iterator over the validators: largest address first.        *)
ResetValidator ==
  /\ phase = "jail"
  /\ \E v \in todo :
       /\ HighestAddress(v, todo)
       /\ val' = [val EXCEPT ![v] = Reset(v)]
       /\ todo' = todo \ {v}
  /\ UNCHANGED <<phase, control, counters, ctxHeight, shares, powerIndex, entries, signing, dist>>

(* Closing the iterator fails: log and return, the rest does not happen.   *)
CloseFails ==
  /\ CloseMayFail
  /\ phase = "jail" /\ todo = {}
  /\ skipped' = TRUE
  /\ phase' = "done"
  /\ UNCHANGED <<todo, allowed, exportHeight, committed, counters, ctxHeight, staking,
                 signing, dist>>

ApplyUpdates ==
  /\ phase = "jail" /\ todo = {}
  /\ IF UpdateFails(val, powerIndex)
       THEN phase' = "panicked" /\ UNCHANGED <<val, signing>>
       ELSE /\ phase' = "signing"
            /\ val' = UpdateValidators(val, powerIndex, ctxHeight)
            /\ signing' = UpdateSigning(val, powerIndex, ctxHeight)
  /\ UNCHANGED <<todo, control, counters, ctxHeight, shares, powerIndex, entries, dist>>

ResetSigning ==
  /\ phase = "signing"
  /\ signing' = [v \in Validators |-> 0]
  /\ phase' = "done"
  /\ UNCHANGED <<todo, control, counters, ctxHeight, staking, dist>>

(* A chain starts from the exported genesis: InitGenesis rebuilds the power*)
(* store from the validators that are not jailed.                          *)
Import ==
  /\ phase = "done"
  /\ phase' = "chain"
  /\ height' = IF exportHeight = 0 THEN 0 ELSE exportHeight - 1
  /\ ctxHeight' = 0 /\ exportHeight' = 0 /\ allowed' = {}
  /\ powerIndex' = {v \in Validators : ~val[v].jailed}
  /\ committed' = [bonded |-> {}, pending |-> <<>>]
  /\ UNCHANGED <<todo, skipped, blocks, exports, val, shares, entries, signing, dist>>

Export ==
  \/ WithdrawCommission \/ ListDelegations \/ WithdrawRewards
  \/ ClearRecords \/ ReinitializeValidator \/ BeginDelegations
  \/ ReinitializeDelegation \/ ResetEntries \/ ResetValidator
  \/ CloseFails \/ ApplyUpdates \/ ResetSigning

Next ==
  \/ Block
  \/ ExportAtHeight
  \/ \E addrs \in SUBSET Addresses : BeginZeroHeight(addrs)
  \/ Export
  \/ Import

Running == phase \notin {"chain", "done", "panicked"}

(* The export is one sequential function call: once begun it keeps going.  *)
(* A step of Export is enabled exactly while it runs, so this is weak      *)
(* fairness of Export.                                                     *)
ExportFairness == []<>~Running \/ []<><<Export>>_vars

Spec == Init /\ [][Next]_vars
FairSpec == Spec /\ ExportFairness

(***************************************************************************)
(* Properties                                                              *)
(***************************************************************************)

Phases == {"chain", "commission", "rewards", "validators", "delegations", "jail",
           "signing", "done", "panicked"}

RecordsOK(r) ==
  /\ r = [current |-> r.current, period |-> r.period, historical |-> r.historical,
          starting |-> r.starting, outstanding |-> r.outstanding,
          commission |-> r.commission, slashes |-> r.slashes, pool |-> r.pool,
          paid |-> r.paid, received |-> r.received, panics |-> r.panics]
  /\ r.current \in Int /\ r.period \in Int /\ r.outstanding \in Int /\ r.commission \in Int
  /\ r.pool \in Int /\ r.paid \in Int /\ r.received \in Int
  /\ r.panics \in Nat
  /\ r.historical = [p \in DOMAIN r.historical |-> r.historical[p]]
  /\ DOMAIN r.historical \subseteq Int
  /\ \A p \in DOMAIN r.historical : r.historical[p] \in [ratio : Int, refs : Nat \ {0}]
  /\ r.starting = [d \in DOMAIN r.starting |-> r.starting[d]]
  /\ DOMAIN r.starting \subseteq Delegators
  /\ \A d \in DOMAIN r.starting : r.starting[d] \in [period : Int, stake : Int, height : Nat]
  /\ r.slashes \subseteq [height : Nat, period : Int, keep : {0, 1}]

(* Every variable keeps its type.                                          *)
TypeOK ==
  /\ phase \in Phases
  /\ IF phase \in {"rewards", "delegations"}
       THEN todo \subseteq Delegators \X Validators ELSE todo \subseteq Validators
  /\ allowed \subseteq Addresses
  /\ height \in Nat /\ ctxHeight \in Nat /\ exportHeight \in Nat
  /\ blocks \in Nat /\ exports \in Nat
  /\ skipped \in BOOLEAN
  /\ val \in [Validators -> [tokens : Int, total : Int, jailed : BOOLEAN, bonded : BOOLEAN,
                             unbondingHeight : Nat]]
  /\ shares \in [Validators -> [Delegators -> Int]]
  /\ powerIndex \subseteq Validators
  /\ entries \subseteq [kind : {"unbonding", "redelegation"}, delegator : Delegators,
                        validator : Validators, creation : Nat]
  /\ signing \in [Validators -> Nat]
  /\ dist = [v \in Validators |-> dist[v]]
  /\ \A v \in Validators : RecordsOK(dist[v])

(* No reward is lost or counted twice: at every point of the export, also  *)
(* between two of its loops, what a validator ever received is what left   *)
(* the module account plus what the records still hold.  The import panics *)
(* when the module account and the records disagree.                       *)
RewardsAccounted ==
  \A v \in Validators : dist[v].received = dist[v].paid + dist[v].pool + dist[v].outstanding

(* The records that point at the historical record of period p.            *)
References(r, p) ==
  Cardinality({d \in DOMAIN r.starting : r.starting[d].period = p})
    + Cardinality({e \in r.slashes : e.period = p})
    + (IF p = r.period - 1 THEN 1 ELSE 0)

(* In a running chain and in an exported genesis the historical records    *)
(* are exactly the referenced ones, each with its exact count, so a later  *)
(* withdrawal neither reads a deleted record nor panics on a count.        *)
ReferenceCounts ==
  phase \in {"chain", "done"} =>
    \A v \in Validators : LET r == dist[v] IN
      /\ \A p \in DOMAIN r.historical : r.historical[p].refs = References(r, p)
      /\ \A d \in DOMAIN r.starting : r.starting[d].period \in DOMAIN r.historical
      /\ \A e \in r.slashes : e.period \in DOMAIN r.historical
      /\ r.period - 1 \in DOMAIN r.historical

(* No call of the export, nor of a chain that starts from it, reaches one  *)
(* of the distribution panics: no reference count leaves its range, no     *)
(* stake exceeds the current one and no amount becomes negative.  Where a  *)
(* slash rounds a stake, its slashed value may exceed the current one, so  *)
(* this is for instances whose SlashesDivide.                              *)
NoDistributionPanic ==
  \A v \in Validators : LET r == dist[v] IN
    /\ r.panics = 0
    /\ r.current >= 0 /\ r.outstanding >= 0 /\ r.commission >= 0
    /\ r.pool >= 0 /\ r.paid >= 0
    /\ val[v].tokens >= 0 /\ val[v].total > 0
    /\ \A d \in Delegators : shares[v][d] >= 0

(* Every slash halves every stake evenly.  A validator is slashed at most  *)
(* every other block: in between it has to be unjailed.                    *)
Two[n \in Nat] == IF n = 0 THEN 1 ELSE 2 * Two[n - 1]

SlashesDivide == SelfStake % Two[(MaxBlocks + 1) \div 2] = 0

(* A zero-height genesis starts the accounting afresh: nothing is owed,    *)
(* no slash event survives, and exactly the delegations of the exported    *)
(* state have a starting info, at height zero and with their stake.        *)
FreshAccounting ==
  phase = "done" /\ exportHeight = 0 =>
    \A v \in Validators : LET r == dist[v] IN
      /\ r.outstanding = 0 /\ r.commission = 0 /\ r.current = 0 /\ r.slashes = {}
      /\ DOMAIN r.starting = {d \in Delegators : shares[v][d] > 0}
      /\ \A d \in DOMAIN r.starting :
           r.starting[d].height = 0 /\ r.starting[d].stake = Stake(v, d)

(* No record of a chain names a height the chain has not reached: an old   *)
(* height left in a zero-height genesis would lie in its future.  Signing  *)
(* infos are the exception after an early return of the export.            *)
NoFutureHeights ==
  phase = "chain" =>
    /\ \A v \in Validators :
         /\ val[v].unbondingHeight <= height
         /\ skipped \/ signing[v] <= height
         /\ \A d \in DOMAIN dist[v].starting : dist[v].starting[d].height <= height
         /\ \A e \in dist[v].slashes : e.height <= height
    /\ \A e \in entries : e.creation <= height

(* The reward records of a running chain and of a genesis can be used: the *)
(* counts are exact and no record lies in the future, before and after any *)
(* sequence of exports and imports.                                        *)
RecordsUsable == ReferenceCounts /\ NoFutureHeights

(* A complete zero-height export bonds and unbonds nobody: its             *)
(* validator-set update finds the set the last EndBlocker left, and no     *)
(* unbonding height is written after the loop reset them.                  *)
BondedSetKept ==
  phase = "done" /\ exportHeight = 0 /\ ~skipped =>
    /\ {v \in Validators : val[v].bonded} = committed.bonded
    /\ \A v \in Validators : val[v].unbondingHeight = 0

(* The export panics for an address it cannot parse, or because it jails a *)
(* validator the update visits without taking it out of the power store;   *)
(* a complete export left every visited validator unjailed.                *)
Excluded == {v \in Validators : allowed # {} /\ v \notin allowed}
PanicCause ==
  /\ phase = "panicked" =>
       BadAddress \in allowed \/ Excluded \cap Visited(val, powerIndex) # {}
  /\ phase = "done" /\ exportHeight = 0 /\ ~skipped =>
       BadAddress \notin allowed /\ Excluded \cap Visited(val, powerIndex) = {}

(* Each withdrawal of the export pays what the delegation could have       *)
(* withdrawn from the committed state alone: neither the commissions paid  *)
(* before it nor the withdrawals of the other delegations change it.       *)
PaysWhatWasPending ==
  [][phase = "rewards" =>
       \A x \in todo \ todo' :
         dist'[x[2]].paid - dist[x[2]].paid = committed.pending[x]]_vars

(* Every export that begins ends, in a genesis or in a panic.              *)
ExportEnds == phase = "commission" ~> phase \in {"done", "panicked"}

=============================================================================
