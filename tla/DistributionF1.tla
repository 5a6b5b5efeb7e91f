---------------------------- MODULE DistributionF1 ----------------------------
(***************************************************************************)
(* The fee-distribution records of one validator, as the zero-height       *)
(* export (app/export.go) reads and rewrites them.  The x/distribution     *)
(* keeper lives in the Cosmos SDK, outside this repository; its operations *)
(* are modelled from the way export.go calls them and are EXTERNAL.        *)
(*                                                                         *)
(* Amounts are integers in sub-units: Unit sub-units make one coin, so a   *)
(* DecCoin is a number of sub-units and TruncateDecimal keeps the whole    *)
(* coins.  The record r of a validator has the fields                      *)
(*   current      rewards of the period that is still open                 *)
(*   period       number of the open period                                *)
(*   historical   closed period -> [ratio, refs], the reward per token up  *)
(*                to the end of that period and its reference count        *)
(*   starting     delegator -> [period, stake, height], for the delegators *)
(*                that have a starting info                                *)
(*   outstanding  rewards owed to the delegators and to the operator       *)
(*   commission   the operator's accumulated share of outstanding          *)
(*   slashes      set of [height, period, keep], the slash events; keep    *)
(*                halves of the stake survive the slash (0 or 1)          *)
(*   pool         what this validator's rewards gave to the community pool *)
(*   paid         what left the module account to the validator's          *)
(*                delegators and its operator                              *)
(*   received     what was allocated to the validator, ever                *)
(*   panics       how often a call met the condition of an SDK panic       *)
(*                (negative amount, reference count out of range, stake    *)
(*                above the current stake)                                 *)
(***************************************************************************)
EXTENDS Integers, FiniteSets, Functions

CONSTANT Unit               \* sub-units per coin

ASSUME UnitAssumption == Unit \in Nat \ {0}

(* Count a panic, if its condition holds.                                  *)
CheckFor(r, condition) == [r EXCEPT !.panics = @ + IF condition THEN 1 ELSE 0]

(* The function f with x at k, which may be new to its domain.             *)
Put(f, k, x) == [i \in DOMAIN f \cup {k} |-> IF i = k THEN x ELSE f[i]]

(* The whole coins of an amount, in sub-units (TruncateDecimal).           *)
Coins(amount) == (amount \div Unit) * Unit

(* Truncated quotient; every caller that divides by zero gets zero.        *)
Quo(a, b) == IF b > 0 THEN a \div b ELSE 0

(* A missing record is read as zero, the SDK unmarshals nothing into it.   *)
Historical(r, p) ==
  IF p \in DOMAIN r.historical THEN r.historical[p] ELSE [ratio |-> 0, refs |-> 0]

SetHistorical(r, p, record) ==
  [r EXCEPT !.historical = Put(@, p, record)]

DropHistorical(r, p) ==
  [r EXCEPT !.historical = Restrict(@, DOMAIN @ \ {p})]

(* The SDK panics when it is asked to exceed three references.             *)
IncrementReferenceCount(r, p) ==
  LET h == Historical(r, p)
  IN  CheckFor(SetHistorical(r, p, [ratio |-> h.ratio, refs |-> h.refs + 1]), h.refs > 2)

(* The SDK panics below zero and deletes the record at zero.               *)
DecrementReferenceCount(r, p) ==
  LET h == Historical(r, p)
  IN  CASE h.refs = 0 -> CheckFor(r, TRUE)
        [] h.refs = 1 -> DropHistorical(r, p)
        [] OTHER      -> SetHistorical(r, p, [ratio |-> h.ratio, refs |-> h.refs - 1])

(* Close the open period.  Rewards of a validator without tokens cannot be *)
(* shared out and go to the community pool.                                *)
IncrementValidatorPeriod(r, tokens) ==
  LET last    == Historical(r, r.period - 1).ratio
      gained  == Quo(r.current, tokens)
      orphan  == IF tokens = 0 THEN r.current ELSE 0
      settled == [DecrementReferenceCount(r, r.period - 1)
                    EXCEPT !.outstanding = @ - orphan, !.pool = @ + orphan]
  IN  [SetHistorical(settled, r.period, [ratio |-> last + gained, refs |-> 1])
         EXCEPT !.current = 0, !.period = @ + 1]

(* initializeDelegation: the delegation starts with the period just closed *)
InitializeDelegation(r, d, stake, height) ==
  LET p == r.period - 1
      s == IncrementReferenceCount(r, p)
  IN  [s EXCEPT !.starting =
         Put(@, d, [period |-> p, stake |-> stake, height |-> height])]

(* Give what nobody withdrew to the community pool (export.go does this).  *)
DonateOutstanding(r) == [r EXCEPT !.pool = @ + r.outstanding]

(* initializeValidator, called by the hook AfterValidatorCreated.          *)
InitializeValidator(r) ==
  [SetHistorical(r, 0, [ratio |-> 0, refs |-> 1])
     EXCEPT !.current = 0, !.period = 1, !.commission = 0, !.outstanding = 0]

(* Each slash event since the delegation started closes a stretch with its *)
(* own stake: period by period, what the events up to p leave of the stake *)
(* and what it has earned up to the last of them.                          *)
RewardWalk(r, d, ending, height) ==
  LET from     == r.starting[d]
      ratio(p) == Historical(r, p).ratio
      at(p)    == {e \in r.slashes : /\ e.period = p
                                     /\ from.height <= e.height /\ e.height <= height}
      Cross(acc, e) ==
        [period |-> e.period,
         stake  |-> (acc.stake * e.keep) \div 2,
         sum    |-> acc.sum + acc.stake * (ratio(e.period) - ratio(acc.period))]
      walk[p \in Int] ==
        IF p <= from.period THEN [period |-> from.period, stake |-> from.stake, sum |-> 0]
        ELSE IF at(p) = {} THEN walk[p - 1]
        ELSE Cross(walk[p - 1], CHOOSE e \in at(p) : TRUE)
      before == walk[ending]
  IN  [stake |-> before.stake,
       sum   |-> before.sum + before.stake * (ratio(ending) - ratio(before.period))]

(* CalculateDelegationRewards: nothing in the block the delegation started *)
CalculateDelegationRewards(r, d, ending, height) ==
  IF r.starting[d].height = height THEN 0 ELSE RewardWalk(r, d, ending, height).sum

StakeTooLarge(r, d, ending, stake, height) ==
  /\ r.starting[d].height # height
  /\ RewardWalk(r, d, ending, height).stake > stake

(* Pay the whole coins of an amount that was outstanding and leave the     *)
(* remainder to the community pool.                                        *)
PayOut(r, amount) ==
  [r EXCEPT !.outstanding = @ - amount,
            !.paid        = @ + Coins(amount),
            !.pool        = @ + amount - Coins(amount)]

(* withdrawDelegationRewards: close the period, pay, drop the starting     *)
(* info.                                                                   *)
SettleDelegation(r, d, tokens, stake, height) ==
  LET ending  == r.period
      open    == IncrementValidatorPeriod(r, tokens)
      raw     == CalculateDelegationRewards(open, d, ending, height)
      rewards == IF raw \in 0 .. open.outstanding THEN raw ELSE open.outstanding
      checked == CheckFor(open, StakeTooLarge(open, d, ending, stake, height))
      freed   == DecrementReferenceCount(PayOut(checked, rewards), r.starting[d].period)
  IN  [freed EXCEPT !.starting = Restrict(@, DOMAIN @ \ {d})]

(* WithdrawDelegationRewards: an error, and no effect, without a starting  *)
(* info; otherwise settle and start the delegation again.                  *)
WithdrawDelegationRewards(r, d, tokens, stake, height) ==
  IF d \notin DOMAIN r.starting THEN r
  ELSE InitializeDelegation(SettleDelegation(r, d, tokens, stake, height), d, stake, height)

(* WithdrawValidatorCommission: an error, and no effect, without any       *)
(* commission; otherwise pay whole coins and keep the remainder.           *)
WithdrawValidatorCommission(r) ==
  IF r.commission = 0 THEN r
  ELSE LET coins   == Coins(r.commission)
           checked == CheckFor(r, coins > r.outstanding)
       IN  [PayOut(checked, coins) EXCEPT !.commission = @ - coins]

(* AllocateTokensToValidator, with a commission of one fifth.              *)
AllocateTokensToValidator(r, amount) ==
  [r EXCEPT !.commission  = @ + amount \div 5,
            !.current     = @ + amount - amount \div 5,
            !.outstanding = @ + amount,
            !.received    = @ + amount]

(* BeforeValidatorSlashed: the event keeps the period it closes.           *)
RecordSlash(r, tokens, height, keep) ==
  LET s == IncrementReferenceCount(IncrementValidatorPeriod(r, tokens), r.period)
  IN  [s EXCEPT !.slashes = @ \cup {[height |-> height, period |-> r.period, keep |-> keep]}]

=============================================================================
