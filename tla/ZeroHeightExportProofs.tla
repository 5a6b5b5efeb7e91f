------------------------ MODULE ZeroHeightExportProofs ------------------------
(***************************************************************************)
(* Proofs about ZeroHeightExport, for any number of validators and         *)
(* delegators, any amounts and any bounds.                                 *)
(*                                                                         *)
(*  - Sound joins the type of one validator's records with the equation    *)
(*    that accounts for its rewards; one lemma per operation of            *)
(*    DistributionF1 shows that it keeps Sound.                            *)
(*  - BondInv says which validators are in the power store, jailed and     *)
(*    bonded, phase by phase; that the update finds the set it left is an  *)
(*    argument about ranks in a finite order (MinimalSubset).              *)
(*  - LedgerInv says that the shares of a validator add up to its total,   *)
(*    with a running sum as witness, so that stakes and new shares are     *)
(*    positive and within bounds.                                          *)
(*  - RecInv says which delegations the records hold and that the          *)
(*    reference counts are exact (Tracks for a running chain, Renewed for  *)
(*    the genesis under construction); HeightInv bounds the heights.       *)
(*                                                                         *)
(* Their conjunction ExportIInv is inductive.  ExportStepsLeft counts the  *)
(* steps that a running export has left.                                   *)
(*                                                                         *)
(* The last parts ask what the validators can pay, where SlashesDivide     *)
(* holds:                                                                  *)
(*                                                                         *)
(*  - GrainInv says that the stakes are whole numbers of a unit that the   *)
(*    slashes that are left still halve evenly, so that no operation       *)
(*    rounds a stake;                                                      *)
(*  - SolvInv says that what a validator holds for its delegators is at    *)
(*    least what all of them are due, whoever withdraws first;             *)
(*  - PendInv says that a withdrawal that is still to come will pay what   *)
(*    it would have paid on the committed state.                           *)
(*                                                                         *)
(* Their conjunction with ExportIInv is SolventIInv, inductive again.      *)
(***************************************************************************)
EXTENDS ZeroHeightExport, FiniteSetTheorems, WellFoundedInduction, TLAPS

Accounted(r) == r.received = r.paid + r.pool + r.outstanding

Sound(r) == RecordsOK(r) /\ Accounted(r)

(* Quotients and whole coins are integers whatever the divisor.            *)
LEMMA QuoInt == ASSUME NEW a \in Int, NEW b \in Int PROVE Quo(a, b) \in Int
  BY DEF Quo

LEMMA CoinsInt == ASSUME NEW a \in Int PROVE Coins(a) \in Int
  BY UnitAssumption DEF Coins

(* The shapes of the two maps of a validator's records.                    *)
Histories(h) ==
  /\ h = [p \in DOMAIN h |-> h[p]]
  /\ DOMAIN h \subseteq Int
  /\ \A p \in DOMAIN h : h[p] \in [ratio : Int, refs : Nat \ {0}]

Starts(st) ==
  /\ st = [d \in DOMAIN st |-> st[d]]
  /\ DOMAIN st \subseteq Delegators
  /\ \A d \in DOMAIN st : st[d] \in [period : Int, stake : Int, height : Nat]

LEMMA RecordsAreMaps ==
  ASSUME NEW r PROVE RecordsOK(r) => Histories(r.historical) /\ Starts(r.starting)
  BY DEF RecordsOK, Histories, Starts

LEMMA PutHistory ==
  ASSUME NEW h, Histories(h), NEW p \in Int, NEW x \in [ratio : Int, refs : Nat \ {0}]
  PROVE  Histories(Put(h, p, x))
  BY DEF Histories, Put

LEMMA PutStart ==
  ASSUME NEW st, Starts(st), NEW d \in Delegators,
         NEW x \in [period : Int, stake : Int, height : Nat]
  PROVE  Starts(Put(st, d, x))
  BY DEF Starts, Put

LEMMA RestrictMaps ==
  ASSUME NEW f, NEW S \in SUBSET DOMAIN f
  PROVE  /\ Histories(f) => Histories(Restrict(f, S))
         /\ Starts(f) => Starts(Restrict(f, S))
  BY DEF Histories, Starts, Restrict

LEMMA HistoricalType ==
  ASSUME NEW r, RecordsOK(r), NEW p
  PROVE  Historical(r, p).ratio \in Int /\ Historical(r, p).refs \in Nat
  BY DEF RecordsOK, Historical

(* Two records that agree on everything but the historical records.        *)
SameAmounts(s, r) ==
  /\ s.current = r.current /\ s.period = r.period /\ s.starting = r.starting
  /\ s.outstanding = r.outstanding /\ s.commission = r.commission /\ s.slashes = r.slashes
  /\ s.pool = r.pool /\ s.paid = r.paid /\ s.received = r.received

LEMMA SetHistoricalOK ==
  ASSUME NEW r, RecordsOK(r), NEW p \in Int, NEW x \in [ratio : Int, refs : Nat \ {0}]
  PROVE  RecordsOK(SetHistorical(r, p, x)) /\ SameAmounts(SetHistorical(r, p, x), r)
<1>1. Histories(Put(r.historical, p, x))
  BY RecordsAreMaps, PutHistory
<1>2. SetHistorical(r, p, x) = [r EXCEPT !.historical = Put(r.historical, p, x)]
  BY DEF SetHistorical, RecordsOK
<1> HIDE DEF Put
<1> QED
  BY <1>1, <1>2 DEF RecordsOK, Histories, SameAmounts

LEMMA SetHistoricalSound ==
  ASSUME NEW r, Sound(r), NEW p \in Int, NEW x \in [ratio : Int, refs : Nat \ {0}]
  PROVE  Sound(SetHistorical(r, p, x)) /\ SameAmounts(SetHistorical(r, p, x), r)
  BY SetHistoricalOK DEF Sound, Accounted, SameAmounts

LEMMA DropHistoricalSound ==
  ASSUME NEW r, Sound(r), NEW p
  PROVE  Sound(DropHistorical(r, p)) /\ SameAmounts(DropHistorical(r, p), r)
<1> DEFINE h == Restrict(r.historical, DOMAIN r.historical \ {p})
<1>1. Histories(h)
  BY RecordsAreMaps, RestrictMaps DEF Sound
<1>2. DropHistorical(r, p) = [r EXCEPT !.historical = h]
  BY DEF DropHistorical, Sound, RecordsOK
<1> HIDE DEF h
<1> QED
  BY <1>1, <1>2 DEF Sound, RecordsOK, Accounted, Histories, SameAmounts

(* A check only counts panics.                                             *)
LEMMA CheckSound ==
  ASSUME NEW r, Sound(r), NEW condition
  PROVE  Sound(CheckFor(r, condition)) /\ SameAmounts(CheckFor(r, condition), r)
<1> DEFINE k == r.panics + IF condition THEN 1 ELSE 0
<1>1. k \in Nat
  BY DEF Sound, RecordsOK
<1>2. CheckFor(r, condition) = [r EXCEPT !.panics = k]
  BY DEF CheckFor, Sound, RecordsOK
<1> HIDE DEF k
<1> QED
  BY <1>1, <1>2 DEF Sound, RecordsOK, Accounted, SameAmounts

(* A payment splits what it takes from outstanding into the coins paid and *)
(* the remainder for the community pool.                                   *)
LEMMA PayOutSound ==
  ASSUME NEW r, Sound(r), NEW amount \in Int
  PROVE  Sound(PayOut(r, amount)) /\ PayOut(r, amount).starting = r.starting
<1> DEFINE o == r.outstanding - amount
           a == r.paid + Coins(amount)
           l == r.pool + amount - Coins(amount)
           one == [r EXCEPT !.outstanding = o]
           two == [one EXCEPT !.paid = a]
           s == [two EXCEPT !.pool = l]
<1>1. Coins(amount) \in Int
  BY CoinsInt
<1>2. PayOut(r, amount) = s
  BY DEF PayOut, Sound, RecordsOK
<1>3. o \in Int /\ a \in Int /\ l \in Int /\ a + l + o = r.paid + r.pool + r.outstanding
  BY <1>1 DEF Sound, RecordsOK
<1> HIDE DEF o, a, l
<1>4. one = [current |-> r.current, period |-> r.period, historical |-> r.historical,
             starting |-> r.starting, outstanding |-> o, commission |-> r.commission,
             slashes |-> r.slashes, pool |-> r.pool, paid |-> r.paid,
             received |-> r.received, panics |-> r.panics]
  BY <1>3 DEF Sound, RecordsOK
<1> HIDE DEF one
<1>5. two = [current |-> r.current, period |-> r.period, historical |-> r.historical,
             starting |-> r.starting, outstanding |-> o, commission |-> r.commission,
             slashes |-> r.slashes, pool |-> r.pool, paid |-> a,
             received |-> r.received, panics |-> r.panics]
  BY <1>4
<1> HIDE DEF two
<1>6. s = [current |-> r.current, period |-> r.period, historical |-> r.historical,
           starting |-> r.starting, outstanding |-> o, commission |-> r.commission,
           slashes |-> r.slashes, pool |-> l, paid |-> a, received |-> r.received,
           panics |-> r.panics]
  BY <1>5
<1> HIDE DEF s
<1>7. RecordsOK(s)
  BY <1>3, <1>6 DEF Sound, RecordsOK
<1>8. Accounted(s)
  BY <1>3, <1>6 DEF Sound, RecordsOK, Accounted
<1> QED
  BY <1>2, <1>6, <1>7, <1>8 DEF Sound

(* The reference counts.                                                   *)
LEMMA IncrementSound ==
  ASSUME NEW r, Sound(r), NEW p \in Int
  PROVE  Sound(IncrementReferenceCount(r, p)) /\ SameAmounts(IncrementReferenceCount(r, p), r)
<1> DEFINE h == Historical(r, p)
           x == [ratio |-> h.ratio, refs |-> h.refs + 1]
           s == SetHistorical(r, p, x)
<1>1. h.ratio \in Int /\ h.refs \in Nat
  BY HistoricalType DEF Sound
<1>2. x \in [ratio : Int, refs : Nat \ {0}]
  BY <1>1
<1>3. Sound(s) /\ SameAmounts(s, r)
  BY <1>2, SetHistoricalSound
<1> QED
  BY <1>3, CheckSound DEF IncrementReferenceCount, SameAmounts

LEMMA DecrementSound ==
  ASSUME NEW r, Sound(r), NEW p \in Int
  PROVE  Sound(DecrementReferenceCount(r, p)) /\ SameAmounts(DecrementReferenceCount(r, p), r)
<1> DEFINE h == Historical(r, p)
<1>1. h.ratio \in Int /\ h.refs \in Nat
  BY HistoricalType DEF Sound
<1>2. CASE h.refs = 0
  <2>1. DecrementReferenceCount(r, p) = CheckFor(r, TRUE)
    BY <1>2 DEF DecrementReferenceCount
  <2>2. Sound(CheckFor(r, TRUE)) /\ SameAmounts(CheckFor(r, TRUE), r)
    BY CheckSound, Zenon
  <2> QED
    BY <2>1, <2>2
<1>3. CASE h.refs = 1
  BY <1>3, DropHistoricalSound DEF DecrementReferenceCount
<1>4. CASE h.refs \notin {0, 1}
  <2>1. [ratio |-> h.ratio, refs |-> h.refs - 1] \in [ratio : Int, refs : Nat \ {0}]
    BY <1>1, <1>4
  <2>2. DecrementReferenceCount(r, p)
          = SetHistorical(r, p, [ratio |-> h.ratio, refs |-> h.refs - 1])
    BY <1>4 DEF DecrementReferenceCount
  <2> QED
    BY <2>1, <2>2, SetHistoricalSound
<1> HIDE DEF h
<1> QED
  BY <1>2, <1>3, <1>4

(* Closing a period moves the rewards of a validator without tokens to the *)
(* community pool and changes no other amount.                             *)
LEMMA PeriodSound ==
  ASSUME NEW r, Sound(r), NEW tokens \in Int
  PROVE  LET s == IncrementValidatorPeriod(r, tokens) IN
         Sound(s) /\ s.period = r.period + 1 /\ s.starting = r.starting /\ s.paid = r.paid
<1> DEFINE dec == DecrementReferenceCount(r, r.period - 1)
           orphan == IF tokens = 0 THEN r.current ELSE 0
           settled == [dec EXCEPT !.outstanding = dec.outstanding - orphan,
                                  !.pool = dec.pool + orphan]
           x == [ratio |-> Historical(r, r.period - 1).ratio + Quo(r.current, tokens),
                 refs |-> 1]
           set == SetHistorical(settled, r.period, x)
<1>1. r.period \in Int /\ r.period - 1 \in Int /\ r.current \in Int /\ orphan \in Int
  BY DEF Sound, RecordsOK
<1>2. Sound(dec) /\ SameAmounts(dec, r)
  BY <1>1, DecrementSound
<1>3. Sound(settled) /\ settled.period = r.period /\ settled.starting = r.starting
      /\ settled.paid = r.paid
  <2> HIDE DEF dec, orphan
  <2> DEFINE owed == dec.outstanding - orphan
             pooled == dec.pool + orphan
             mid == [dec EXCEPT !.outstanding = owed]
  <2>0. settled = [mid EXCEPT !.pool = pooled]
    OBVIOUS
  <2> HIDE DEF owed, pooled
  <2>1. mid = [current |-> dec.current, period |-> dec.period,
               historical |-> dec.historical, starting |-> dec.starting,
               outstanding |-> owed, commission |-> dec.commission,
               slashes |-> dec.slashes, pool |-> dec.pool, paid |-> dec.paid,
               received |-> dec.received, panics |-> dec.panics]
    BY <1>2 DEF Sound, RecordsOK
  <2> HIDE DEF mid
  <2>2. settled = [current |-> dec.current, period |-> dec.period,
                   historical |-> dec.historical, starting |-> dec.starting,
                   outstanding |-> owed, commission |-> dec.commission,
                   slashes |-> dec.slashes, pool |-> pooled, paid |-> dec.paid,
                   received |-> dec.received, panics |-> dec.panics]
    BY <2>0, <2>1
  <2>3. owed = dec.outstanding - orphan /\ pooled = dec.pool + orphan
    BY DEF owed, pooled
  <2> HIDE DEF settled
  <2>4. RecordsOK(settled)
    BY <1>1, <1>2, <2>2, <2>3 DEF Sound, RecordsOK
  <2>5. Accounted(settled)
    BY <1>1, <1>2, <2>2, <2>3 DEF Sound, RecordsOK, Accounted
  <2> QED
    BY <1>2, <2>2, <2>4, <2>5 DEF Sound, SameAmounts
<1>4. x \in [ratio : Int, refs : Nat \ {0}]
  <2>1. Quo(r.current, tokens) \in Int
    BY <1>1, QuoInt
  <2> QED
    BY <1>1, <2>1, HistoricalType DEF Sound
<1>5. Sound(set) /\ SameAmounts(set, settled)
  <2> HIDE DEF settled, x
  <2> QED
    BY <1>1, <1>3, <1>4, SetHistoricalSound
<1>6. IncrementValidatorPeriod(r, tokens) = [set EXCEPT !.current = 0, !.period = set.period + 1]
  <2>1. settled = [dec EXCEPT !.outstanding = @ - orphan, !.pool = @ + orphan]
    BY <1>2 DEF Sound, RecordsOK
  <2> QED
    BY <2>1, <1>5 DEF IncrementValidatorPeriod, Sound, RecordsOK
<1> DEFINE new == IncrementValidatorPeriod(r, tokens)
<1> HIDE DEF set, settled
<1>7. new = [current |-> 0, period |-> set.period + 1,
             historical |-> set.historical, starting |-> set.starting,
             outstanding |-> set.outstanding, commission |-> set.commission,
             slashes |-> set.slashes, pool |-> set.pool, paid |-> set.paid,
             received |-> set.received, panics |-> set.panics]
  BY <1>5, <1>6 DEF Sound, RecordsOK
<1> HIDE DEF new
<1>8. RecordsOK(new)
  BY <1>5, <1>7 DEF Sound, RecordsOK
<1>9. Accounted(new)
  BY <1>5, <1>7 DEF Sound, Accounted
<1>10. new.period = r.period + 1 /\ new.starting = r.starting /\ new.paid = r.paid
  BY <1>3, <1>5, <1>7 DEF SameAmounts
<1> QED
  BY <1>8, <1>9, <1>10 DEF Sound, new

LEMMA StartSound ==
  ASSUME NEW r, Sound(r), NEW d \in Delegators, NEW stake \in Int, NEW h \in Nat
  PROVE  LET s == InitializeDelegation(r, d, stake, h) IN Sound(s) /\ s.paid = r.paid
<1> DEFINE s == IncrementReferenceCount(r, r.period - 1)
           x == [period |-> r.period - 1, stake |-> stake, height |-> h]
           st == Put(s.starting, d, x)
           new == InitializeDelegation(r, d, stake, h)
<1>1. r.period - 1 \in Int
  BY DEF Sound, RecordsOK
<1>2. Sound(s) /\ SameAmounts(s, r)
  BY <1>1, IncrementSound
<1>3. x \in [period : Int, stake : Int, height : Nat]
  BY <1>1
<1>4. Starts(st)
  <2> HIDE DEF s, x
  <2> QED
    BY <1>2, <1>3, PutStart, RecordsAreMaps DEF Sound
<1>5. new = [s EXCEPT !.starting = st]
  BY <1>2 DEF InitializeDelegation, Sound, RecordsOK
<1> HIDE DEF s, st, new
<1>6. RecordsOK(new) /\ Accounted(new) /\ new.paid = s.paid
  BY <1>2, <1>4, <1>5 DEF Sound, RecordsOK, Accounted, Starts
<1> QED
  BY <1>2, <1>6 DEF Sound, SameAmounts, new

(* AfterValidatorCreated forgets what is outstanding: the equation holds   *)
(* only if that had gone to the community pool before.                     *)
LEMMA ReinitializedSound ==
  ASSUME NEW r, RecordsOK(r), r.received = r.paid + r.pool
  PROVE  Sound(InitializeValidator(r))
<1> DEFINE s == SetHistorical(r, 0, [ratio |-> 0, refs |-> 1])
           new == InitializeValidator(r)
<1>1. RecordsOK(s) /\ SameAmounts(s, r)
  BY SetHistoricalOK
<1>2. new = [s EXCEPT !.current = 0, !.period = 1, !.commission = 0, !.outstanding = 0]
  BY DEF InitializeValidator
<1> HIDE DEF s, new
<1>3. new = [current |-> 0, period |-> 1, historical |-> s.historical,
             starting |-> s.starting, outstanding |-> 0, commission |-> 0,
             slashes |-> s.slashes, pool |-> s.pool, paid |-> s.paid,
             received |-> s.received, panics |-> s.panics]
  BY <1>1, <1>2 DEF RecordsOK
<1>4. RecordsOK(new)
  BY <1>1, <1>3 DEF RecordsOK
<1>5. Accounted(new)
  BY <1>1, <1>3 DEF RecordsOK, SameAmounts, Accounted
<1> QED
  BY <1>4, <1>5 DEF Sound, new

LEMMA DonatedSound ==
  ASSUME NEW r, Sound(r)
  PROVE  Sound(InitializeValidator(DonateOutstanding(r)))
<1> DEFINE pooled == r.pool + r.outstanding
           donated == [r EXCEPT !.pool = pooled]
<1>1. pooled \in Int /\ r.received = r.paid + pooled
  BY DEF Sound, RecordsOK, Accounted
<1>2. donated = DonateOutstanding(r)
  BY DEF DonateOutstanding, Sound, RecordsOK
<1> HIDE DEF pooled
<1>3. RecordsOK(donated) /\ donated.received = donated.paid + donated.pool
  BY <1>1 DEF Sound, RecordsOK
<1> HIDE DEF donated
<1> QED
  BY <1>2, <1>3, ReinitializedSound

LEMMA SettleSound ==
  ASSUME NEW r, Sound(r), NEW d \in DOMAIN r.starting,
         NEW tokens \in Int, NEW stake \in Int, NEW h \in Nat
  PROVE  Sound(SettleDelegation(r, d, tokens, stake, h))
<1> DEFINE open == IncrementValidatorPeriod(r, tokens)
           raw == CalculateDelegationRewards(open, d, r.period, h)
           rewards == IF raw \in 0 .. open.outstanding THEN raw ELSE open.outstanding
           checked == CheckFor(open, StakeTooLarge(open, d, r.period, stake, h))
           paid == PayOut(checked, rewards)
           freed == DecrementReferenceCount(paid, r.starting[d].period)
           new == SettleDelegation(r, d, tokens, stake, h)
<1>1. Sound(open) /\ open.starting = r.starting
  BY PeriodSound
<1>2. rewards \in Int
  <2> HIDE DEF open, raw
  <2> QED
    BY <1>1 DEF Sound, RecordsOK
<1>3. Sound(checked) /\ checked.starting = r.starting
  <2> HIDE DEF open
  <2> QED
    BY <1>1, CheckSound DEF SameAmounts
<1>4. Sound(paid) /\ paid.starting = r.starting
  <2> HIDE DEF checked, rewards
  <2> QED
    BY <1>2, <1>3, PayOutSound
<1>5. r.starting[d].period \in Int
  BY DEF Sound, RecordsOK
<1>6. Sound(freed) /\ freed.starting = r.starting
  <2> HIDE DEF paid
  <2> QED
    BY <1>4, <1>5, DecrementSound DEF SameAmounts
<1>7. new = [freed EXCEPT !.starting = Restrict(@, DOMAIN @ \ {d})]
  BY DEF SettleDelegation
<1> HIDE DEF freed, new
<1> DEFINE st == Restrict(freed.starting, DOMAIN freed.starting \ {d})
<1>8. Starts(st)
  BY <1>6, RestrictMaps, RecordsAreMaps DEF Sound
<1>9. new = [freed EXCEPT !.starting = st]
  BY <1>6, <1>7 DEF Sound, RecordsOK
<1> HIDE DEF st
<1> QED
  BY <1>6, <1>8, <1>9 DEF Sound, RecordsOK, Accounted, Starts, new

LEMMA WithdrawRewardsSound ==
  ASSUME NEW r, Sound(r), NEW d \in Delegators,
         NEW tokens \in Int, NEW stake \in Int, NEW h \in Nat
  PROVE  Sound(WithdrawDelegationRewards(r, d, tokens, stake, h))
  BY SettleSound, StartSound DEF WithdrawDelegationRewards

LEMMA WithdrawCommissionSound ==
  ASSUME NEW r, Sound(r)
  PROVE  Sound(WithdrawValidatorCommission(r))
<1>1. CASE r.commission = 0
  BY <1>1 DEF WithdrawValidatorCommission
<1>2. CASE r.commission # 0
  <2> DEFINE coins == Coins(r.commission)
             s == PayOut(CheckFor(r, coins > r.outstanding), coins)
  <2>1. coins \in Int
    BY CoinsInt DEF Sound, RecordsOK
  <2>2. Sound(s)
    <3> HIDE DEF coins
    <3> QED
      BY <2>1, CheckSound, PayOutSound
  <2>3. WithdrawValidatorCommission(r) = [s EXCEPT !.commission = @ - coins]
    BY <1>2 DEF WithdrawValidatorCommission
  <2> HIDE DEF s, coins
  <2> QED
    BY <2>1, <2>2, <2>3 DEF Sound, RecordsOK, Accounted
<1> QED
  BY <1>1, <1>2

LEMMA AllocateSound ==
  ASSUME NEW r, Sound(r), NEW amount \in Nat
  PROVE  Sound(AllocateTokensToValidator(r, amount))
<1> DEFINE fee == amount \div 5
           c == r.commission + fee
           u == r.current + amount - fee
           o == r.outstanding + amount
           i == r.received + amount
           one == [r EXCEPT !.commission = c]
           two == [one EXCEPT !.current = u]
           three == [two EXCEPT !.outstanding = o]
           new == [three EXCEPT !.received = i]
<1>1. AllocateTokensToValidator(r, amount) = new
  BY DEF AllocateTokensToValidator, Sound, RecordsOK
<1>2. /\ c \in Int /\ u \in Int /\ o \in Int /\ i \in Int
      /\ i = r.received + amount /\ o = r.outstanding + amount
  BY DEF Sound, RecordsOK
<1> HIDE DEF c, u, o, i
<1>3. one = [current |-> r.current, period |-> r.period, historical |-> r.historical,
             starting |-> r.starting, outstanding |-> r.outstanding, commission |-> c,
             slashes |-> r.slashes, pool |-> r.pool, paid |-> r.paid,
             received |-> r.received, panics |-> r.panics]
  BY DEF Sound, RecordsOK
<1> HIDE DEF one
<1>4. two = [current |-> u, period |-> r.period, historical |-> r.historical,
             starting |-> r.starting, outstanding |-> r.outstanding, commission |-> c,
             slashes |-> r.slashes, pool |-> r.pool, paid |-> r.paid,
             received |-> r.received, panics |-> r.panics]
  BY <1>3
<1> HIDE DEF two
<1>5. three = [current |-> u, period |-> r.period, historical |-> r.historical,
               starting |-> r.starting, outstanding |-> o, commission |-> c,
               slashes |-> r.slashes, pool |-> r.pool, paid |-> r.paid,
               received |-> r.received, panics |-> r.panics]
  BY <1>4
<1> HIDE DEF three
<1>6. new = [current |-> u, period |-> r.period, historical |-> r.historical,
             starting |-> r.starting, outstanding |-> o, commission |-> c,
             slashes |-> r.slashes, pool |-> r.pool, paid |-> r.paid, received |-> i,
             panics |-> r.panics]
  BY <1>5
<1> HIDE DEF new
<1>7. RecordsOK(new)
  BY <1>2, <1>6 DEF Sound, RecordsOK
<1>8. Accounted(new)
  BY <1>2, <1>6 DEF Sound, RecordsOK, Accounted
<1> QED
  BY <1>1, <1>7, <1>8 DEF Sound

LEMMA SlashSound ==
  ASSUME NEW r, Sound(r), NEW tokens \in Int, NEW h \in Nat, NEW keep \in {0, 1}
  PROVE  Sound(RecordSlash(r, tokens, h, keep))
<1> DEFINE open == IncrementValidatorPeriod(r, tokens)
           s == IncrementReferenceCount(open, r.period)
           e == [height |-> h, period |-> r.period, keep |-> keep]
<1>1. r.period \in Int
  BY DEF Sound, RecordsOK
<1>2. Sound(s)
  <2> HIDE DEF open
  <2> QED
    BY <1>1, PeriodSound, IncrementSound DEF open
<1>3. RecordSlash(r, tokens, h, keep) = [s EXCEPT !.slashes = s.slashes \cup {e}]
  BY <1>2 DEF RecordSlash, Sound, RecordsOK
<1>4. e \in [height : Nat, period : Int, keep : {0, 1}]
  BY <1>1
<1> DEFINE events == s.slashes \cup {e}
<1> HIDE DEF s, e
<1>5. events \subseteq [height : Nat, period : Int, keep : {0, 1}]
  BY <1>2, <1>4 DEF Sound, RecordsOK
<1> HIDE DEF events
<1>6. [s EXCEPT !.slashes = events].slashes = events
  BY <1>2 DEF Sound, RecordsOK
<1>7. Sound([s EXCEPT !.slashes = events])
  BY <1>2, <1>5, <1>6 DEF Sound, RecordsOK, Accounted
<1> QED
  BY <1>3, <1>7 DEF events

LEMMA ClearedSound ==
  ASSUME NEW r, Sound(r)
  PROVE  Sound(Cleared(r))
<1> DEFINE h == [p \in {} |-> 0]
           none == {}
           one == [r EXCEPT !.slashes = none]
           new == [one EXCEPT !.historical = h]
<1>1. Histories(h)
  BY DEF Histories
<1>2. none = {}
  OBVIOUS
<1> HIDE DEF h, none
<1>3. one = [current |-> r.current, period |-> r.period, historical |-> r.historical,
             starting |-> r.starting, outstanding |-> r.outstanding,
             commission |-> r.commission, slashes |-> none, pool |-> r.pool,
             paid |-> r.paid, received |-> r.received, panics |-> r.panics]
  BY DEF Sound, RecordsOK
<1> HIDE DEF one
<1>4. new = [current |-> r.current, period |-> r.period, historical |-> h,
             starting |-> r.starting, outstanding |-> r.outstanding,
             commission |-> r.commission, slashes |-> none, pool |-> r.pool,
             paid |-> r.paid, received |-> r.received, panics |-> r.panics]
  BY <1>3
<1> HIDE DEF new
<1>5. RecordsOK(new)
  BY <1>1, <1>2, <1>4 DEF Sound, RecordsOK, Histories
<1>6. Accounted(new)
  BY <1>4 DEF Sound, Accounted
<1> QED
  BY <1>5, <1>6 DEF Sound, Cleared, new, one, h, none

LEMMA GenesisSound ==
  ASSUME NEW v \in Validators
  PROVE  Sound(GenesisRecord(v))
<1> DEFINE empty == [current |-> 0, period |-> 0, historical |-> [p \in {} |-> 0],
                     starting |-> [d \in {} |-> 0], outstanding |-> 0, commission |-> 0,
                     slashes |-> {}, pool |-> 0, paid |-> 0, received |-> 0, panics |-> 0]
           one == InitializeValidator(empty)
           two == IncrementValidatorPeriod(one, SelfStake)
<1>1. RecordsOK(empty) /\ empty.received = empty.paid + empty.pool
  BY DEF RecordsOK
<1>2. Sound(one)
  <2> HIDE DEF empty
  <2> QED
    BY <1>1, ReinitializedSound
<1>3. Sound(two)
  <2> HIDE DEF one
  <2> QED
    BY <1>2, PeriodSound, SizesAssumption
<1>4. v \in Delegators
  BY SizesAssumption DEF Validators, Delegators
<1>5. GenesisRecord(v) = InitializeDelegation(two, v, SelfStake, 0)
  BY DEF GenesisRecord
<1> HIDE DEF two
<1> QED
  BY <1>3, <1>4, <1>5, StartSound, SizesAssumption

(***************************************************************************)
(* The invariant and its steps                                             *)
(***************************************************************************)

Inv == TypeOK /\ RewardsAccounted

Records(ds) ==
  /\ ds = [v \in Validators |-> ds[v]]
  /\ \A v \in Validators : Sound(ds[v])

ValidatorRecords == [tokens : Int, total : Int, jailed : BOOLEAN, bonded : BOOLEAN,
                     unbondingHeight : Nat]
Entries == [kind : {"unbonding", "redelegation"}, delegator : Delegators,
            validator : Validators, creation : Nat]

LEMMA InvParts ==
  Inv => /\ Records(dist)
         /\ val \in [Validators -> ValidatorRecords]
         /\ shares \in [Validators -> [Delegators -> Int]]
         /\ powerIndex \subseteq Validators /\ entries \subseteq Entries
         /\ signing \in [Validators -> Nat]
         /\ height \in Nat /\ ctxHeight \in Nat
  BY DEF Inv, TypeOK, RewardsAccounted, Records, Sound, Accounted, ValidatorRecords, Entries

LEMMA UpdateRecords ==
  ASSUME NEW ds, Records(ds), NEW v \in Validators, NEW x, Sound(x)
  PROVE  Records([ds EXCEPT ![v] = x])
  BY DEF Records

LEMMA StakeInt ==
  ASSUME Inv, NEW v \in Validators, NEW d \in Delegators
  PROVE  Stake(v, d) \in Int /\ SharesFor(v) \in Int /\ val[v].tokens \in Int
<1>1. val[v] \in ValidatorRecords /\ shares[v][d] \in Int
  BY InvParts
<1>2. val[v].tokens \in Int /\ val[v].total \in Int
  BY <1>1 DEF ValidatorRecords
<1>3. shares[v][d] * val[v].tokens \in Int /\ SelfStake * val[v].total \in Int
  BY <1>1, <1>2, SizesAssumption
<1> QED
  BY <1>2, <1>3, QuoInt DEF Stake, SharesFor

LEMMA UpdateTypes ==
  ASSUME Inv, NEW vs \in [Validators -> ValidatorRecords], NEW index, NEW h \in Nat
  PROVE  /\ UpdateValidators(vs, index, h) \in [Validators -> ValidatorRecords]
         /\ UpdateSigning(vs, index, h) \in [Validators -> Nat]
<1>1. ASSUME NEW v \in Validators, NEW b \in BOOLEAN
      PROVE  [vs[v] EXCEPT !.bonded = b,
                           !.unbondingHeight = IF vs[v].bonded /\ ~b THEN h ELSE @]
               \in ValidatorRecords
  BY DEF ValidatorRecords
<1>2. UpdateValidators(vs, index, h) \in [Validators -> ValidatorRecords]
  <2>1. ASSUME NEW v \in Validators
        PROVE  UpdateValidators(vs, index, h)[v] \in ValidatorRecords
    <3> DEFINE b == v \in BondedAfter(vs, index)
    <3>1. b \in BOOLEAN
      OBVIOUS
    <3>2. UpdateValidators(vs, index, h)[v]
            = [vs[v] EXCEPT !.bonded = b,
                            !.unbondingHeight = IF vs[v].bonded /\ ~b THEN h ELSE @]
      BY DEF UpdateValidators
    <3> HIDE DEF b
    <3> QED
      BY <1>1, <3>1, <3>2
  <2> QED
    BY <2>1 DEF UpdateValidators
<1>3. UpdateSigning(vs, index, h) \in [Validators -> Nat]
  BY InvParts DEF UpdateSigning
<1> QED
  BY <1>2, <1>3

(* A block that leaves typed records behind keeps the invariant.           *)
LEMMA CommitInv ==
  ASSUME Inv, NEW vs \in [Validators -> ValidatorRecords], NEW index \in SUBSET Validators,
         CommitBlock(vs, index), Records(dist'),
         shares' \in [Validators -> [Delegators -> Int]], entries' \subseteq Entries
  PROVE  Inv'
<1>1. height + 1 \in Nat /\ blocks + 1 \in Nat
  BY DEF Inv, TypeOK
<1>2. val' \in [Validators -> ValidatorRecords] /\ signing' \in [Validators -> Nat]
  BY <1>1, UpdateTypes DEF CommitBlock
<1>3. powerIndex' \subseteq Validators /\ height' \in Nat /\ blocks' \in Nat
  BY <1>1 DEF CommitBlock
<1>4. UNCHANGED <<phase, todo, allowed, exportHeight, skipped, ctxHeight, exports>>
  BY DEF CommitBlock, control
<1> QED
  BY <1>2, <1>3, <1>4 DEF Inv, TypeOK, RewardsAccounted, Records, Sound, Accounted,
                          ValidatorRecords, Entries

(* Joining a validator and leaving one keep the validators typed.          *)
LEMMA JoinedLeftTypes ==
  ASSUME Inv, NEW v \in Validators, NEW d \in Delegators,
         NEW vs \in [Validators -> ValidatorRecords]
  PROVE  /\ Joined(v) \in [Validators -> ValidatorRecords]
         /\ Left(vs, d, v) \in [Validators -> ValidatorRecords]
<1>1. Stake(v, d) \in Int /\ SharesFor(v) \in Int /\ shares[v][d] \in Int
  BY StakeInt, InvParts
<1>2. val \in [Validators -> ValidatorRecords]
  BY InvParts
<1>3. /\ val[v].tokens + SelfStake \in Int /\ val[v].total + SharesFor(v) \in Int
      /\ vs[v].tokens - Stake(v, d) \in Int /\ vs[v].total - shares[v][d] \in Int
  BY <1>1, <1>2, SizesAssumption DEF ValidatorRecords
<1>4. Joined(v) = [val EXCEPT ![v].tokens = val[v].tokens + SelfStake,
                              ![v].total  = val[v].total + SharesFor(v)]
  BY <1>2 DEF Joined, ValidatorRecords
<1>5. Left(vs, d, v) = [vs EXCEPT ![v].tokens = vs[v].tokens - Stake(v, d),
                                  ![v].total  = vs[v].total - shares[v][d]]
  BY DEF Left, ValidatorRecords
<1> DEFINE a == val[v].tokens + SelfStake
           b == val[v].total + SharesFor(v)
           m == vs[v].tokens - Stake(v, d)
           n == vs[v].total - shares[v][d]
<1>6. Joined(v) \in [Validators -> ValidatorRecords]
  <2>1. Joined(v) = [val EXCEPT ![v].tokens = a, ![v].total = b] /\ a \in Int /\ b \in Int
    BY <1>3, <1>4
  <2> HIDE DEF a, b
  <2> QED
    BY <1>2, <2>1 DEF ValidatorRecords
<1>7. Left(vs, d, v) \in [Validators -> ValidatorRecords]
  <2>1. Left(vs, d, v) = [vs EXCEPT ![v].tokens = m, ![v].total = n] /\ m \in Int /\ n \in Int
    BY <1>3, <1>5
  <2> HIDE DEF m, n
  <2> QED
    BY <2>1 DEF ValidatorRecords
<1> QED
  BY <1>6, <1>7

LEMMA BlockInv == Inv /\ Block => Inv'
<1> SUFFICES ASSUME Inv, Block PROVE Inv'
  OBVIOUS
<1> USE InvParts
<1>h. height + 1 \in Nat
  OBVIOUS
<1>1. ASSUME NEW v \in Validators, BlockReward(v) PROVE Inv'
  <2>1. Sound(AllocateTokensToValidator(dist[v], Reward))
    BY AllocateSound, SizesAssumption DEF Records
  <2>2. Records(dist')
    BY <1>1, <2>1, UpdateRecords DEF BlockReward
  <2> QED
    BY <1>1, <2>2, CommitInv DEF BlockReward
<1>2. ASSUME NEW v \in Validators, BlockUnjail(v) PROVE Inv'
  <2>1. [val EXCEPT ![v].jailed = FALSE] \in [Validators -> ValidatorRecords]
    BY DEF ValidatorRecords
  <2>2. powerIndex \cup {v} \in SUBSET Validators
    OBVIOUS
  <2>3. CommitBlock([val EXCEPT ![v].jailed = FALSE], powerIndex \cup {v})
    BY <1>2 DEF BlockUnjail
  <2>4. Records(dist') /\ shares' = shares /\ entries' = entries
    BY <1>2 DEF BlockUnjail, Records
  <2> HIDE DEF CommitBlock
  <2> QED
    BY <2>1, <2>2, <2>3, <2>4, CommitInv
<1>3. ASSUME NEW v \in Validators, NEW keep \in {0, 1}, BlockSlash(v, keep) PROVE Inv'
  <2>1. val[v].tokens \in Int
    BY DEF ValidatorRecords
  <2>2. Sound(RecordSlash(dist[v], val[v].tokens, height + 1, keep))
    BY <1>h, <2>1, SlashSound DEF Records
  <2>3. Records(dist')
    BY <1>3, <2>2, UpdateRecords DEF BlockSlash
  <2>4. (val[v].tokens * keep) \div 2 \in Int
    BY <2>1
  <2>5. [val EXCEPT ![v].tokens = (@ * keep) \div 2, ![v].jailed = TRUE]
          \in [Validators -> ValidatorRecords]
    BY <2>4 DEF ValidatorRecords
  <2>6. CommitBlock([val EXCEPT ![v].tokens = (@ * keep) \div 2, ![v].jailed = TRUE],
                    powerIndex \ {v})
    BY <1>3 DEF BlockSlash
  <2>7. shares' = shares /\ entries' = entries /\ powerIndex \ {v} \in SUBSET Validators
    BY <1>3 DEF BlockSlash
  <2> QED
    BY <2>3, <2>5, <2>6, <2>7, CommitInv
<1>4. ASSUME NEW v \in Validators, NEW d \in Delegators, BlockDelegate(d, v) PROVE Inv'
  <2>1. Stake(v, d) \in Int /\ SharesFor(v) \in Int /\ val[v].tokens \in Int
    BY StakeInt
  <2>2. Records(dist')
    <3>1. Sound(IncrementValidatorPeriod(dist[v], val[v].tokens))
      BY <2>1, PeriodSound DEF Records
    <3>2. Sound(InitializeDelegation(IncrementValidatorPeriod(dist[v], val[v].tokens),
                                     d, SelfStake, height + 1))
      BY <1>h, <3>1, StartSound, SizesAssumption
    <3> QED
      BY <1>4, <3>2, UpdateRecords DEF BlockDelegate, AddDelegation
  <2>3. shares' \in [Validators -> [Delegators -> Int]]
    BY <1>4, <2>1 DEF BlockDelegate, AddDelegation
  <2>4. Joined(v) \in [Validators -> ValidatorRecords]
    BY JoinedLeftTypes
  <2> QED
    BY <1>4, <2>2, <2>3, <2>4, CommitInv DEF BlockDelegate
<1>5. ASSUME NEW v \in Validators, NEW d \in Delegators, BlockUndelegate(d, v) PROVE Inv'
  <2>1. Stake(v, d) \in Int /\ val[v].tokens \in Int
    BY StakeInt
  <2>2. Sound(SettleDelegation(dist[v], d, val[v].tokens, Stake(v, d), height + 1))
    BY <1>5, <1>h, <2>1, SettleSound DEF BlockUndelegate, Leaves, Records
  <2>3. Records(dist')
    BY <1>5, <2>2, UpdateRecords DEF BlockUndelegate
  <2>4. shares' \in [Validators -> [Delegators -> Int]]
    BY <1>5 DEF BlockUndelegate
  <2>5. entries' \subseteq Entries
    BY <1>5, <1>h DEF BlockUndelegate, Entries
  <2>6. Left(val, d, v) \in [Validators -> ValidatorRecords]
    BY JoinedLeftTypes
  <2>7. CommitBlock(Left(val, d, v), powerIndex)
    BY <1>5 DEF BlockUndelegate
  <2> QED
    BY <2>3, <2>4, <2>5, <2>6, <2>7, CommitInv
<1>6. ASSUME NEW v \in Validators, NEW w \in Validators, NEW d \in Delegators,
             BlockRedelegate(d, v, w)
      PROVE  Inv'
  <2>1. Stake(v, d) \in Int /\ val[v].tokens \in Int /\ val[w].tokens \in Int
    BY StakeInt
  <2> DEFINE out == SettleDelegation(dist[v], d, val[v].tokens, Stake(v, d), height + 1)
             ds == [dist EXCEPT ![v] = out]
             in == InitializeDelegation(IncrementValidatorPeriod(dist[w], val[w].tokens), d,
                                        SelfStake, height + 1)
  <2>2. Sound(out)
    BY <1>6, <1>h, <2>1, SettleSound DEF BlockRedelegate, Leaves, Records
  <2>3. Records(ds)
    <3> HIDE DEF out
    <3> QED
      BY <2>2, UpdateRecords
  <2>4. Sound(in)
    <3>1. Sound(IncrementValidatorPeriod(dist[w], val[w].tokens))
      BY <2>1, PeriodSound DEF Records
    <3> QED
      BY <1>h, <3>1, StartSound, SizesAssumption
  <2>5. dist' = [ds EXCEPT ![w] = in]
    <3>1. v # w
      BY <1>6 DEF BlockRedelegate, Leaves
    <3> QED
      BY <1>6, <3>1 DEF BlockRedelegate, Records
  <2>6. Records(dist')
    <3> HIDE DEF ds, in
    <3> QED
      BY <2>3, <2>4, <2>5, UpdateRecords
  <2>7. shares' \in [Validators -> [Delegators -> Int]]
    <3> DEFINE one == [shares EXCEPT ![v][d] = 0]
    <3>1. one \in [Validators -> [Delegators -> Int]]
      OBVIOUS
    <3>2. shares' = [one EXCEPT ![w][d] = SelfStake]
      BY <1>6 DEF BlockRedelegate
    <3> HIDE DEF one
    <3> QED
      BY <3>1, <3>2, SizesAssumption
  <2>8. entries' \subseteq Entries
    BY <1>6, <1>h DEF BlockRedelegate, Entries
  <2>9. Left(Joined(w), d, v) \in [Validators -> ValidatorRecords]
    BY JoinedLeftTypes
  <2>10. CommitBlock(Left(Joined(w), d, v), powerIndex)
    BY <1>6 DEF BlockRedelegate
  <2> QED
    BY <2>6, <2>7, <2>8, <2>9, <2>10, CommitInv
<1> QED
  BY <1>1, <1>2, <1>3, <1>4, <1>5, <1>6 DEF Block

(* A step of the export that keeps the staking records typed.              *)
LEMMA ExportInv == Inv /\ Export => Inv'
<1> SUFFICES ASSUME Inv, Export PROVE Inv'
  OBVIOUS
<1> USE InvParts
<1> USE DEF control, counters, staking
<1>1. CASE WithdrawCommission
  <2>1. PICK v \in todo : dist' = [dist EXCEPT ![v] = WithdrawValidatorCommission(@)]
                          /\ todo' = todo \ {v}
    BY <1>1 DEF WithdrawCommission
  <2>2. v \in Validators
    BY <1>1 DEF Inv, TypeOK, WithdrawCommission
  <2>3. Sound(WithdrawValidatorCommission(dist[v]))
    BY <2>2, WithdrawCommissionSound DEF Records
  <2>4. Records(dist')
    BY <2>1, <2>2, <2>3, UpdateRecords
  <2> QED
    BY <1>1, <2>1, <2>4 DEF WithdrawCommission, Inv, TypeOK, RewardsAccounted, Records,
                            Sound, Accounted
<1>2. CASE ListDelegations
  BY <1>2 DEF ListDelegations, ListDelegationsWith, Delegations, Inv, TypeOK, Phases, RewardsAccounted
<1>3. CASE WithdrawRewards
  <2>1. PICK d \in Delegators, v \in Validators :
          /\ dist' = [dist EXCEPT ![v] =
               WithdrawDelegationRewards(@, d, val[v].tokens, Stake(v, d), ctxHeight)]
          /\ todo' = todo \ {<<d, v>>}
    BY <1>3 DEF WithdrawRewards
  <2>2. Sound(WithdrawDelegationRewards(dist[v], d, val[v].tokens, Stake(v, d), ctxHeight))
    BY StakeInt, WithdrawRewardsSound DEF Records
  <2>3. Records(dist')
    BY <2>1, <2>2, UpdateRecords
  <2> QED
    BY <1>3, <2>1, <2>3 DEF WithdrawRewards, Inv, TypeOK, RewardsAccounted, Records,
                            Sound, Accounted
<1>4. CASE ClearRecords
  <2>1. Records(dist')
    BY <1>4, ClearedSound DEF ClearRecords, ClearRecordsTo, Records
  <2> QED
    BY <1>4, <2>1 DEF ClearRecords, ClearRecordsTo, Inv, TypeOK, Phases, RewardsAccounted, Records,
                      Sound, Accounted
<1>5. CASE ReinitializeValidator
  <2>1. PICK v \in todo : dist' = [dist EXCEPT ![v] = Reinitialized(dist[v])]
                          /\ todo' = todo \ {v}
    BY <1>5 DEF ReinitializeValidator
  <2>2. v \in Validators
    BY <1>5 DEF Inv, TypeOK, ReinitializeValidator
  <2>3. Sound(Reinitialized(dist[v]))
    BY <2>2, DonatedSound DEF Records, Reinitialized
  <2>4. Records(dist')
    BY <2>1, <2>2, <2>3, UpdateRecords
  <2> QED
    BY <1>5, <2>1, <2>4 DEF ReinitializeValidator, Inv, TypeOK, RewardsAccounted, Records,
                            Sound, Accounted
<1>6. CASE BeginDelegations
  BY <1>6 DEF BeginDelegations, Delegations, Inv, TypeOK, Phases, RewardsAccounted
<1>7. CASE ReinitializeDelegation
  <2>1. PICK d \in Delegators, v \in Validators :
          /\ dist' = [dist EXCEPT ![v] =
               InitializeDelegation(IncrementValidatorPeriod(@, val[v].tokens),
                                    d, Stake(v, d), ctxHeight)]
          /\ todo' = todo \ {<<d, v>>}
    BY <1>7 DEF ReinitializeDelegation
  <2>2. Sound(IncrementValidatorPeriod(dist[v], val[v].tokens))
    BY StakeInt, PeriodSound DEF Records
  <2>3. Sound(InitializeDelegation(IncrementValidatorPeriod(dist[v], val[v].tokens),
                                   d, Stake(v, d), ctxHeight))
    BY <2>2, StakeInt, StartSound
  <2>4. Records(dist')
    BY <2>1, <2>3, UpdateRecords
  <2> QED
    BY <1>7, <2>1, <2>4 DEF ReinitializeDelegation, Inv, TypeOK, RewardsAccounted, Records,
                            Sound, Accounted
<1>8. CASE ResetEntries
  <2>1. entries' \subseteq Entries
    BY <1>8 DEF ResetEntries, ResetEntry, Entries
  <2> QED
    BY <1>8, <2>1 DEF ResetEntries, Entries, Inv, TypeOK, Phases, RewardsAccounted
<1>9. CASE ResetValidator
  <2>1. PICK v \in todo : val' = [val EXCEPT ![v] = Reset(v)]
    BY <1>9 DEF ResetValidator
  <2>2. v \in Validators /\ val \in [Validators -> ValidatorRecords]
    BY <1>9 DEF ResetValidator, ValidatorRecords, Inv, TypeOK
  <2>3. Reset(v) \in ValidatorRecords
    <3> DEFINE j == val[v].jailed \/ (allowed # {} /\ v \notin allowed)
               one == [val[v] EXCEPT !.unbondingHeight = 0]
    <3>1. j \in BOOLEAN /\ one \in ValidatorRecords
      BY <2>2 DEF ValidatorRecords
    <3>2. Reset(v) = [one EXCEPT !.jailed = j]
      BY <2>2 DEF Reset, ValidatorRecords
    <3> HIDE DEF j, one
    <3> QED
      BY <3>1, <3>2 DEF ValidatorRecords
  <2>4. val' \in [Validators -> ValidatorRecords]
    BY <2>1, <2>2, <2>3
  <2> QED
    BY <1>9, <2>4 DEF ResetValidator, ValidatorRecords, Inv, TypeOK, RewardsAccounted
<1>10. CASE CloseFails
  BY <1>10 DEF CloseFails, Inv, TypeOK, Phases, RewardsAccounted
<1>11. CASE ApplyUpdates
  <2>1. val' \in [Validators -> ValidatorRecords] /\ signing' \in [Validators -> Nat]
    BY <1>11, UpdateTypes DEF ApplyUpdates
  <2> QED
    BY <1>11, <2>1 DEF ApplyUpdates, ValidatorRecords, Inv, TypeOK, Phases, RewardsAccounted
<1>12. CASE ResetSigning
  BY <1>12 DEF ResetSigning, Inv, TypeOK, Phases, RewardsAccounted
<1> QED
  BY <1>1, <1>2, <1>3, <1>4, <1>5, <1>6, <1>7, <1>8, <1>9, <1>10, <1>11, <1>12 DEF Export

LEMMA NextInv == Inv /\ [Next]_vars => Inv'
<1> SUFFICES ASSUME Inv, [Next]_vars PROVE Inv'
  OBVIOUS
<1>1. CASE Block
  BY <1>1, BlockInv
<1>2. CASE ExportAtHeight
  BY <1>2 DEF ExportAtHeight, staking, Inv, TypeOK, Phases, RewardsAccounted
<1>3. ASSUME NEW addrs \in SUBSET Addresses, BeginZeroHeight(addrs)
      PROVE  Inv'
  BY <1>3 DEF BeginZeroHeight, staking, Inv, TypeOK, Phases, RewardsAccounted
<1>4. CASE Export
  BY <1>4, ExportInv
<1>5. CASE Import
  BY <1>5 DEF Import, staking, Inv, TypeOK, Phases, RewardsAccounted
<1>6. CASE UNCHANGED vars
  BY <1>6 DEF vars, control, counters, staking, Inv, TypeOK, RewardsAccounted
<1> QED
  BY <1>1, <1>2, <1>3, <1>4, <1>5, <1>6 DEF Next

LEMMA InitInv == Init => Inv
<1> SUFFICES ASSUME Init PROVE Inv
  OBVIOUS
<1>1. Records(dist)
  BY GenesisSound DEF Init, Records
<1>2. val \in [Validators -> ValidatorRecords]
  BY SizesAssumption DEF Init, ValidatorRecords
<1>3. shares \in [Validators -> [Delegators -> Int]]
  BY SizesAssumption DEF Init
<1> QED
  BY <1>1, <1>2, <1>3 DEF Init, ValidatorRecords, Inv, TypeOK, Phases, RewardsAccounted,
                          Records, Sound, Accounted

(* Every reachable state of the chain and of the export is well typed, for *)
(* any number of validators and delegators and any amounts.                *)
THEOREM TypeCorrect == Spec => []TypeOK
<1>1. Inv => TypeOK
  BY DEF Inv
<1> QED
  BY <1>1, InitInv, NextInv, PTL DEF Spec

(* No step of a chain, of the export or of the import loses or duplicates  *)
(* a reward: what each validator received is always what was paid, plus    *)
(* what the community pool got, plus what is still outstanding.            *)
THEOREM RewardsConserved == Spec => []RewardsAccounted
<1>1. Inv => RewardsAccounted
  BY DEF Inv
<1> QED
  BY <1>1, InitInv, NextInv, PTL DEF Spec

(***************************************************************************)
(* The bonded set                                                          *)
(***************************************************************************)

(* A non-empty set of subsets of a finite set has a minimal element.       *)
LEMMA MinimalSubset ==
  ASSUME NEW S, IsFiniteSet(S), NEW Family \in SUBSET (SUBSET S), Family # {}
  PROVE  \E T \in Family : \A U \in Family : U \subseteq T => U = T
<1> DEFINE R == StrictSubsetOrdering(S)
<1>1. IsWellFoundedOn(R, SUBSET S)
  BY FS_StrictSubsetOrderingWellFounded, FS_FiniteSubsetsOfFinite
<1>2. \A T, U \in SUBSET S : <<U, T>> \in R <=> U \subseteq T /\ U # T
  BY DEF StrictSubsetOrdering
<1> HIDE DEF R
<1>3. \E T \in Family : \A U \in Family : <<U, T>> \notin R
  BY <1>1, WFMin
<1> QED
  BY <1>2, <1>3

LEMMA FiniteValidators == IsFiniteSet(Validators)
  BY FS_Interval, SizesAssumption DEF Validators

(* The members of the power store that come before a validator.            *)
Above(vs, index, v) == {w \in index : Outranks(vs, w, v)}

LEMMA AboveFacts ==
  ASSUME NEW vs \in [Validators -> ValidatorRecords], NEW index \in SUBSET Validators,
         NEW v \in Validators
  PROVE  /\ Above(vs, index, v) \subseteq Validators
         /\ IsFiniteSet(Above(vs, index, v)) /\ Cardinality(Above(vs, index, v)) \in Nat
         /\ v \notin Above(vs, index, v)
         /\ \A w \in Above(vs, index, v) :
              /\ Above(vs, index, w) \subseteq Above(vs, index, v)
              /\ vs[w].tokens >= vs[v].tokens
<1>1. Above(vs, index, v) \subseteq Validators
  BY DEF Above
<1>2. IsFiniteSet(Above(vs, index, v)) /\ Cardinality(Above(vs, index, v)) \in Nat
  BY <1>1, FiniteValidators, FS_Subset, FS_CardinalityType
<1>3. v \notin Above(vs, index, v)
  BY DEF Above, Outranks, Validators, ValidatorRecords
<1>4. ASSUME NEW w \in Above(vs, index, v)
      PROVE  Above(vs, index, w) \subseteq Above(vs, index, v) /\ vs[w].tokens >= vs[v].tokens
  <2>1. \A u \in Validators : vs[u].tokens \in Int /\ u \in Int
    BY DEF Validators, ValidatorRecords
  <2> QED
    BY <1>1, <1>4, <2>1 DEF Above, Outranks
<1> QED
  BY <1>1, <1>2, <1>3, <1>4

(* The update bonds those with power among the first MaxValidators.        *)
LEMMA BondedByRank ==
  ASSUME NEW vs \in [Validators -> ValidatorRecords], NEW index \in SUBSET Validators,
         NEW v \in Validators
  PROVE  v \in BondedAfter(vs, index) <=>
           /\ v \in index /\ vs[v].tokens > 0
           /\ Cardinality(Above(vs, index, v)) < MaxValidators
<1>1. v \in Visited(vs, index) <=>
        /\ v \in index /\ Cardinality(Above(vs, index, v)) < MaxValidators
        /\ \A w \in Above(vs, index, v) : vs[w].tokens > 0
  BY DEF Visited, Above
<1>2. \A w \in Above(vs, index, v) : vs[v].tokens > 0 => vs[w].tokens > 0
  <2>1. \A u \in Validators : vs[u].tokens \in Int
    BY DEF ValidatorRecords
  <2> QED
    BY <2>1, AboveFacts
<1> QED
  BY <1>1, <1>2 DEF BondedAfter

(* The update looks at nothing but the tokens and the power store.         *)
LEMMA TokensDecide ==
  ASSUME NEW vs, NEW ws, NEW index \in SUBSET Validators,
         \A v \in Validators : ws[v].tokens = vs[v].tokens
  PROVE  /\ Visited(ws, index) = Visited(vs, index)
         /\ BondedAfter(ws, index) = BondedAfter(vs, index)
<1>1. \A v, w \in Validators : Outranks(ws, v, w) = Outranks(vs, v, w)
  BY DEF Outranks
<1>2. \A v \in index : {w \in index : Outranks(ws, w, v)} = {w \in index : Outranks(vs, w, v)}
  BY <1>1
<1>3. Visited(ws, index) = Visited(vs, index)
  BY <1>1, <1>2 DEF Visited
<1> QED
  BY <1>3 DEF BondedAfter, Visited

(* Taking validators the update does not visit out of the power store      *)
(* changes nothing: whoever moves up had no power or no seat, and still    *)
(* has none.                                                               *)
LEMMA UnvisitedIrrelevant ==
  ASSUME NEW vs \in [Validators -> ValidatorRecords], NEW index \in SUBSET Validators,
         NEW X, X \cap Visited(vs, index) = {}
  PROVE  BondedAfter(vs, index \ X) = BondedAfter(vs, index)
<1> DEFINE D == index \ X
           rank(v) == Cardinality(Above(vs, index, v))
<1>0. D \in SUBSET Validators /\ MaxValidators \in Nat
  BY SizesAssumption
<1>1. BondedAfter(vs, index) \subseteq D
  BY DEF BondedAfter, Visited
<1>2. ASSUME NEW v \in BondedAfter(vs, index) PROVE v \in BondedAfter(vs, D)
  <2>1. v \in Validators /\ v \in D
    BY <1>1, <1>2
  <2>2. Cardinality(Above(vs, D, v)) <= rank(v)
    <3>1. Above(vs, D, v) \subseteq Above(vs, index, v)
      BY DEF Above
    <3> QED
      BY <2>1, <3>1, AboveFacts, FS_Subset
  <2>3. vs[v].tokens > 0 /\ rank(v) < MaxValidators
    BY <1>2, <2>1, BondedByRank
  <2>4. Cardinality(Above(vs, D, v)) < MaxValidators
    <3>1. Cardinality(Above(vs, D, v)) \in Nat /\ rank(v) \in Nat
      BY <1>0, <2>1, AboveFacts
    <3> HIDE DEF D, rank
    <3> QED
      BY <1>0, <2>2, <2>3, <3>1
  <2> QED
    BY <1>0, <2>1, <2>3, <2>4, BondedByRank
<1>3. ASSUME NEW v \in BondedAfter(vs, D), v \notin BondedAfter(vs, index) PROVE FALSE
  <2> DEFINE Low == {u \in index : vs[u].tokens > 0 /\ ~(rank(u) < MaxValidators)}
             Family == {Above(vs, index, u) : u \in Low}
  <2>1. v \in D /\ v \in Validators
    BY <1>0, <1>3 DEF BondedAfter, Visited
  <2>2. vs[v].tokens > 0 /\ Cardinality(Above(vs, D, v)) < MaxValidators
    BY <1>0, <1>3, <2>1, BondedByRank
  <2>3. v \in Low
    BY <1>3, <2>1, <2>2, BondedByRank
  <2>4. PICK m \in Low : \A u \in Low :
          Above(vs, index, u) \subseteq Above(vs, index, m)
            => Above(vs, index, u) = Above(vs, index, m)
    <3>1. Family \in SUBSET (SUBSET Validators)
      BY DEF Above
    <3>2. Above(vs, index, v) \in Family
      BY <2>3
    <3> HIDE DEF Family
    <3>3. PICK T \in Family : \A U \in Family : U \subseteq T => U = T
      BY <3>1, <3>2, MinimalSubset, FiniteValidators
    <3> QED
      BY <3>3 DEF Family
  <2>5. m \in Validators /\ m \in index
    OBVIOUS
  <2>6. Above(vs, index, m) \subseteq BondedAfter(vs, index)
    <3> SUFFICES ASSUME NEW w \in Above(vs, index, m) PROVE w \in BondedAfter(vs, index)
      OBVIOUS
    <3>1. w \in index /\ w \in Validators /\ vs[w].tokens >= vs[m].tokens
      BY <2>5, AboveFacts DEF Above
    <3>2. vs[w].tokens > 0
      BY <2>5, <3>1 DEF ValidatorRecords
    <3>3. Above(vs, index, w) \subseteq Above(vs, index, m)
          /\ Above(vs, index, w) # Above(vs, index, m)
      BY <2>5, <3>1, AboveFacts
    <3>4. w \notin Low
      BY <2>4, <3>3
    <3> QED
      BY <3>1, <3>2, <3>4, BondedByRank
  <2>7. v = m \/ Outranks(vs, v, m) \/ Outranks(vs, m, v)
    <3>1. v \in Int /\ m \in Int /\ vs[v].tokens \in Int /\ vs[m].tokens \in Int
      BY <2>1, <2>5 DEF Validators, ValidatorRecords
    <3> QED
      BY <3>1 DEF Outranks
  <2>8. ~Outranks(vs, v, m)
    BY <1>3, <2>1, <2>6 DEF Above
  <2>9. Above(vs, index, m) \subseteq Above(vs, D, v)
    <3>1. Above(vs, index, m) \subseteq Above(vs, index, v)
      <4>1. CASE v = m
        BY <4>1
      <4>2. CASE Outranks(vs, m, v)
        <5>1. m \in Above(vs, index, v)
          BY <4>2, <2>5 DEF Above
        <5> QED
          BY <2>1, <5>1, AboveFacts
      <4> QED
        BY <2>7, <2>8, <4>1, <4>2
    <3> QED
      BY <1>1, <2>6, <3>1 DEF Above
  <2>10. rank(m) <= Cardinality(Above(vs, D, v))
    BY <1>0, <2>1, <2>9, AboveFacts, FS_Subset
  <2>11. Cardinality(Above(vs, D, v)) \in Nat /\ rank(m) \in Nat
    BY <1>0, <2>1, <2>5, AboveFacts
  <2>12. ~(rank(m) < MaxValidators)
    OBVIOUS
  <2> HIDE DEF D, rank
  <2> QED
    BY <1>0, <2>2, <2>10, <2>11, <2>12
<1> QED
  BY <1>2, <1>3

BondedSet == {v \in Validators : val[v].bonded}
UpToDate == BondedSet = BondedAfter(val, powerIndex)

(* Exactly the jailed validators are out of the power store, before and    *)
(* after the export has reset a validator.                                 *)
InStep(v) == val[v].jailed <=> v \notin powerIndex
AfterReset(v) ==
  /\ val[v].unbondingHeight = 0
  /\ val[v].jailed <=> (v \notin powerIndex \/ v \in Excluded)

AtHeight == phase = "done" /\ exportHeight # 0
AtZero == phase = "done" /\ exportHeight = 0
Collecting == phase \in {"commission", "rewards", "validators", "delegations"}
Refused == BadAddress \in allowed \/ Excluded \cap Visited(val, powerIndex) # {}

JailInv ==
  /\ Running => BadAddress \notin allowed /\ exportHeight = 0
  /\ AtHeight => exportHeight = height + 1
  /\ phase = "chain" \/ Collecting \/ AtHeight => \A v \in Validators : InStep(v)
  /\ phase = "jail" => /\ \A v \in todo : InStep(v)
                       /\ \A v \in Validators \ todo : AfterReset(v)
  /\ phase = "signing" \/ AtZero => \A v \in Validators : val[v].unbondingHeight = 0
  /\ phase = "signing" \/ (AtZero /\ ~skipped) =>
       ~Refused /\ \A v \in Validators : AfterReset(v)
  /\ phase = "panicked" => Refused

(* The height of the context while the export runs.                        *)
ContextInv ==
  /\ phase \in {"commission", "rewards", "jail", "signing"} => ctxHeight = height
  /\ phase \in {"validators", "delegations"} => ctxHeight = 0

BondInv ==
  /\ ContextInv
  /\ JailInv
  /\ ~skipped \/ height > 0 => UpToDate
  /\ phase # "chain" /\ ~skipped => committed.bonded = BondedSet

(* Every block is one more on a running chain.                             *)
NextBlock ==
  /\ phase = "chain" /\ phase' = "chain" /\ height' = height + 1
  /\ blocks < MaxBlocks /\ blocks' = blocks + 1

LEMMA CommitFrame ==
  ASSUME NEW vs, NEW index, CommitBlock(vs, index)
  PROVE  NextBlock
  BY DEF CommitBlock, NextBlock

LEMMA BlockFrame == Block => NextBlock
<1> SUFFICES ASSUME Block PROVE NextBlock
  OBVIOUS
<1>1. ASSUME NEW v \in Validators, BlockReward(v) \/ BlockUnjail(v) PROVE NextBlock
  BY <1>1, CommitFrame DEF BlockReward, BlockUnjail
<1>2. ASSUME NEW v \in Validators, NEW keep \in {0, 1}, BlockSlash(v, keep) PROVE NextBlock
  BY <1>2, CommitFrame DEF BlockSlash
<1>3. ASSUME NEW v \in Validators, NEW d \in Delegators, BlockDelegate(d, v) \/ BlockUndelegate(d, v)
      PROVE  NextBlock
  BY <1>3, CommitFrame DEF BlockDelegate, BlockUndelegate
<1>4. ASSUME NEW v \in Validators, NEW w \in Validators, NEW d \in Delegators, BlockRedelegate(d, v, w)
      PROVE  NextBlock
  BY <1>4, CommitFrame DEF BlockRedelegate
<1> QED
  BY <1>1, <1>2, <1>3, <1>4 DEF Block

LEMMA ContextStep == ContextInv /\ Next => ContextInv'
<1> SUFFICES ASSUME ContextInv, Next PROVE ContextInv'
  OBVIOUS
<1>1. CASE Block
  BY <1>1, BlockFrame DEF NextBlock, ContextInv
<1>2. CASE ExportAtHeight \/ Import \/ \E addrs \in SUBSET Addresses : BeginZeroHeight(addrs)
  BY <1>2 DEF ContextInv, ExportAtHeight, BeginZeroHeight, Import, control, counters
<1>3. CASE WithdrawCommission \/ ListDelegations \/ WithdrawRewards \/ ClearRecords
  BY <1>3 DEF ContextInv, WithdrawCommission, ListDelegations, ListDelegationsWith,
     WithdrawRewards, ClearRecords, ClearRecordsTo, control, counters
<1>4. CASE ReinitializeValidator \/ BeginDelegations \/ ReinitializeDelegation \/ ResetEntries
  BY <1>4 DEF ContextInv, ReinitializeValidator, BeginDelegations, ReinitializeDelegation,
     ResetEntries, control, counters
<1>5. CASE ResetValidator \/ CloseFails \/ ApplyUpdates \/ ResetSigning
  BY <1>5 DEF ContextInv, ResetValidator, CloseFails, ApplyUpdates, ResetSigning, control, counters
<1> QED
  BY <1>1, <1>2, <1>3, <1>4, <1>5 DEF Next, Export

LEMMA UpdateFacts ==
  ASSUME NEW vs \in [Validators -> ValidatorRecords], NEW index, NEW h \in Nat,
         NEW v \in Validators
  PROVE  LET x == UpdateValidators(vs, index, h)[v] IN
         /\ x.tokens = vs[v].tokens /\ x.total = vs[v].total
         /\ x.jailed = vs[v].jailed
         /\ x.bonded <=> v \in BondedAfter(vs, index)
         /\ x.unbondingHeight = IF vs[v].bonded /\ v \notin BondedAfter(vs, index)
                                  THEN h ELSE vs[v].unbondingHeight
<1> DEFINE in == v \in BondedAfter(vs, index)
           u == IF vs[v].bonded /\ ~in THEN h ELSE vs[v].unbondingHeight
           one == [vs[v] EXCEPT !.bonded = in]
           x == UpdateValidators(vs, index, h)[v]
<1>1. x = [one EXCEPT !.unbondingHeight = u]
  BY DEF UpdateValidators, ValidatorRecords
<1>2. in \in BOOLEAN
  OBVIOUS
<1>3. x.unbondingHeight = u
  BY <1>1 DEF ValidatorRecords
<1> HIDE DEF u
<1>4. x.tokens = vs[v].tokens /\ x.total = vs[v].total /\ x.jailed = vs[v].jailed
  BY <1>1 DEF ValidatorRecords
<1>5. x.bonded = in
  <2> HIDE DEF in, x
  <2> QED
    BY <1>1, <1>2 DEF ValidatorRecords
<1> QED
  BY <1>3, <1>4, <1>5 DEF u

(* A block whose operation keeps jailing and the power store in step ends  *)
(* with the bonded set of its update.                                      *)
LEMMA CommitBonds ==
  ASSUME Inv, BondInv, ContextInv', NEW vs \in [Validators -> ValidatorRecords],
         NEW index \in SUBSET Validators, CommitBlock(vs, index),
         \A v \in Validators : vs[v].jailed <=> v \notin index
  PROVE  BondInv'
<1>1. /\ phase = "chain" /\ phase' = "chain" /\ powerIndex' = index
      /\ val' = UpdateValidators(vs, index, height + 1) /\ height + 1 \in Nat
  BY InvParts DEF CommitBlock
<1>2. \A v \in Validators : /\ val'[v].tokens = vs[v].tokens
                            /\ val'[v].jailed = vs[v].jailed
                            /\ val'[v].bonded <=> v \in BondedAfter(vs, index)
  BY <1>1, UpdateFacts
<1>3. BondedAfter(val', index) = BondedAfter(vs, index)
  BY <1>2, TokensDecide
<1>4. BondedAfter(vs, index) \subseteq Validators
  BY DEF BondedAfter, Visited
<1>5. UpToDate'
  BY <1>1, <1>2, <1>3, <1>4 DEF UpToDate, BondedSet
<1>6. \A v \in Validators : InStep(v)'
  BY <1>1, <1>2 DEF InStep
<1>7. JailInv'
  BY <1>1, <1>6 DEF JailInv, Running, AtHeight, AtZero, Collecting
<1> QED
  BY <1>1, <1>5, <1>7 DEF BondInv

LEMMA BlockBonds == Inv /\ BondInv /\ Block => BondInv'
<1> SUFFICES ASSUME Inv, BondInv, Block PROVE BondInv'
  OBVIOUS
<1>c. ContextInv'
  BY ContextStep DEF BondInv, Next
<1> USE InvParts, <1>c
<1>0. \A v \in Validators : phase = "chain" => (val[v].jailed <=> v \notin powerIndex)
  BY DEF BondInv, JailInv, InStep
<1>1. ASSUME NEW v \in Validators, BlockReward(v) PROVE BondInv'
  <2>1. CommitBlock(val, powerIndex) /\ phase = "chain"
    BY <1>1 DEF BlockReward, CommitBlock
  <2> QED
    BY <1>0, <2>1, CommitBonds
<1>2. ASSUME NEW v \in Validators, BlockUnjail(v) PROVE BondInv'
  <2> DEFINE vs == [val EXCEPT ![v].jailed = FALSE]
  <2>1. CommitBlock(vs, powerIndex \cup {v}) /\ phase = "chain"
    BY <1>2 DEF BlockUnjail, CommitBlock
  <2>2. vs \in [Validators -> ValidatorRecords] /\ powerIndex \cup {v} \in SUBSET Validators
    BY DEF ValidatorRecords
  <2>3. \A w \in Validators : vs[w].jailed <=> (w # v /\ val[w].jailed)
    BY DEF ValidatorRecords
  <2> HIDE DEF vs
  <2> QED
    BY <1>0, <2>1, <2>2, <2>3, CommitBonds
<1>3. ASSUME NEW v \in Validators, NEW keep \in {0, 1}, BlockSlash(v, keep) PROVE BondInv'
  <2> DEFINE t == (val[v].tokens * keep) \div 2
             vs == [val EXCEPT ![v].tokens = t, ![v].jailed = TRUE]
  <2>0. [val EXCEPT ![v].tokens = (@ * keep) \div 2, ![v].jailed = TRUE] = vs
    OBVIOUS
  <2>1. CommitBlock(vs, powerIndex \ {v}) /\ phase = "chain"
    BY <1>3, <2>0 DEF BlockSlash, CommitBlock
  <2>2. t \in Int
    <3>1. val[v].tokens \in Int
      BY DEF ValidatorRecords
    <3> QED
      BY <3>1
  <2> HIDE DEF t
  <2>3. vs \in [Validators -> ValidatorRecords] /\ powerIndex \ {v} \in SUBSET Validators
    BY <2>2 DEF ValidatorRecords
  <2>4. \A w \in Validators : vs[w].jailed <=> (w = v \/ val[w].jailed)
    BY DEF ValidatorRecords
  <2> HIDE DEF vs
  <2> QED
    BY <1>0, <2>1, <2>3, <2>4, CommitBonds
<1>4. ASSUME NEW v \in Validators, NEW d \in Delegators, BlockDelegate(d, v) PROVE BondInv'
  <2>1. CommitBlock(Joined(v), powerIndex) /\ phase = "chain"
    BY <1>4 DEF BlockDelegate, CommitBlock
  <2>2. Joined(v) \in [Validators -> ValidatorRecords]
    BY JoinedLeftTypes
  <2>3. \A w \in Validators : Joined(v)[w].jailed = val[w].jailed
    BY DEF Joined, ValidatorRecords
  <2> QED
    BY <1>0, <2>1, <2>2, <2>3, CommitBonds
<1>5. ASSUME NEW v \in Validators, NEW d \in Delegators, BlockUndelegate(d, v) PROVE BondInv'
  <2>1. CommitBlock(Left(val, d, v), powerIndex) /\ phase = "chain"
    BY <1>5 DEF BlockUndelegate, CommitBlock
  <2>2. Left(val, d, v) \in [Validators -> ValidatorRecords]
    BY JoinedLeftTypes
  <2>3. \A w \in Validators : Left(val, d, v)[w].jailed = val[w].jailed
    BY DEF Left, ValidatorRecords
  <2> QED
    BY <1>0, <2>1, <2>2, <2>3, CommitBonds
<1>6. ASSUME NEW v \in Validators, NEW w \in Validators, NEW d \in Delegators,
             BlockRedelegate(d, v, w)
      PROVE  BondInv'
  <2> DEFINE vs == Left(Joined(w), d, v)
  <2>1. CommitBlock(vs, powerIndex) /\ phase = "chain"
    BY <1>6 DEF BlockRedelegate, CommitBlock
  <2>2. vs \in [Validators -> ValidatorRecords]
    BY JoinedLeftTypes
  <2>3. \A u \in Validators : Joined(w)[u].jailed = val[u].jailed
    BY DEF Joined, ValidatorRecords
  <2>4. \A u \in Validators : vs[u].jailed = Joined(w)[u].jailed
    <3> DEFINE js == Joined(w)
    <3>1. js \in [Validators -> ValidatorRecords]
      BY JoinedLeftTypes
    <3> HIDE DEF js
    <3>2. \A u \in Validators : Left(js, d, v)[u].jailed = js[u].jailed
      BY <3>1 DEF Left, ValidatorRecords
    <3> QED
      BY <3>2 DEF js
  <2> HIDE DEF vs
  <2> QED
    BY <1>0, <2>1, <2>2, <2>3, <2>4, CommitBonds
<1> QED
  BY <1>1, <1>2, <1>3, <1>4, <1>5, <1>6 DEF Block

(* The update of the export finds everybody where the last update left     *)
(* them, and writes no unbonding height after the loop reset them.         *)
LEMMA UpdateKeepsBonds ==
  ASSUME Inv, NEW h \in Nat,
         \A v \in Validators : AfterReset(v),
         UpToDate \/ h = 0
  PROVE  LET vs == UpdateValidators(val, powerIndex, h) IN
         /\ {v \in Validators : vs[v].bonded} = BondedAfter(vs, powerIndex)
         /\ \A v \in Validators :
              /\ vs[v].unbondingHeight = 0 /\ vs[v].jailed = val[v].jailed
              /\ UpToDate => (vs[v].bonded <=> v \in BondedSet)
         /\ Visited(vs, powerIndex) = Visited(val, powerIndex)
<1> DEFINE vs == UpdateValidators(val, powerIndex, h)
<1> USE InvParts
<1>1. \A v \in Validators :
        /\ vs[v].tokens = val[v].tokens /\ vs[v].jailed = val[v].jailed
        /\ vs[v].bonded <=> v \in BondedAfter(val, powerIndex)
        /\ vs[v].unbondingHeight = IF val[v].bonded /\ v \notin BondedAfter(val, powerIndex)
                                     THEN h ELSE val[v].unbondingHeight
  <2> HIDE DEF vs
  <2> TAKE v \in Validators
  <2>1. val \in [Validators -> ValidatorRecords]
    OBVIOUS
  <2> QED
    BY <2>1, UpdateFacts DEF vs
<1>2. BondedAfter(val, powerIndex) \subseteq Validators
  BY DEF BondedAfter, Visited
<1>3. /\ BondedAfter(vs, powerIndex) = BondedAfter(val, powerIndex)
      /\ Visited(vs, powerIndex) = Visited(val, powerIndex)
  <2> HIDE DEF vs
  <2> QED
    BY <1>1, TokensDecide
<1> HIDE DEF vs
<1>4. \A v \in Validators : vs[v].unbondingHeight = 0
  BY <1>1 DEF AfterReset, UpToDate, BondedSet
<1>5. \A v \in Validators : UpToDate => (vs[v].bonded <=> v \in BondedSet)
  BY <1>1 DEF UpToDate, BondedSet
<1>6. {v \in Validators : vs[v].bonded} = BondedAfter(vs, powerIndex)
  BY <1>1, <1>2, <1>3
<1> QED
  BY <1>1, <1>3, <1>4, <1>5, <1>6 DEF vs

LEMMA ExportBonds == Inv /\ BondInv /\ Export => BondInv'
<1> SUFFICES ASSUME Inv, BondInv, Export PROVE BondInv'
  OBVIOUS
<1>c. ContextInv'
  BY ContextStep DEF BondInv, Next
<1> USE InvParts, <1>c
<1> USE DEF control, counters, staking
<1>1. CASE \/ WithdrawCommission \/ ListDelegations \/ WithdrawRewards \/ ClearRecords
           \/ ReinitializeValidator \/ BeginDelegations \/ ReinitializeDelegation
  <2>1. Collecting /\ Collecting'
        /\ UNCHANGED <<allowed, exportHeight, skipped, height, val, powerIndex, committed>>
    BY <1>1 DEF Collecting, WithdrawCommission, ListDelegations, ListDelegationsWith,
       WithdrawRewards, ClearRecords, ClearRecordsTo, ReinitializeValidator,
       BeginDelegations, ReinitializeDelegation
  <2>2. /\ phase \notin {"chain", "jail", "signing", "done", "panicked"}
        /\ phase' \notin {"chain", "jail", "signing", "done", "panicked"}
    BY <2>1 DEF Collecting
  <2>3. \A v \in Validators : InStep(v) /\ InStep(v)'
    BY <2>1 DEF BondInv, JailInv, InStep
  <2>4. JailInv'
    BY <2>1, <2>2, <2>3 DEF BondInv, JailInv, Running, AtHeight, AtZero
  <2> QED
    BY <2>1, <2>2, <2>4 DEF BondInv, UpToDate, BondedSet
<1>2. CASE ResetEntries
  <2>1. /\ phase = "delegations" /\ phase' = "jail" /\ todo' = Validators
        /\ UNCHANGED <<allowed, exportHeight, skipped, height, val, powerIndex, committed>>
    BY <1>2 DEF ResetEntries
  <2>2. \A v \in Validators : InStep(v) /\ InStep(v)'
    BY <2>1 DEF BondInv, JailInv, InStep, Collecting
  <2>3. JailInv'
    BY <2>1, <2>2 DEF BondInv, JailInv, Running, AtHeight, AtZero, Collecting
  <2> QED
    BY <2>1, <2>3 DEF BondInv, UpToDate, BondedSet
<1>3. CASE ResetValidator
  <2>1. PICK v \in todo : val' = [val EXCEPT ![v] = Reset(v)] /\ todo' = todo \ {v}
    BY <1>3 DEF ResetValidator
  <2>2. /\ phase = "jail" /\ phase' = "jail" /\ v \in Validators /\ todo \subseteq Validators
        /\ UNCHANGED <<allowed, exportHeight, skipped, height, powerIndex, committed>>
    BY <1>3, <2>1 DEF ResetValidator, Inv, TypeOK
  <2>3. Reset(v).unbondingHeight = 0 /\ Reset(v).tokens = val[v].tokens
    BY <2>2 DEF Reset, ValidatorRecords
  <2>4. /\ Reset(v).jailed <=> val[v].jailed \/ v \in Excluded
        /\ Reset(v).bonded = val[v].bonded
    <3> DEFINE j == val[v].jailed \/ (allowed # {} /\ v \notin allowed)
               one == [val[v] EXCEPT !.unbondingHeight = 0]
    <3>1. j \in BOOLEAN /\ one \in ValidatorRecords /\ one.bonded = val[v].bonded
      BY <2>2 DEF ValidatorRecords
    <3>2. Reset(v) = [one EXCEPT !.jailed = j]
      BY <2>2 DEF Reset, ValidatorRecords
    <3>3. j <=> val[v].jailed \/ v \in Excluded
      BY <2>2 DEF Excluded
    <3> HIDE DEF j, one
    <3>4. Reset(v).jailed = j
      BY <3>1, <3>2 DEF ValidatorRecords
    <3>5. Reset(v).bonded = val[v].bonded
      BY <3>1, <3>2 DEF ValidatorRecords
    <3> QED
      BY <3>3, <3>4, <3>5
  <2>5. \A w \in Validators : val'[w] = IF w = v THEN Reset(v) ELSE val[w]
    BY <2>1, <2>2
  <2>6. \A w \in Validators : val'[w].tokens = val[w].tokens /\ val'[w].bonded = val[w].bonded
    BY <2>3, <2>4, <2>5
  <2>7. /\ Visited(val', powerIndex) = Visited(val, powerIndex)
        /\ BondedAfter(val', powerIndex) = BondedAfter(val, powerIndex)
    BY <2>6, TokensDecide
  <2>8. /\ \A w \in todo' : InStep(w)'
        /\ \A w \in Validators \ todo' : AfterReset(w)'
    <3>1. /\ \A w \in todo : InStep(w)
          /\ \A w \in Validators \ todo : AfterReset(w)
      BY <2>2 DEF BondInv, JailInv
    <3>2. Excluded' = Excluded
      BY <2>2 DEF Excluded
    <3>3. AfterReset(v)'
      <4>1. val'[v].unbondingHeight = 0 /\ (val'[v].jailed <=> val[v].jailed \/ v \in Excluded)
        BY <2>2, <2>3, <2>4, <2>5
      <4> QED
        BY <2>1, <2>2, <3>1, <3>2, <4>1 DEF AfterReset, InStep
    <3>4. \A w \in Validators \ {v} : InStep(w)' = InStep(w) /\ AfterReset(w)' = AfterReset(w)
      BY <2>2, <2>5, <3>2 DEF AfterReset, InStep
    <3> QED
      BY <2>1, <2>2, <3>1, <3>3, <3>4
  <2>9. JailInv'
    BY <2>2, <2>8 DEF BondInv, JailInv, Running, AtHeight, AtZero, Collecting
  <2>10. BondedSet' = BondedSet
    BY <2>6 DEF BondedSet
  <2> QED
    BY <2>2, <2>7, <2>9, <2>10 DEF BondInv, UpToDate
<1>4. CASE CloseFails
  <2>1. /\ phase = "jail" /\ phase' = "done" /\ todo = {} /\ skipped' = TRUE
        /\ UNCHANGED <<allowed, exportHeight, height, val, powerIndex, committed>>
    BY <1>4 DEF CloseFails
  <2>2. exportHeight = 0 /\ \A v \in Validators : AfterReset(v)
    BY <2>1 DEF BondInv, JailInv, Running
  <2>3. JailInv'
    BY <2>1, <2>2 DEF BondInv, JailInv, Running, AtHeight, AtZero, Collecting, AfterReset
  <2> QED
    BY <2>1, <2>3 DEF BondInv, UpToDate, BondedSet
<1>5. CASE ApplyUpdates
  <2>1. /\ phase = "jail" /\ todo = {}
        /\ UNCHANGED <<allowed, exportHeight, skipped, height, powerIndex, committed>>
    BY <1>5 DEF ApplyUpdates
  <2>2. BadAddress \notin allowed /\ \A v \in Validators : AfterReset(v)
    BY <2>1 DEF BondInv, JailInv, Running
  <2>3. UpdateFails(val, powerIndex) <=> Refused
    <3>1. Visited(val, powerIndex) \subseteq powerIndex /\ powerIndex \subseteq Validators
      BY DEF Visited
    <3> QED
      BY <2>2, <3>1 DEF UpdateFails, Refused, AfterReset
  <2>4. CASE Refused
    <3>1. phase' = "panicked" /\ val' = val
      BY <1>5, <2>3, <2>4 DEF ApplyUpdates
    <3>2. Refused'
      BY <2>1, <2>4, <3>1 DEF Refused, Excluded
    <3>3. JailInv'
      BY <3>1, <3>2 DEF JailInv, Running, AtHeight, AtZero, Collecting
    <3> QED
      BY <2>1, <3>1, <3>3 DEF BondInv, UpToDate, BondedSet
  <2>5. CASE ~Refused
    <3>1. phase' = "signing" /\ val' = UpdateValidators(val, powerIndex, ctxHeight)
      BY <1>5, <2>3, <2>5 DEF ApplyUpdates
    <3>2. ctxHeight = height /\ height \in Nat
      BY <2>1 DEF BondInv, ContextInv
    <3>3. UpToDate \/ ctxHeight = 0
      BY <3>2 DEF BondInv
    <3>4. /\ BondedSet' = BondedAfter(val', powerIndex)
          /\ \A v \in Validators :
               /\ val'[v].unbondingHeight = 0 /\ val'[v].jailed = val[v].jailed
               /\ UpToDate => (val'[v].bonded <=> v \in BondedSet)
          /\ Visited(val', powerIndex) = Visited(val, powerIndex)
      BY <2>2, <3>1, <3>3, UpdateKeepsBonds DEF BondedSet
    <3>5. UpToDate' /\ (UpToDate => BondedSet' = BondedSet)
      BY <2>1, <3>4 DEF UpToDate, BondedSet
    <3>6. \A v \in Validators : AfterReset(v)'
      BY <2>1, <2>2, <3>4 DEF AfterReset, Excluded
    <3>7. ~Refused'
      BY <2>1, <2>5, <3>4 DEF Refused, Excluded
    <3>8. JailInv'
      BY <2>1, <3>1, <3>4, <3>6, <3>7
      DEF BondInv, JailInv, Running, AtHeight, AtZero, Collecting
    <3> QED
      BY <2>1, <3>1, <3>5, <3>8 DEF BondInv
  <2> QED
    BY <2>4, <2>5
<1>6. CASE ResetSigning
  <2>1. /\ phase = "signing" /\ phase' = "done"
        /\ UNCHANGED <<allowed, exportHeight, skipped, height, val, powerIndex, committed>>
    BY <1>6 DEF ResetSigning
  <2>2. JailInv'
    <3>1. exportHeight = 0 /\ ~Refused /\ \A v \in Validators : AfterReset(v)
      BY <2>1 DEF BondInv, JailInv, Running
    <3>2. Excluded' = Excluded
      BY <2>1 DEF Excluded
    <3>3. ~Refused' /\ \A v \in Validators : AfterReset(v)'
      BY <2>1, <3>1, <3>2 DEF Refused, AfterReset
    <3> QED
      BY <2>1, <3>1, <3>3 DEF JailInv, Running, AtHeight, AtZero, Collecting, AfterReset
  <2> QED
    BY <2>1, <2>2 DEF BondInv, UpToDate, BondedSet
<1> QED
  BY <1>1, <1>2, <1>3, <1>4, <1>5, <1>6 DEF Export

LEMMA InitBonds == Init => BondInv
<1> SUFFICES ASSUME Init PROVE BondInv
  OBVIOUS
<1>1. val \in [Validators -> ValidatorRecords]
  BY InitInv, InvParts
<1>2. \A v \in Validators : val[v].tokens = SelfStake /\ val[v].jailed = FALSE
                            /\ (val[v].bonded <=> v <= MaxValidators)
  BY DEF Init
<1>3. ASSUME NEW v \in Validators
      PROVE  v \in BondedAfter(val, Validators) <=> v <= MaxValidators
  <2>1. Above(val, Validators, v) = 1 .. (v - 1)
    BY <1>2, SizesAssumption DEF Above, Outranks, Validators
  <2>2. Cardinality(1 .. (v - 1)) = v - 1
    BY FS_Interval DEF Validators
  <2> QED
    BY <1>1, <1>2, <2>1, <2>2, BondedByRank, SizesAssumption DEF Validators
<1>4. BondedAfter(val, Validators) \subseteq Validators
  BY DEF BondedAfter, Visited
<1>5. UpToDate
  BY <1>2, <1>3, <1>4 DEF Init, UpToDate, BondedSet
<1>6. \A v \in Validators : InStep(v)
  BY <1>2 DEF Init, InStep
<1> QED
  BY <1>5, <1>6 DEF Init, BondInv, ContextInv, JailInv, Running, AtHeight, AtZero, Collecting

LEMMA NextBonds == Inv /\ BondInv /\ [Next]_vars => BondInv'
<1> SUFFICES ASSUME Inv, BondInv, [Next]_vars PROVE BondInv'
  OBVIOUS
<1> USE DEF control, counters, staking
<1>1. CASE Block
  BY <1>1, BlockBonds
<1>2. CASE ExportAtHeight
  <2>1. /\ phase = "chain" /\ phase' = "done" /\ exportHeight' = height + 1
        /\ height \in Nat /\ committed'.bonded = BondedSet
        /\ UNCHANGED <<skipped, height, val, powerIndex>>
    BY <1>2, InvParts DEF ExportAtHeight, Snapshot, BondedSet
  <2>2. \A v \in Validators : InStep(v) /\ InStep(v)'
    BY <2>1 DEF BondInv, JailInv, InStep
  <2>3. JailInv'
    BY <2>1, <2>2 DEF JailInv, Running, AtHeight, AtZero, Collecting
  <2>4. ContextInv'
    BY <1>2, ContextStep DEF BondInv, Next
  <2> QED
    BY <2>1, <2>3, <2>4 DEF BondInv, UpToDate, BondedSet
<1>3. ASSUME NEW addrs \in SUBSET Addresses, BeginZeroHeight(addrs)
      PROVE  BondInv'
  <2>1. /\ phase = "chain" /\ allowed' = addrs /\ exportHeight' = 0
        /\ phase' = IF BadAddress \in addrs THEN "panicked" ELSE "commission"
        /\ committed'.bonded = BondedSet
        /\ UNCHANGED <<skipped, height, val, powerIndex>>
    BY <1>3 DEF BeginZeroHeight, Snapshot, BondedSet
  <2>2. \A v \in Validators : InStep(v) /\ InStep(v)'
    BY <2>1 DEF BondInv, JailInv, InStep
  <2>3. JailInv'
    BY <2>1, <2>2 DEF JailInv, Running, AtHeight, AtZero, Collecting, Refused
  <2>4. ContextInv'
    BY <1>3, ContextStep DEF BondInv, Next
  <2> QED
    BY <2>1, <2>3, <2>4 DEF BondInv, UpToDate, BondedSet
<1>4. CASE Export
  BY <1>4, ExportBonds
<1>5. CASE Import
  <2> USE InvParts
  <2>1. /\ phase = "done" /\ phase' = "chain"
        /\ height' = (IF exportHeight = 0 THEN 0 ELSE exportHeight - 1)
        /\ powerIndex' = {v \in Validators : ~val[v].jailed}
        /\ UNCHANGED <<skipped, val>>
    BY <1>5 DEF Import
  <2>2. \A v \in Validators : InStep(v)'
    BY <2>1 DEF InStep
  <2>3. JailInv'
    BY <2>1, <2>2 DEF JailInv, Running, AtHeight, AtZero, Collecting
  <2>4. ASSUME ~skipped \/ height' > 0 PROVE UpToDate'
    <3>1. CASE exportHeight # 0
      <4>1. height' = height /\ \A v \in Validators : InStep(v)
        BY <2>1, <3>1 DEF BondInv, JailInv, AtHeight
      <4>2. powerIndex' = powerIndex
        BY <2>1, <4>1 DEF InStep
      <4> QED
        BY <2>1, <2>4, <4>1, <4>2 DEF BondInv, UpToDate, BondedSet
    <3>2. CASE exportHeight = 0
      <4>1. ~skipped
        BY <2>1, <2>4, <3>2
      <4>2. ~Refused /\ \A v \in Validators : AfterReset(v)
        BY <2>1, <3>2, <4>1 DEF BondInv, JailInv, AtZero
      <4>3. Excluded \cap Visited(val, powerIndex) = {}
        BY <4>2 DEF Refused
      <4>4. powerIndex' = powerIndex \ Excluded
        BY <2>1, <4>2 DEF AfterReset
      <4>5. BondedAfter(val, powerIndex \ Excluded) = BondedAfter(val, powerIndex)
        BY <4>3, UnvisitedIrrelevant
      <4> QED
        BY <2>1, <4>1, <4>4, <4>5 DEF BondInv, UpToDate, BondedSet
    <3> QED
      BY <3>1, <3>2
  <2>5. ContextInv'
    BY <1>5, ContextStep DEF BondInv, Next
  <2> QED
    BY <2>1, <2>3, <2>4, <2>5 DEF BondInv
<1>6. CASE UNCHANGED vars
  BY <1>6 DEF vars, BondInv, ContextInv, JailInv, Running, AtHeight, AtZero, Collecting, UpToDate,
              BondedSet, Refused, Excluded, AfterReset, InStep
<1> QED
  BY <1>1, <1>2, <1>3, <1>4, <1>5, <1>6 DEF Next

(* A complete zero-height export bonds and unbonds nobody.                 *)
THEOREM BondsSurvive == Spec => []BondedSetKept
<1>1. BondInv => BondedSetKept
  BY DEF BondInv, JailInv, AtZero, BondedSetKept, BondedSet
<1> QED
  BY <1>1, InitInv, NextInv, InitBonds, NextBonds, PTL DEF Spec

(* The export panics only for a bad address or an excluded visited one.    *)
THEOREM PanicsExplained == Spec => []PanicCause
<1>1. BondInv => PanicCause
  BY DEF BondInv, JailInv, AtZero, Refused, PanicCause
<1> QED
  BY <1>1, InitInv, NextInv, InitBonds, NextBonds, PTL DEF Spec

(***************************************************************************)
(* Sums of shares and quotients of stakes                                  *)
(***************************************************************************)

(***************************************************************************)
(* Tokens and shares                                                       *)
(***************************************************************************)

(* f sums the shares sh of the delegators up to each address.              *)
RunningSum(f, sh) ==
  /\ f \in [0 .. NumDelegators -> Int]
  /\ f[0] = 0
  /\ \A d \in Delegators : f[d] = f[d - 1] + sh[d]
  /\ \A i, j \in 0 .. NumDelegators : i <= j => f[i] <= f[j]

SumsTo(sh, total) == \E f : RunningSum(f, sh) /\ f[NumDelegators] = total

LEMMA NumDelegatorsNat == NumDelegators \in Nat /\ Delegators = 1 .. NumDelegators
  BY SizesAssumption DEF Delegators

(* Nobody has negative shares, and two delegators never more than all.     *)
LEMMA SumBounds ==
  ASSUME NEW sh \in [Delegators -> Int], NEW total \in Int, SumsTo(sh, total),
         NEW d \in Delegators, NEW e \in Delegators
  PROVE  /\ sh[d] >= 0 /\ sh[d] <= total
         /\ d # e => sh[d] + sh[e] <= total
<1>1. PICK f : RunningSum(f, sh) /\ f[NumDelegators] = total
  BY DEF SumsTo
<1>2. d \in 1 .. NumDelegators /\ e \in 1 .. NumDelegators /\ NumDelegators \in Nat
  BY NumDelegatorsNat
<1>3. \A x \in Delegators : /\ x - 1 \in 0 .. NumDelegators /\ x \in 0 .. NumDelegators
                            /\ f[x - 1] \in Int /\ f[x] \in Int
                            /\ 0 <= f[x - 1] /\ f[x - 1] <= f[x] /\ f[x] <= total
                            /\ f[x] = f[x - 1] + sh[x]
  <2> TAKE x \in Delegators
  <2>1. x - 1 \in 0 .. NumDelegators /\ x \in 0 .. NumDelegators
        /\ 0 \in 0 .. NumDelegators /\ NumDelegators \in 0 .. NumDelegators
        /\ 0 <= x - 1 /\ x - 1 <= x /\ x <= NumDelegators
    BY NumDelegatorsNat
  <2> QED
    BY <1>1, <2>1 DEF RunningSum
<1>4. \A x \in Delegators : sh[x] \in Int
  OBVIOUS
<1>5. \A x, y \in Delegators : x < y => f[x] <= f[y - 1]
  <2> TAKE x, y \in Delegators
  <2>1. x < y => x <= y - 1 /\ x \in 0 .. NumDelegators /\ y - 1 \in 0 .. NumDelegators
    BY NumDelegatorsNat
  <2> QED
    BY <1>1, <2>1 DEF RunningSum
<1>6. d < e \/ e < d \/ d = e
  BY <1>2
<1> QED
  BY <1>3, <1>4, <1>5, <1>6

(* Changing one delegator's shares changes the sum by as much.             *)
LEMMA SumChange ==
  ASSUME NEW sh \in [Delegators -> Int], NEW total \in Int, SumsTo(sh, total),
         NEW d \in Delegators, NEW n \in Nat
  PROVE  SumsTo([sh EXCEPT ![d] = n], total + n - sh[d])
<1>1. PICK f : RunningSum(f, sh) /\ f[NumDelegators] = total
  BY DEF SumsTo
<1> DEFINE x == n - sh[d]
           g == [i \in 0 .. NumDelegators |-> IF i < d THEN f[i] ELSE f[i] + x]
           sg == [sh EXCEPT ![d] = n]
<1>2. d \in 1 .. NumDelegators /\ NumDelegators \in Nat /\ sh[d] \in Int /\ x \in Int
  BY NumDelegatorsNat
<1>3. f \in [0 .. NumDelegators -> Int] /\ f[0] = 0
      /\ \A i, j \in 0 .. NumDelegators : i <= j => f[i] <= f[j]
      /\ \A e \in Delegators : f[e] = f[e - 1] + sh[e]
  BY <1>1 DEF RunningSum
<1>4. g \in [0 .. NumDelegators -> Int]
  BY <1>2, <1>3
<1>5. g[0] = 0
  BY <1>2, <1>3
<1>6. ASSUME NEW e \in Delegators PROVE g[e] = g[e - 1] + sg[e]
  <2>1. e \in 1 .. NumDelegators /\ e - 1 \in 0 .. NumDelegators /\ sh[e] \in Int
        /\ f[e - 1] \in Int /\ f[e] = f[e - 1] + sh[e]
    BY <1>2, <1>3, NumDelegatorsNat
  <2>2. g[e] = (IF e < d THEN f[e] ELSE f[e] + x)
        /\ g[e - 1] = (IF e - 1 < d THEN f[e - 1] ELSE f[e - 1] + x)
    BY <2>1, <1>2
  <2>3. sg[e] = IF e = d THEN n ELSE sh[e]
    OBVIOUS
  <2> HIDE DEF g, sg
  <2> QED
    BY <1>2, <2>1, <2>2, <2>3
<1>7. ASSUME NEW i \in 0 .. NumDelegators, NEW j \in 0 .. NumDelegators, i <= j
      PROVE  g[i] <= g[j]
  <2>1. f[i] \in Int /\ f[j] \in Int /\ f[i] <= f[j]
    BY <1>3, <1>7
  <2>2. g[i] = (IF i < d THEN f[i] ELSE f[i] + x) /\ g[j] = (IF j < d THEN f[j] ELSE f[j] + x)
    OBVIOUS
  <2>3. ASSUME i < d, ~(j < d) PROVE f[i] <= f[j] + x
    <3>1. d - 1 \in 0 .. NumDelegators /\ d \in 0 .. NumDelegators /\ i <= d - 1 /\ d <= j
      BY <1>2, <2>3
    <3>2. f[i] <= f[d - 1] /\ f[d] <= f[j] /\ f[d] = f[d - 1] + sh[d] /\ f[d - 1] \in Int
      BY <1>3, <3>1
    <3> QED
      BY <1>2, <2>1, <3>2
  <2> HIDE DEF g
  <2>4. CASE i < d /\ j < d
    BY <2>1, <2>2, <2>4
  <2>5. CASE i < d /\ ~(j < d)
    BY <2>2, <2>3, <2>5
  <2>6. CASE ~(i < d)
    BY <1>2, <1>7, <2>1, <2>2, <2>6
  <2> QED
    BY <2>4, <2>5, <2>6
<1>8. g[NumDelegators] = total + n - sh[d]
  BY <1>1, <1>2
<1> HIDE DEF g, sg
<1>9. RunningSum(g, sg)
  BY <1>4, <1>5, <1>6, <1>7 DEF RunningSum
<1> QED
  BY <1>8, <1>9 DEF SumsTo, sg

(* Multiplication keeps and reflects the order.                            *)
LEMMA TimesMonotone ==
  ASSUME NEW a \in Int, NEW b \in Int, NEW c \in Nat
  PROVE  /\ a <= b => a * c <= b * c
         /\ c > 0 /\ a * c < b * c => a < b
<1>1. a <= b => a * c <= b * c
  OBVIOUS
<1>2. b <= a => b * c <= a * c
  OBVIOUS
<1> QED
  BY <1>1, <1>2

LEMMA Quotient ==
  ASSUME NEW a \in Int, NEW b \in Nat, b > 0
  PROVE  LET q == a \div b IN q \in Int /\ q * b <= a /\ a < (q + 1) * b
  OBVIOUS

(* Tokens behind a delegation: never more than there are, and taking them  *)
(* leaves no more tokens than shares.                                      *)
LEMMA StakeArithmetic ==
  ASSUME NEW s \in Nat, NEW t \in Nat, NEW T \in Nat, T > 0, s <= T, t <= T
  PROVE  LET q == Quo(s * t, T) IN q \in 0 .. t /\ t - q <= T - s
<1> DEFINE q == Quo(s * t, T)
<1>1. s * t \in Nat
  OBVIOUS
<1>2. q \in Int /\ q * T <= s * t /\ s * t < (q + 1) * T
  BY <1>1, Quotient DEF Quo
<1> HIDE DEF q
<1>3. q >= 0
  <2>1. 0 * T < (q + 1) * T
    BY <1>1, <1>2
  <2>2. 0 < q + 1
    BY <1>2, <2>1, TimesMonotone
  <2> QED
    BY <1>2, <2>2
<1>4. q <= t
  <2>1. s * t <= T * t
    BY TimesMonotone
  <2>2. T * t = t * T /\ t * T < (t + 1) * T
    OBVIOUS
  <2>3. q * T < (t + 1) * T
    BY <1>1, <1>2, <2>1, <2>2
  <2>4. q < t + 1
    BY <1>2, <2>3, TimesMonotone
  <2> QED
    BY <1>2, <2>4
<1>5. t + s - T <= q
  <2>1. (T - s) * (T - t) >= 0
    BY T - s \in Nat, T - t \in Nat
  <2>2. (T - s) * (T - t) = T * T - T * t - s * T + s * t
    OBVIOUS
  <2>3. (t + s - T) * T = T * t + s * T - T * T
    OBVIOUS
  <2>4. (t + s - T) * T <= s * t
    <3> DEFINE A == T * T
               B == T * t
               C == s * T
               E == s * t
    <3>1. A \in Int /\ B \in Int /\ C \in Int /\ E \in Int
      OBVIOUS
    <3>2. A - B - C + E >= 0
      BY <2>1, <2>2
    <3>3. (t + s - T) * T = B + C - A
      BY <2>3
    <3> HIDE DEF A, B, C, E
    <3> QED
      BY <3>1, <3>2, <3>3 DEF E
  <2>5. (t + s - T) * T < (q + 1) * T
    BY <1>1, <1>2, <2>4
  <2>6. t + s - T < q + 1
    BY <1>2, <2>5, TimesMonotone
  <2> QED
    BY <1>2, <2>6
<1> QED
  BY <1>2, <1>3, <1>4, <1>5 DEF q

(* Shares given for tokens: at least one per token, exactly one per token  *)
(* on a validator that was never slashed.                                  *)
LEMMA SharesArithmetic ==
  ASSUME NEW s \in Nat, NEW t \in Nat, NEW T \in Nat, t > 0, t <= T
  PROVE  LET q == Quo(s * T, t) IN q \in Nat /\ s <= q /\ (t = T => q = s)
<1> DEFINE q == Quo(s * T, t)
<1>1. s * T \in Nat
  OBVIOUS
<1>2. q \in Int /\ q * t <= s * T /\ s * T < (q + 1) * t
  BY <1>1, Quotient DEF Quo
<1> HIDE DEF q
<1>3. s * t <= s * T
  <2>1. t * s <= T * s
    BY TimesMonotone
  <2> QED
    BY <2>1
<1>4. s < q + 1
  <2>1. s * t < (q + 1) * t
    BY <1>1, <1>2, <1>3
  <2> QED
    BY <1>2, <2>1, TimesMonotone
<1>5. ASSUME t = T PROVE q < s + 1
  <2>1. s * t < (s + 1) * t
    OBVIOUS
  <2>2. q * t < (s + 1) * t
    BY <1>1, <1>2, <1>5, <2>1
  <2> QED
    BY <1>2, <2>2, TimesMonotone
<1> QED
  BY <1>2, <1>4, <1>5 DEF q

(***************************************************************************)
(* The ledger of tokens and shares                                         *)
(***************************************************************************)

(* The shares of a validator add up to its total, its operator has some,   *)
(* and there are no more tokens than shares: slashing only removes tokens. *)
Ledger(sh, x, v) ==
  /\ SumsTo(sh[v], x[v].total)
  /\ sh[v][v] > 0
  /\ x[v].tokens \in 0 .. x[v].total

LedgerInv == \A v \in Validators : Ledger(shares, val, v)

LEMMA LedgerFacts ==
  ASSUME Inv, LedgerInv, NEW v \in Validators, NEW d \in Delegators
  PROVE  /\ val[v].total \in Nat \ {0} /\ val[v].tokens \in 0 .. val[v].total
         /\ shares[v][d] \in 0 .. val[v].total
         /\ d # v => shares[v][d] < val[v].total
         /\ Stake(v, d) \in 0 .. val[v].tokens
         /\ val[v].tokens - Stake(v, d) <= val[v].total - shares[v][d]
         /\ val[v].tokens > 0 => SharesFor(v) \in Nat /\ SharesFor(v) >= SelfStake
         /\ val[v].tokens = val[v].total => SharesFor(v) = SelfStake
<1>1. /\ shares[v] \in [Delegators -> Int] /\ val[v].total \in Int /\ val[v].tokens \in Int
      /\ SumsTo(shares[v], val[v].total) /\ shares[v][v] > 0
      /\ val[v].tokens \in 0 .. val[v].total /\ v \in Delegators
  BY InvParts, SizesAssumption DEF LedgerInv, Ledger, ValidatorRecords, Validators, Delegators
<1>2. /\ shares[v][d] >= 0 /\ shares[v][d] <= val[v].total
      /\ shares[v][v] <= val[v].total
      /\ d # v => shares[v][d] + shares[v][v] <= val[v].total
  BY <1>1, SumBounds
<1>3. /\ shares[v][d] \in Nat /\ val[v].total \in Nat /\ val[v].total > 0
      /\ val[v].tokens \in Nat /\ val[v].tokens <= val[v].total
      /\ d # v => shares[v][d] < val[v].total
  BY <1>1, <1>2
<1>4. Stake(v, d) \in 0 .. val[v].tokens
      /\ val[v].tokens - Stake(v, d) <= val[v].total - shares[v][d]
  BY <1>2, <1>3, StakeArithmetic DEF Stake
<1>5. val[v].tokens > 0 =>
        /\ SharesFor(v) \in Nat /\ SelfStake <= SharesFor(v)
        /\ val[v].tokens = val[v].total => SharesFor(v) = SelfStake
  BY <1>3, SharesArithmetic, SizesAssumption DEF SharesFor
<1>6. SelfStake \in Nat /\ SharesFor(v) \in Int
  BY SizesAssumption, StakeInt
<1> QED
  BY <1>1, <1>2, <1>3, <1>4, <1>5, <1>6

LEMMA CommitLedger ==
  ASSUME Inv, NEW vs \in [Validators -> ValidatorRecords], NEW index, CommitBlock(vs, index),
         \A v \in Validators : Ledger(shares', vs, v)
  PROVE  LedgerInv'
<1>1. val' = UpdateValidators(vs, index, height + 1) /\ height + 1 \in Nat
  BY InvParts DEF CommitBlock
<1>2. \A v \in Validators : val'[v].tokens = vs[v].tokens /\ val'[v].total = vs[v].total
  BY <1>1, UpdateFacts
<1> QED
  BY <1>2 DEF LedgerInv, Ledger

LEMMA JoinedLeftFields ==
  ASSUME Inv, NEW v \in Validators, NEW d \in Delegators, NEW u \in Validators,
         NEW vs \in [Validators -> ValidatorRecords]
  PROVE  /\ Joined(v)[u].tokens = IF u = v THEN val[u].tokens + SelfStake ELSE val[u].tokens
         /\ Joined(v)[u].total = IF u = v THEN val[u].total + SharesFor(v) ELSE val[u].total
         /\ Left(vs, d, v)[u].tokens
              = IF u = v THEN vs[u].tokens - Stake(v, d) ELSE vs[u].tokens
         /\ Left(vs, d, v)[u].total
              = IF u = v THEN vs[u].total - shares[v][d] ELSE vs[u].total
<1>1. val \in [Validators -> ValidatorRecords]
  BY InvParts
<1>2. Joined(v)[u] = IF u = v THEN [val[v] EXCEPT !.tokens = val[v].tokens + SelfStake,
                                                   !.total  = val[v].total + SharesFor(v)]
                              ELSE val[u]
  BY <1>1 DEF Joined, ValidatorRecords
<1>3. Left(vs, d, v)[u] = IF u = v THEN [vs[v] EXCEPT !.tokens = vs[v].tokens - Stake(v, d),
                                                       !.total  = vs[v].total - shares[v][d]]
                                   ELSE vs[u]
  BY DEF Left, ValidatorRecords
<1> DEFINE a == val[v].tokens + SelfStake
           b == val[v].total + SharesFor(v)
           m == vs[v].tokens - Stake(v, d)
           n == vs[v].total - shares[v][d]
<1>4. /\ Joined(v)[u].tokens = IF u = v THEN a ELSE val[u].tokens
      /\ Joined(v)[u].total = IF u = v THEN b ELSE val[u].total
  <2>1. Joined(v)[u] = IF u = v THEN [val[v] EXCEPT !.tokens = a, !.total = b] ELSE val[u]
    BY <1>2
  <2> HIDE DEF a, b
  <2> QED
    BY <1>1, <2>1 DEF ValidatorRecords
<1>5. /\ Left(vs, d, v)[u].tokens = IF u = v THEN m ELSE vs[u].tokens
      /\ Left(vs, d, v)[u].total = IF u = v THEN n ELSE vs[u].total
  <2>1. Left(vs, d, v)[u] = IF u = v THEN [vs[v] EXCEPT !.tokens = m, !.total = n] ELSE vs[u]
    BY <1>3
  <2> HIDE DEF m, n
  <2> QED
    BY <2>1 DEF ValidatorRecords
<1> QED
  BY <1>4, <1>5

LEMMA LedgerChange ==
  ASSUME Inv, LedgerInv, NEW v \in Validators, NEW d \in Delegators, NEW n \in Nat
  PROVE  SumsTo([shares[v] EXCEPT ![d] = n], val[v].total + n - shares[v][d])
<1>1. shares[v] \in [Delegators -> Int] /\ val[v].total \in Int
  BY InvParts DEF ValidatorRecords
<1>2. SumsTo(shares[v], val[v].total)
  BY DEF LedgerInv, Ledger
<1> QED
  BY <1>1, <1>2, SumChange

LEMMA SelfIsDelegator == Validators \subseteq Delegators
  BY SizesAssumption DEF Validators, Delegators

LEMMA BlockLedger == Inv /\ LedgerInv /\ Block => LedgerInv'
<1> SUFFICES ASSUME Inv, LedgerInv, Block PROVE LedgerInv'
  OBVIOUS
<1> USE InvParts
<1>0. \A v \in Validators : Ledger(shares, val, v)
  BY DEF LedgerInv
<1>1. ASSUME NEW v \in Validators, BlockReward(v) PROVE LedgerInv'
  BY <1>0, <1>1, CommitLedger DEF BlockReward
<1>2. ASSUME NEW v \in Validators, BlockUnjail(v) PROVE LedgerInv'
  <2> DEFINE vs == [val EXCEPT ![v].jailed = FALSE]
  <2>1. CommitBlock(vs, powerIndex \cup {v}) /\ shares' = shares
    BY <1>2 DEF BlockUnjail
  <2>2. vs \in [Validators -> ValidatorRecords]
    BY DEF ValidatorRecords
  <2>3. \A w \in Validators : vs[w].tokens = val[w].tokens /\ vs[w].total = val[w].total
    BY DEF ValidatorRecords
  <2> HIDE DEF vs
  <2> QED
    BY <1>0, <2>1, <2>2, <2>3, CommitLedger DEF Ledger
<1>3. ASSUME NEW v \in Validators, NEW keep \in {0, 1}, BlockSlash(v, keep) PROVE LedgerInv'
  <2> DEFINE t == (val[v].tokens * keep) \div 2
             vs == [val EXCEPT ![v].tokens = t, ![v].jailed = TRUE]
  <2>0. [val EXCEPT ![v].tokens = (@ * keep) \div 2, ![v].jailed = TRUE] = vs
    OBVIOUS
  <2>1. CommitBlock(vs, powerIndex \ {v}) /\ shares' = shares
    BY <1>3, <2>0 DEF BlockSlash
  <2>2. t \in 0 .. val[v].tokens
    <3>1. val[v].tokens \in Nat
      BY SelfIsDelegator, LedgerFacts
    <3>2. keep = 0 \/ keep = 1
      OBVIOUS
    <3> QED
      BY <3>1, <3>2
  <2>3. t \in Int /\ t <= val[v].tokens /\ 0 <= t /\ val[v].tokens \in 0 .. val[v].total
        /\ val[v].total \in Nat
    BY <2>2, SelfIsDelegator, LedgerFacts
  <2> HIDE DEF t
  <2>4. vs \in [Validators -> ValidatorRecords]
    BY <2>3 DEF ValidatorRecords
  <2>5. \A w \in Validators : /\ vs[w].tokens = IF w = v THEN t ELSE val[w].tokens
                              /\ vs[w].total = val[w].total
    BY DEF ValidatorRecords
  <2> HIDE DEF vs
  <2>6. \A w \in Validators : Ledger(shares', vs, w)
    BY <1>0, <2>1, <2>3, <2>5 DEF Ledger
  <2> QED
    BY <2>1, <2>4, <2>6, CommitLedger
<1>4. ASSUME NEW v \in Validators, NEW d \in Delegators, BlockDelegate(d, v) PROVE LedgerInv'
  <2>1. /\ CommitBlock(Joined(v), powerIndex) /\ val[v].tokens > 0 /\ shares[v][d] = 0
        /\ shares' = [shares EXCEPT ![v][d] = SharesFor(v)]
    BY <1>4 DEF BlockDelegate, AddDelegation
  <2>2. /\ SharesFor(v) \in Nat /\ SharesFor(v) >= SelfStake /\ val[v].total \in Nat
        /\ val[v].tokens \in 0 .. val[v].total /\ SelfStake \in Nat \ {0}
    BY <2>1, LedgerFacts, SizesAssumption
  <2>3. Joined(v) \in [Validators -> ValidatorRecords]
    BY JoinedLeftTypes
  <2>4. \A w \in Validators :
          /\ Joined(v)[w].tokens = IF w = v THEN val[w].tokens + SelfStake ELSE val[w].tokens
          /\ Joined(v)[w].total = IF w = v THEN val[w].total + SharesFor(v) ELSE val[w].total
    BY JoinedLeftFields
  <2> DEFINE one == [shares[v] EXCEPT ![d] = SharesFor(v)]
  <2>5. SumsTo(one, val[v].total + SharesFor(v))
    <3>1. SumsTo(one, val[v].total + SharesFor(v) - shares[v][d])
      BY <2>2, LedgerChange
    <3> QED
      BY <2>1, <2>2, <3>1
  <2>6. \A w \in Validators : shares'[w] = IF w = v THEN one ELSE shares[w]
    BY <2>1
  <2>7. one[v] > 0
    BY <1>0, <2>2, SelfIsDelegator DEF Ledger
  <2> HIDE DEF one
  <2>8. ASSUME NEW w \in Validators PROVE Ledger(shares', Joined(v), w)
    BY <1>0, <2>2, <2>4, <2>5, <2>6, <2>7 DEF Ledger
  <2> QED
    BY <2>1, <2>3, <2>8, CommitLedger
<1>5. ASSUME NEW v \in Validators, NEW d \in Delegators, BlockUndelegate(d, v) PROVE LedgerInv'
  <2>1. /\ CommitBlock(Left(val, d, v), powerIndex) /\ d # v
        /\ shares' = [shares EXCEPT ![v][d] = 0]
    BY <1>5 DEF BlockUndelegate, Leaves
  <2>2. /\ Stake(v, d) \in 0 .. val[v].tokens /\ shares[v][d] \in 0 .. val[v].total
        /\ val[v].tokens - Stake(v, d) <= val[v].total - shares[v][d]
        /\ val[v].total \in Nat /\ val[v].tokens \in 0 .. val[v].total
    BY LedgerFacts
  <2>3. Left(val, d, v) \in [Validators -> ValidatorRecords]
    BY JoinedLeftTypes
  <2>4. \A w \in Validators :
          /\ Left(val, d, v)[w].tokens
               = IF w = v THEN val[w].tokens - Stake(v, d) ELSE val[w].tokens
          /\ Left(val, d, v)[w].total
               = IF w = v THEN val[w].total - shares[v][d] ELSE val[w].total
    BY JoinedLeftFields
  <2> DEFINE one == [shares[v] EXCEPT ![d] = 0]
  <2>5. SumsTo(one, val[v].total - shares[v][d])
    <3>1. SumsTo(one, val[v].total + 0 - shares[v][d])
      BY <2>2, LedgerChange
    <3> QED
      BY <2>2, <3>1
  <2>6. \A w \in Validators : shares'[w] = IF w = v THEN one ELSE shares[w]
    BY <2>1
  <2>7. one[v] > 0
    BY <1>0, <2>1, SelfIsDelegator DEF Ledger
  <2> HIDE DEF one
  <2>8. ASSUME NEW w \in Validators PROVE Ledger(shares', Left(val, d, v), w)
    BY <1>0, <2>2, <2>4, <2>5, <2>6, <2>7 DEF Ledger
  <2> QED
    BY <2>1, <2>3, <2>8, CommitLedger
<1>6. ASSUME NEW v \in Validators, NEW w \in Validators, NEW d \in Delegators,
             BlockRedelegate(d, v, w)
      PROVE  LedgerInv'
  <2> DEFINE vs == Left(Joined(w), d, v)
  <2>1. /\ CommitBlock(vs, powerIndex) /\ d # v /\ v # w
        /\ shares[w][d] = 0 /\ val[w].tokens = val[w].total
        /\ shares' = [shares EXCEPT ![v][d] = 0, ![w][d] = SelfStake]
    BY <1>6 DEF BlockRedelegate, Leaves
  <2>2. /\ Stake(v, d) \in 0 .. val[v].tokens /\ shares[v][d] \in 0 .. val[v].total
        /\ val[v].tokens - Stake(v, d) <= val[v].total - shares[v][d]
        /\ val[v].total \in Nat /\ val[v].tokens \in 0 .. val[v].total
        /\ val[w].total \in Nat /\ SharesFor(w) = SelfStake /\ SelfStake \in Nat \ {0}
    BY <2>1, LedgerFacts, SizesAssumption
  <2>3. vs \in [Validators -> ValidatorRecords] /\ Joined(w) \in [Validators -> ValidatorRecords]
    BY JoinedLeftTypes
  <2>4. \A u \in Validators :
          /\ Joined(w)[u].tokens = IF u = w THEN val[u].tokens + SelfStake ELSE val[u].tokens
          /\ Joined(w)[u].total = IF u = w THEN val[u].total + SelfStake ELSE val[u].total
    BY <2>2, JoinedLeftFields
  <2>5. \A u \in Validators :
          /\ vs[u].tokens = IF u = v THEN Joined(w)[u].tokens - Stake(v, d) ELSE Joined(w)[u].tokens
          /\ vs[u].total = IF u = v THEN Joined(w)[u].total - shares[v][d] ELSE Joined(w)[u].total
    BY <2>3, JoinedLeftFields
  <2>6. \A u \in Validators :
          /\ vs[u].tokens = CASE u = v -> val[u].tokens - Stake(v, d)
                              [] u = w -> val[u].tokens + SelfStake
                              [] OTHER -> val[u].tokens
          /\ vs[u].total = CASE u = v -> val[u].total - shares[v][d]
                             [] u = w -> val[u].total + SelfStake
                             [] OTHER -> val[u].total
    BY <2>1, <2>4, <2>5
  <2> DEFINE one == [shares[v] EXCEPT ![d] = 0]
             two == [shares[w] EXCEPT ![d] = SelfStake]
  <2>7. SumsTo(one, val[v].total - shares[v][d])
    <3>1. SumsTo(one, val[v].total + 0 - shares[v][d])
      BY <2>2, LedgerChange
    <3> QED
      BY <2>2, <3>1
  <2>8. SumsTo(two, val[w].total + SelfStake)
    <3>1. SumsTo(two, val[w].total + SelfStake - shares[w][d])
      BY <2>2, LedgerChange
    <3> QED
      BY <2>1, <2>2, <3>1
  <2>9. \A u \in Validators : shares'[u] = CASE u = v -> one [] u = w -> two
                                             [] OTHER -> shares[u]
    BY <2>1
  <2>10. one[v] > 0 /\ two[w] > 0
    BY <1>0, <2>1, <2>2, SelfIsDelegator DEF Ledger
  <2> HIDE DEF one, two, vs
  <2>11. ASSUME NEW u \in Validators PROVE Ledger(shares', vs, u)
    <3>1. CASE u = v
      <4>1. /\ vs[v].tokens = val[v].tokens - Stake(v, d)
            /\ vs[v].total = val[v].total - shares[v][d] /\ shares'[v] = one
        BY <2>1, <2>6, <2>9
      <4>2. vs[v].tokens \in 0 .. vs[v].total
        BY <2>2, <4>1
      <4> QED
        BY <2>7, <2>10, <3>1, <4>1, <4>2 DEF Ledger
    <3>2. CASE u = w
      <4>1. /\ vs[w].tokens = val[w].tokens + SelfStake
            /\ vs[w].total = val[w].total + SelfStake /\ shares'[w] = two
        BY <2>1, <2>6, <2>9
      <4>2. vs[w].tokens \in 0 .. vs[w].total
        BY <2>1, <2>2, <4>1
      <4> QED
        BY <2>8, <2>10, <3>2, <4>1, <4>2 DEF Ledger
    <3>3. CASE u # v /\ u # w
      BY <1>0, <2>6, <2>9, <3>3 DEF Ledger
    <3> QED
      BY <3>1, <3>2, <3>3
  <2> QED
    BY <2>1, <2>3, <2>11, CommitLedger
<1> QED
  BY <1>1, <1>2, <1>3, <1>4, <1>5, <1>6 DEF Block

(* The export and the import move neither tokens nor shares.               *)
LEMMA ExportKeepsStakes ==
  ASSUME Inv, Export \/ Import \/ ExportAtHeight
           \/ \E addrs \in SUBSET Addresses : BeginZeroHeight(addrs)
           \/ UNCHANGED vars
  PROVE  /\ shares' = shares
         /\ \A v \in Validators : val'[v].tokens = val[v].tokens /\ val'[v].total = val[v].total
<1> USE InvParts
<1>1. CASE ResetValidator
  <2>1. PICK v \in todo : val' = [val EXCEPT ![v] = Reset(v)]
    BY <1>1 DEF ResetValidator
  <2>2. v \in Validators
    BY <1>1, <2>1 DEF ResetValidator, Inv, TypeOK
  <2>3. Reset(v).tokens = val[v].tokens /\ Reset(v).total = val[v].total
    BY <2>2 DEF Reset, ValidatorRecords
  <2> QED
    BY <1>1, <2>1, <2>2, <2>3 DEF ResetValidator
<1>2. CASE ApplyUpdates
  <2>1. val' = val \/ val' = UpdateValidators(val, powerIndex, ctxHeight)
    BY <1>2 DEF ApplyUpdates
  <2> QED
    BY <1>2, <2>1, UpdateFacts DEF ApplyUpdates
<1>3. CASE ~ResetValidator /\ ~ApplyUpdates
  BY <1>3 DEF Export, Import, ExportAtHeight, BeginZeroHeight, vars, staking, WithdrawCommission,
     ListDelegations, ListDelegationsWith, WithdrawRewards, ClearRecords, ClearRecordsTo,
     ReinitializeValidator, BeginDelegations, ReinitializeDelegation, ResetEntries, CloseFails,
     ResetSigning
<1> QED
  BY <1>1, <1>2, <1>3

LEMMA NextLedger == Inv /\ LedgerInv /\ [Next]_vars => LedgerInv'
<1> SUFFICES ASSUME Inv, LedgerInv, [Next]_vars PROVE LedgerInv'
  OBVIOUS
<1>1. CASE Block
  BY <1>1, BlockLedger
<1>2. CASE ~Block
  <2>1. /\ shares' = shares
        /\ \A v \in Validators : val'[v].tokens = val[v].tokens /\ val'[v].total = val[v].total
    BY <1>2, ExportKeepsStakes DEF Next
  <2> QED
    BY <2>1 DEF LedgerInv, Ledger
<1> QED
  BY <1>1, <1>2

LEMMA InitLedger == Init => LedgerInv
<1> SUFFICES ASSUME Init, NEW v \in Validators PROVE Ledger(shares, val, v)
  BY DEF LedgerInv
<1> DEFINE f == [i \in 0 .. NumDelegators |-> IF i < v THEN 0 ELSE SelfStake]
<1>1. /\ shares[v] = [d \in Delegators |-> IF d = v THEN SelfStake ELSE 0]
      /\ val[v].total = SelfStake /\ val[v].tokens = SelfStake
      /\ SelfStake \in Nat \ {0} /\ v \in 1 .. NumDelegators /\ NumDelegators \in Nat
  BY SizesAssumption, SelfIsDelegator, NumDelegatorsNat DEF Init
<1>2. RunningSum(f, shares[v])
  <2>1. \A d \in Delegators : f[d] = f[d - 1] + shares[v][d]
    <3> TAKE d \in Delegators
    <3>1. d \in 1 .. NumDelegators /\ d \in 0 .. NumDelegators /\ d - 1 \in 0 .. NumDelegators
      BY NumDelegatorsNat
    <3>2. f[d] = (IF d < v THEN 0 ELSE SelfStake) /\ f[d - 1] = (IF d - 1 < v THEN 0 ELSE SelfStake)
      BY <3>1
    <3>3. shares[v][d] = IF d = v THEN SelfStake ELSE 0
      BY <1>1
    <3> HIDE DEF f
    <3> QED
      BY <1>1, <3>1, <3>2, <3>3
  <2>2. \A i, j \in 0 .. NumDelegators : i <= j => f[i] <= f[j]
    <3>1. \A i \in 0 .. NumDelegators : f[i] = IF i < v THEN 0 ELSE SelfStake
      OBVIOUS
    <3> HIDE DEF f
    <3> QED
      BY <1>1, <3>1
  <2> QED
    <3>1. f \in [0 .. NumDelegators -> Int] /\ f[0] = 0
      BY <1>1
    <3> HIDE DEF f
    <3> QED
      BY <2>1, <2>2, <3>1 DEF RunningSum
<1>3. f[NumDelegators] = SelfStake
  BY <1>1
<1>4. shares[v][v] = SelfStake
  BY <1>1, SelfIsDelegator
<1> HIDE DEF f
<1> QED
  BY <1>1, <1>2, <1>3, <1>4 DEF Ledger, SumsTo

(***************************************************************************)
(* Reference counts                                                        *)
(***************************************************************************)

(* The records that point at each period: the starting infos of the        *)
(* delegators in D, the slash events, and the open period.                 *)
StartsAt(r, D, p) == {d \in D : r.starting[d].period = p}
SlashesAt(r, p) == {e \in r.slashes : e.period = p}

Pointers(r, D) ==
  [p \in Int |-> Cardinality(StartsAt(r, D, p)) + Cardinality(SlashesAt(r, p))
                   + (IF p = r.period - 1 THEN 1 ELSE 0)]

(* h holds exactly the periods that c counts, with their counts.           *)
Counts(h, c) ==
  /\ c \in [Int -> Nat]
  /\ \A p \in Int : p \in DOMAIN h <=> c[p] > 0
  /\ \A p \in DOMAIN h : h[p].refs = c[p]

Exact(r, D) ==
  /\ D \subseteq DOMAIN r.starting
  /\ IsFiniteSet(r.slashes)
  /\ \A p \in DOMAIN r.historical : p < r.period
  /\ Counts(r.historical, Pointers(r, D))

LEMMA FiniteDelegators == IsFiniteSet(Delegators)
  BY FS_Interval, SizesAssumption DEF Delegators

LEMMA PointersNat ==
  ASSUME NEW r, NEW D, IsFiniteSet(D), IsFiniteSet(r.slashes)
  PROVE  /\ \A p : /\ IsFiniteSet(StartsAt(r, D, p)) /\ IsFiniteSet(SlashesAt(r, p))
                   /\ Cardinality(StartsAt(r, D, p)) \in Nat
                   /\ Cardinality(SlashesAt(r, p)) \in Nat
         /\ Pointers(r, D) \in [Int -> Nat]
<1>1. ASSUME NEW p
      PROVE  /\ IsFiniteSet(StartsAt(r, D, p)) /\ IsFiniteSet(SlashesAt(r, p))
  <2>1. StartsAt(r, D, p) \in SUBSET D /\ SlashesAt(r, p) \in SUBSET r.slashes
    BY DEF StartsAt, SlashesAt
  <2> QED
    BY <2>1, FS_Subset
<1>2. \A p : /\ Cardinality(StartsAt(r, D, p)) \in Nat
             /\ Cardinality(SlashesAt(r, p)) \in Nat
  BY <1>1, FS_CardinalityType
<1> QED
  BY <1>1, <1>2 DEF Pointers

LEMMA PutCounts ==
  ASSUME NEW h, NEW c, Counts(h, c), NEW p \in Int, NEW n \in Nat, n > 0, NEW x, x.refs = n,
         DOMAIN h \subseteq Int
  PROVE  Counts(Put(h, p, x), [c EXCEPT ![p] = n])
  BY DEF Counts, Put

LEMMA DropCounts ==
  ASSUME NEW h, NEW c, Counts(h, c), NEW p \in Int, DOMAIN h \subseteq Int
  PROVE  Counts(Restrict(h, DOMAIN h \ {p}), [c EXCEPT ![p] = 0])
  BY DEF Counts, Restrict

LEMMA HistoricalCount ==
  ASSUME NEW r, RecordsOK(r), NEW c, Counts(r.historical, c), NEW p \in Int
  PROVE  Historical(r, p).refs = c[p] /\ c[p] \in Nat
  BY DEF RecordsOK, Historical, Counts

LEMMA CheckHistory ==
  ASSUME NEW r, Sound(r), NEW condition
  PROVE  CheckFor(r, condition).historical = r.historical
<1> DEFINE k == r.panics + IF condition THEN 1 ELSE 0
<1>1. CheckFor(r, condition) = [r EXCEPT !.panics = k]
  BY DEF CheckFor, Sound, RecordsOK
<1> HIDE DEF k
<1> QED
  BY <1>1 DEF Sound, RecordsOK

LEMMA IncrementCounts ==
  ASSUME NEW r, Sound(r), NEW c, Counts(r.historical, c), NEW p \in Int
  PROVE  Counts(IncrementReferenceCount(r, p).historical, [c EXCEPT ![p] = c[p] + 1])
<1> DEFINE h == Historical(r, p)
           x == [ratio |-> h.ratio, refs |-> h.refs + 1]
           s == SetHistorical(r, p, x)
<1>1. h.refs = c[p] /\ c[p] \in Nat /\ h.ratio \in Int
  BY HistoricalCount, HistoricalType DEF Sound
<1>2. x.refs = c[p] + 1 /\ c[p] + 1 > 0 /\ c[p] + 1 \in Nat
      /\ x \in [ratio : Int, refs : Nat \ {0}]
  BY <1>1
<1>3. Sound(s) /\ s.historical = Put(r.historical, p, x)
  <2> HIDE DEF x
  <2>1. Sound(s)
    BY <1>2, SetHistoricalSound
  <2>2. s = [r EXCEPT !.historical = Put(r.historical, p, x)]
    BY DEF SetHistorical, Sound, RecordsOK
  <2> HIDE DEF Put, s
  <2> QED
    BY <2>1, <2>2 DEF Sound, RecordsOK
<1>4. IncrementReferenceCount(r, p) = CheckFor(s, h.refs > 2)
  BY DEF IncrementReferenceCount
<1>5. IncrementReferenceCount(r, p).historical = Put(r.historical, p, x)
  <2> HIDE DEF s, x, h
  <2> QED
    BY <1>3, <1>4, CheckHistory
<1>6. DOMAIN r.historical \subseteq Int
  BY DEF Sound, RecordsOK
<1> HIDE DEF x
<1> QED
  BY <1>2, <1>5, <1>6, PutCounts

LEMMA DecrementCounts ==
  ASSUME NEW r, Sound(r), NEW c, Counts(r.historical, c), NEW p \in Int, c[p] > 0
  PROVE  Counts(DecrementReferenceCount(r, p).historical, [c EXCEPT ![p] = c[p] - 1])
<1> DEFINE h == Historical(r, p)
           x == [ratio |-> h.ratio, refs |-> h.refs - 1]
<1>1. h.refs = c[p] /\ c[p] \in Nat
  BY HistoricalCount DEF Sound
<1>2. DOMAIN r.historical \subseteq Int
  BY DEF Sound, RecordsOK
<1>3. CASE c[p] = 1
  <2>1. DecrementReferenceCount(r, p) = DropHistorical(r, p)
    BY <1>1, <1>3 DEF DecrementReferenceCount
  <2> DEFINE rest == Restrict(r.historical, DOMAIN r.historical \ {p})
  <2>2. DropHistorical(r, p) = [r EXCEPT !.historical = rest]
    BY DEF DropHistorical, Sound, RecordsOK
  <2> HIDE DEF rest
  <2>3. DropHistorical(r, p).historical = rest
    BY <2>2 DEF Sound, RecordsOK
  <2> QED
    BY <1>2, <1>3, <2>1, <2>3, DropCounts DEF rest
<1>4. CASE c[p] # 1
  <2>0. h.refs # 0 /\ h.refs # 1
    BY <1>1, <1>4
  <2>1. DecrementReferenceCount(r, p) = SetHistorical(r, p, x)
    BY <2>0 DEF DecrementReferenceCount
  <2>2. x.refs = c[p] - 1 /\ c[p] - 1 > 0 /\ c[p] - 1 \in Nat
    BY <1>1, <1>4
  <2> HIDE DEF x
  <2>3. SetHistorical(r, p, x) = [r EXCEPT !.historical = Put(r.historical, p, x)]
    BY DEF SetHistorical, Sound, RecordsOK
  <2>4. SetHistorical(r, p, x).historical = Put(r.historical, p, x)
    <3> HIDE DEF Put
    <3> QED
      BY <2>3 DEF Sound, RecordsOK
  <2> QED
    BY <1>2, <2>1, <2>2, <2>4, PutCounts
<1> QED
  BY <1>3, <1>4

(* What closing a period leaves in each field.                             *)
LEMMA PeriodValues ==
  ASSUME NEW r, Sound(r), NEW tokens \in Int
  PROVE  LET s == IncrementValidatorPeriod(r, tokens)
             orphan == IF tokens = 0 THEN r.current ELSE 0
             dec == DecrementReferenceCount(r, r.period - 1)
         IN /\ s.historical = Put(dec.historical, r.period,
                                 [ratio |-> Historical(r, r.period - 1).ratio
                                              + Quo(r.current, tokens),
                                  refs |-> 1])
            /\ s.current = 0 /\ s.period = r.period + 1 /\ s.starting = r.starting
            /\ s.slashes = r.slashes /\ s.commission = r.commission
            /\ s.outstanding = r.outstanding - orphan
            /\ s.pool = r.pool + orphan /\ s.paid = r.paid /\ s.panics = dec.panics
<1> DEFINE dec == DecrementReferenceCount(r, r.period - 1)
           orphan == IF tokens = 0 THEN r.current ELSE 0
           owed == dec.outstanding - orphan
           pooled == dec.pool + orphan
           part == [dec EXCEPT !.outstanding = owed]
           settled == [part EXCEPT !.pool = pooled]
           x == [ratio |-> Historical(r, r.period - 1).ratio + Quo(r.current, tokens),
                 refs |-> 1]
           hist == Put(dec.historical, r.period, x)
           set == [settled EXCEPT !.historical = hist]
           open == [set EXCEPT !.current = 0]
           s == IncrementValidatorPeriod(r, tokens)
<1>1. r.period - 1 \in Int
  BY DEF Sound, RecordsOK
<1>2. Sound(dec) /\ SameAmounts(dec, r)
  BY <1>1, DecrementSound
<1>3. s = [SetHistorical(settled, r.period, x) EXCEPT !.current = 0, !.period = @ + 1]
  <2>1. settled = [dec EXCEPT !.outstanding = @ - orphan, !.pool = @ + orphan]
    BY <1>2 DEF Sound, RecordsOK
  <2> QED
    BY <2>1 DEF IncrementValidatorPeriod
<1> HIDE DEF dec, owed, pooled, orphan, x
<1>4. part = [current |-> dec.current, period |-> dec.period,
               historical |-> dec.historical, starting |-> dec.starting,
               outstanding |-> owed, commission |-> dec.commission,
               slashes |-> dec.slashes, pool |-> dec.pool, paid |-> dec.paid,
               received |-> dec.received, panics |-> dec.panics]
  BY <1>2 DEF Sound, RecordsOK
<1> HIDE DEF part
<1>5. settled = [current |-> dec.current, period |-> dec.period,
                 historical |-> dec.historical, starting |-> dec.starting,
                 outstanding |-> owed, commission |-> dec.commission,
                 slashes |-> dec.slashes, pool |-> pooled, paid |-> dec.paid,
                 received |-> dec.received, panics |-> dec.panics]
  BY <1>4
<1>6. SetHistorical(settled, r.period, x) = set
  BY <1>5 DEF SetHistorical
<1> HIDE DEF settled, hist
<1>7. set = [current |-> dec.current, period |-> dec.period,
             historical |-> hist, starting |-> dec.starting,
             outstanding |-> owed, commission |-> dec.commission,
             slashes |-> dec.slashes, pool |-> pooled, paid |-> dec.paid,
             received |-> dec.received, panics |-> dec.panics]
  BY <1>5
<1> HIDE DEF set
<1>8. open = [current |-> 0, period |-> dec.period,
               historical |-> hist, starting |-> dec.starting,
               outstanding |-> owed, commission |-> dec.commission,
               slashes |-> dec.slashes, pool |-> pooled, paid |-> dec.paid,
               received |-> dec.received, panics |-> dec.panics]
  BY <1>7
<1>9. s = [open EXCEPT !.period = dec.period + 1]
  BY <1>3, <1>6, <1>7
<1> HIDE DEF open
<1>10. s = [current |-> 0, period |-> dec.period + 1,
           historical |-> hist, starting |-> dec.starting,
           outstanding |-> owed, commission |-> dec.commission,
           slashes |-> dec.slashes, pool |-> pooled, paid |-> dec.paid,
           received |-> dec.received, panics |-> dec.panics]
  BY <1>8, <1>9
<1> HIDE DEF s
<1>11. /\ s.current = 0 /\ s.period = r.period + 1 /\ s.starting = r.starting
      /\ s.slashes = r.slashes /\ s.commission = r.commission /\ s.outstanding = owed
      /\ s.historical = hist /\ s.pool = pooled /\ s.paid = r.paid /\ s.panics = dec.panics
  BY <1>2, <1>10 DEF SameAmounts
<1>12. owed = r.outstanding - orphan /\ pooled = r.pool + orphan
  BY <1>2 DEF SameAmounts, owed, pooled
<1> QED
  BY <1>11, <1>12 DEF s, orphan, hist, dec, x

LEMMA PeriodFields ==
  ASSUME NEW r, Sound(r), NEW tokens \in Int
  PROVE  LET s == IncrementValidatorPeriod(r, tokens)
             orphan == IF tokens = 0 THEN r.current ELSE 0
         IN /\ \E x : /\ x.refs = 1
                      /\ s.historical = Put(DecrementReferenceCount(r, r.period - 1).historical,
                                            r.period, x)
            /\ s.current = 0 /\ s.period = r.period + 1 /\ s.starting = r.starting
            /\ s.slashes = r.slashes /\ s.commission = r.commission
            /\ s.outstanding = r.outstanding - orphan
<1> DEFINE x == [ratio |-> Historical(r, r.period - 1).ratio + Quo(r.current, tokens), refs |-> 1]
<1>1. x.refs = 1
  OBVIOUS
<1> HIDE DEF x
<1> QED
  BY <1>1, PeriodValues DEF x

(* Closing a period keeps the counts exact; only the open period points at *)
(* the one just closed.                                                    *)
LEMMA PeriodExact ==
  ASSUME NEW r, Sound(r), NEW D, IsFiniteSet(D), Exact(r, D), NEW tokens \in Int
  PROVE  Exact(IncrementValidatorPeriod(r, tokens), D)
<1> DEFINE s == IncrementValidatorPeriod(r, tokens)
           dec == DecrementReferenceCount(r, r.period - 1)
           c == Pointers(r, D)
           mid == [c EXCEPT ![r.period - 1] = c[r.period - 1] - 1]
<1>1. r.period \in Int /\ r.period - 1 \in Int /\ r.period - 1 # r.period
      /\ DOMAIN r.historical \subseteq Int
  BY DEF Sound, RecordsOK
<1>2. Counts(r.historical, c) /\ IsFiniteSet(r.slashes) /\ D \subseteq DOMAIN r.starting
      /\ \A p \in DOMAIN r.historical : p < r.period
  BY DEF Exact
<1>3. PICK x : /\ x.refs = 1 /\ s.historical = Put(dec.historical, r.period, x)
  BY PeriodFields
<1>4. s.period = r.period + 1 /\ s.starting = r.starting /\ s.slashes = r.slashes
  BY PeriodFields
<1>5. c[r.period - 1] > 0
  <2>1. c[r.period - 1] = Cardinality(StartsAt(r, D, r.period - 1))
                            + Cardinality(SlashesAt(r, r.period - 1)) + 1
    BY <1>1 DEF Pointers
  <2>2. /\ Cardinality(StartsAt(r, D, r.period - 1)) \in Nat
        /\ Cardinality(SlashesAt(r, r.period - 1)) \in Nat
    BY <1>2, PointersNat
  <2> HIDE DEF c
  <2> QED
    BY <2>1, <2>2
<1>6. c[r.period] = 0
  <2>1. r.period \notin DOMAIN r.historical
    BY <1>1, <1>2
  <2> HIDE DEF c
  <2> QED
    BY <1>1, <1>2, <2>1 DEF Counts
<1>7. Counts(dec.historical, mid)
  <2> HIDE DEF c
  <2> QED
    BY <1>1, <1>2, <1>5, DecrementCounts
<1>8. Sound(dec)
  BY <1>1, DecrementSound
<1>9. DOMAIN dec.historical \subseteq Int
  BY <1>8 DEF Sound, RecordsOK
<1>10. Counts(s.historical, [mid EXCEPT ![r.period] = 1])
  <2> HIDE DEF mid, dec, s
  <2>1. 1 \in Nat /\ 1 > 0
    OBVIOUS
  <2>2. Counts(Put(dec.historical, r.period, x), [mid EXCEPT ![r.period] = 1])
    BY <1>1, <1>3, <1>7, <1>9, <2>1, PutCounts
  <2> QED
    BY <1>3, <2>2
<1>11. Pointers(s, D) = [mid EXCEPT ![r.period] = 1]
  <2> DEFINE a(p) == Cardinality(StartsAt(r, D, p))
             b(p) == Cardinality(SlashesAt(r, p))
  <2>1. Pointers(s, D) = [p \in Int |-> a(p) + b(p) + IF p = r.period THEN 1 ELSE 0]
    BY <1>1, <1>4 DEF Pointers, StartsAt, SlashesAt
  <2>2. c = [p \in Int |-> a(p) + b(p) + IF p = r.period - 1 THEN 1 ELSE 0]
    BY DEF Pointers
  <2>3. \A p : a(p) \in Nat /\ b(p) \in Nat
    BY <1>2, PointersNat
  <2>4. a(r.period) + b(r.period) = 0
    BY <1>1, <1>6, <2>2, <2>3
  <2> HIDE DEF a, b, c
  <2>5. ASSUME NEW p \in Int
        PROVE  [mid EXCEPT ![r.period] = 1][p] = a(p) + b(p) + IF p = r.period THEN 1 ELSE 0
    BY <1>1, <2>2, <2>3, <2>4
  <2>6. [mid EXCEPT ![r.period] = 1] \in [Int -> Int]
    BY <1>1, <2>2, <2>3
  <2> HIDE DEF mid
  <2> QED
    BY <2>1, <2>5, <2>6
<1>12. \A p \in DOMAIN s.historical : p < s.period
  <2>1. \A p \in DOMAIN dec.historical : p \in DOMAIN r.historical \/ p = r.period - 1
    <3> HIDE DEF c, dec
    <3> QED
      BY <1>1, <1>2, <1>7, <1>9 DEF Counts
  <2>2. DOMAIN s.historical = DOMAIN dec.historical \cup {r.period}
    BY <1>3 DEF Put
  <2> QED
    BY <1>1, <1>2, <1>4, <2>1, <2>2
<1> HIDE DEF s, c, mid
<1> QED
  BY <1>2, <1>4, <1>10, <1>11, <1>12 DEF Exact, s

(* One more starting info, or one more slash event, is one more reference. *)
LEMMA PointersMore ==
  ASSUME NEW r, NEW s, NEW D, IsFiniteSet(D), IsFiniteSet(r.slashes), NEW d, d \notin D,
         NEW q \in Int, s.starting[d].period = q, s.slashes = r.slashes, s.period = r.period,
         \A e \in D : s.starting[e] = r.starting[e]
  PROVE  Pointers(s, D \cup {d}) = [Pointers(r, D) EXCEPT ![q] = Pointers(r, D)[q] + 1]
<1> DEFINE a(p) == Cardinality(StartsAt(r, D, p))
           b(p) == Cardinality(SlashesAt(r, p))
           o(p) == IF p = r.period - 1 THEN 1 ELSE 0
           n(p) == Cardinality(StartsAt(s, D \cup {d}, p))
<1>1. \A p : a(p) \in Nat /\ b(p) \in Nat /\ o(p) \in Nat /\ IsFiniteSet(StartsAt(r, D, p))
  BY PointersNat
<1>2. \A p : n(p) = IF p = q THEN a(p) + 1 ELSE a(p)
  <2> TAKE p
  <2>1. StartsAt(s, D \cup {d}, p)
          = IF p = q THEN StartsAt(r, D, p) \cup {d} ELSE StartsAt(r, D, p)
    BY DEF StartsAt
  <2>2. d \notin StartsAt(r, D, p)
    BY DEF StartsAt
  <2> QED
    BY <1>1, <2>1, <2>2, FS_AddElement
<1>3. Pointers(r, D) = [p \in Int |-> a(p) + b(p) + o(p)]
  BY DEF Pointers
<1>4. Pointers(s, D \cup {d}) = [p \in Int |-> n(p) + b(p) + o(p)]
  BY DEF Pointers, SlashesAt
<1> HIDE DEF a, b, o, n
<1> QED
  BY <1>1, <1>2, <1>3, <1>4

(* The counts n are the counts c with one reference to q taken away.       *)
OneLess(n, c, q) == c[q] \in Nat /\ c[q] > 0 /\ n = [c EXCEPT ![q] = c[q] - 1]

LEMMA PointersLess ==
  ASSUME NEW r, NEW s, NEW D, IsFiniteSet(D), IsFiniteSet(r.slashes), NEW d \in D,
         NEW q \in Int, r.starting[d].period = q, s.slashes = r.slashes, s.period = r.period,
         \A e \in D \ {d} : s.starting[e] = r.starting[e]
  PROVE  OneLess(Pointers(s, D \ {d}), Pointers(r, D), q)
<1> DEFINE rest == D \ {d}
           c == Pointers(s, rest)
<1>1. IsFiniteSet(rest) /\ d \notin rest /\ rest \cup {d} = D
  BY FS_RemoveElement
<1>2. Pointers(r, rest \cup {d}) = [c EXCEPT ![q] = c[q] + 1]
  <2> HIDE DEF rest
  <2> QED
    BY <1>1, PointersMore
<1>3. c \in [Int -> Nat]
  <2> HIDE DEF rest
  <2> QED
    BY <1>1, PointersNat
<1> DEFINE all == Pointers(r, D)
<1>4. all = [c EXCEPT ![q] = c[q] + 1]
  <2> HIDE DEF c, rest
  <2> QED
    BY <1>1, <1>2
<1> HIDE DEF c, all
<1>5. all[q] \in Nat /\ all[q] > 0
  BY <1>3, <1>4
<1>6. c = [all EXCEPT ![q] = all[q] - 1]
  <2>1. [all EXCEPT ![q] = all[q] - 1] = [c EXCEPT ![q] = c[q] + 1 - 1]
    BY <1>3, <1>4
  <2>2. c[q] + 1 - 1 = c[q]
    BY <1>3
  <2> QED
    BY <1>3, <2>1, <2>2
<1> QED
  BY <1>5, <1>6 DEF c, rest, all, OneLess

LEMMA PointersSlash ==
  ASSUME NEW r, NEW s, NEW D, IsFiniteSet(D), IsFiniteSet(r.slashes), NEW e, e \notin r.slashes,
         NEW q \in Int, e.period = q, s.slashes = r.slashes \cup {e}, s.period = r.period,
         s.starting = r.starting
  PROVE  Pointers(s, D) = [Pointers(r, D) EXCEPT ![q] = Pointers(r, D)[q] + 1]
<1> DEFINE a(p) == Cardinality(StartsAt(r, D, p))
           b(p) == Cardinality(SlashesAt(r, p))
           o(p) == IF p = r.period - 1 THEN 1 ELSE 0
           n(p) == Cardinality(SlashesAt(s, p))
<1>1. \A p : a(p) \in Nat /\ b(p) \in Nat /\ o(p) \in Nat /\ IsFiniteSet(SlashesAt(r, p))
  BY PointersNat
<1>2. \A p : n(p) = IF p = q THEN b(p) + 1 ELSE b(p)
  <2> TAKE p
  <2>1. SlashesAt(s, p) = IF p = q THEN SlashesAt(r, p) \cup {e} ELSE SlashesAt(r, p)
    BY DEF SlashesAt
  <2>2. e \notin SlashesAt(r, p)
    BY DEF SlashesAt
  <2> QED
    BY <1>1, <2>1, <2>2, FS_AddElement
<1>3. Pointers(r, D) = [p \in Int |-> a(p) + b(p) + o(p)]
  BY DEF Pointers
<1>4. Pointers(s, D) = [p \in Int |-> a(p) + n(p) + o(p)]
  BY DEF Pointers, StartsAt
<1> HIDE DEF a, b, o, n
<1> QED
  BY <1>1, <1>2, <1>3, <1>4

(* Only these fields decide whether the counts are exact.                  *)
SameMaps(s, r) ==
  /\ s.historical = r.historical /\ s.starting = r.starting
  /\ s.slashes = r.slashes /\ s.period = r.period

LEMMA SameMapsExact ==
  ASSUME NEW r, NEW s, SameMaps(s, r), NEW D, Exact(r, D)
  PROVE  Exact(s, D)
  BY DEF SameMaps, Exact, Pointers, StartsAt, SlashesAt

LEMMA CheckMaps ==
  ASSUME NEW r, Sound(r), NEW condition
  PROVE  SameMaps(CheckFor(r, condition), r)
  BY CheckSound, CheckHistory DEF SameMaps, SameAmounts

LEMMA PayOutMaps ==
  ASSUME NEW r, Sound(r), NEW amount
  PROVE  SameMaps(PayOut(r, amount), r)
<1> DEFINE o == r.outstanding - amount
           a == r.paid + Coins(amount)
           l == r.pool + amount - Coins(amount)
<1>1. PayOut(r, amount) = [r EXCEPT !.outstanding = o, !.paid = a, !.pool = l]
  BY DEF PayOut, Sound, RecordsOK
<1> HIDE DEF o, a, l
<1> QED
  BY <1>1 DEF Sound, RecordsOK, SameMaps

LEMMA CommissionMaps ==
  ASSUME NEW r, Sound(r)
  PROVE  SameMaps(WithdrawValidatorCommission(r), r)
<1>1. CASE r.commission = 0
  BY <1>1 DEF WithdrawValidatorCommission, SameMaps
<1>2. CASE r.commission # 0
  <2> DEFINE coins == Coins(r.commission)
             checked == CheckFor(r, coins > r.outstanding)
             s == PayOut(checked, coins)
  <2>1. coins \in Int
    BY CoinsInt DEF Sound, RecordsOK
  <2>2. Sound(checked) /\ SameMaps(checked, r)
    BY CheckSound, CheckMaps
  <2>3. Sound(s) /\ SameMaps(s, checked)
    <3> HIDE DEF checked, coins
    <3> QED
      BY <2>1, <2>2, PayOutSound, PayOutMaps
  <2>4. WithdrawValidatorCommission(r) = [s EXCEPT !.commission = @ - coins]
    BY <1>2 DEF WithdrawValidatorCommission
  <2> DEFINE k == s.commission - coins
  <2>5. WithdrawValidatorCommission(r) = [s EXCEPT !.commission = k]
    BY <2>4
  <2> HIDE DEF s, checked, coins, k
  <2> QED
    BY <2>2, <2>3, <2>5 DEF Sound, RecordsOK, SameMaps
<1> QED
  BY <1>1, <1>2

LEMMA AllocateMaps ==
  ASSUME NEW r, Sound(r), NEW amount
  PROVE  SameMaps(AllocateTokensToValidator(r, amount), r)
<1> DEFINE c == r.commission + amount \div 5
           u == r.current + amount - amount \div 5
           o == r.outstanding + amount
           i == r.received + amount
<1>1. AllocateTokensToValidator(r, amount)
        = [r EXCEPT !.commission = c, !.current = u, !.outstanding = o, !.received = i]
  BY DEF AllocateTokensToValidator, Sound, RecordsOK
<1> HIDE DEF c, u, o, i
<1> QED
  BY <1>1 DEF Sound, RecordsOK, SameMaps

(* A delegation that starts points at the period just closed.              *)
LEMMA StartExact ==
  ASSUME NEW r, Sound(r), NEW D, IsFiniteSet(D), Exact(r, D), NEW d \in Delegators, d \notin D,
         NEW stake, NEW h
  PROVE  LET s == InitializeDelegation(r, d, stake, h) IN
         /\ Exact(s, D \cup {d})
         /\ s.starting = Put(r.starting, d, [period |-> r.period - 1, stake |-> stake, height |-> h])
         /\ s.slashes = r.slashes /\ s.current = r.current /\ s.outstanding = r.outstanding
         /\ s.commission = r.commission /\ s.period = r.period
<1> DEFINE q == r.period - 1
           c == Pointers(r, D)
           inc == IncrementReferenceCount(r, q)
           x == [period |-> q, stake |-> stake, height |-> h]
           st == Put(r.starting, d, x)
           s == InitializeDelegation(r, d, stake, h)
<1>1. r.period \in Int /\ q \in Int
  BY DEF Sound, RecordsOK
<1>2. Sound(inc) /\ SameAmounts(inc, r)
  BY <1>1, IncrementSound
<1>3. s = [inc EXCEPT !.starting = st]
  BY <1>2 DEF InitializeDelegation, SameAmounts
<1>4. /\ Counts(r.historical, c) /\ IsFiniteSet(r.slashes) /\ D \subseteq DOMAIN r.starting
      /\ \A p \in DOMAIN r.historical : p < r.period
  BY DEF Exact
<1>5. Counts(inc.historical, [c EXCEPT ![q] = c[q] + 1])
  <2> HIDE DEF c, q
  <2> QED
    BY <1>1, <1>4, IncrementCounts
<1>6. st[d].period = q /\ DOMAIN st = DOMAIN r.starting \cup {d}
      /\ \A e \in D : st[e] = r.starting[e]
  BY <1>4 DEF Put
<1> HIDE DEF st, inc, s
<1>7. /\ s.historical = inc.historical /\ s.starting = st /\ s.slashes = r.slashes
      /\ s.period = r.period /\ s.current = r.current /\ s.outstanding = r.outstanding
      /\ s.commission = r.commission
  BY <1>2, <1>3 DEF Sound, RecordsOK, SameAmounts
<1>8. Pointers(s, D \cup {d}) = [c EXCEPT ![q] = c[q] + 1]
  <2>1. s.starting[d].period = q /\ \A e \in D : s.starting[e] = r.starting[e]
    BY <1>6, <1>7
  <2> HIDE DEF q
  <2> QED
    BY <1>1, <1>4, <1>7, <2>1, PointersMore
<1>9. \A p \in DOMAIN inc.historical : p < r.period
  <2>1. \A p \in DOMAIN inc.historical : p \in Int
    BY <1>2 DEF Sound, RecordsOK
  <2>2. \A p \in DOMAIN inc.historical : p \in DOMAIN r.historical \/ p = q
    <3>1. DOMAIN r.historical \subseteq Int
      BY DEF Sound, RecordsOK
    <3> HIDE DEF c, q
    <3> QED
      BY <1>1, <1>4, <1>5, <2>1, <3>1 DEF Counts
  <2> QED
    BY <1>1, <1>4, <2>2
<1> HIDE DEF q, c
<1>10. Exact(s, D \cup {d})
  BY <1>4, <1>5, <1>6, <1>7, <1>8, <1>9 DEF Exact
<1> QED
  BY <1>7, <1>10 DEF s, st, q

(* Settling a delegation takes its reference and its starting info away.   *)
Settled(s, r, D, d) ==
  /\ Exact(s, D \ {d})
  /\ s.starting = Restrict(r.starting, DOMAIN r.starting \ {d})
  /\ s.slashes = r.slashes

LEMMA SettleExact ==
  ASSUME NEW r, Sound(r), NEW D, IsFiniteSet(D), Exact(r, D), NEW d \in D,
         NEW tokens \in Int, NEW stake, NEW h
  PROVE  Settled(SettleDelegation(r, d, tokens, stake, h), r, D, d)
<1> DEFINE open == IncrementValidatorPeriod(r, tokens)
           raw == CalculateDelegationRewards(open, d, r.period, h)
           rewards == IF raw \in 0 .. open.outstanding THEN raw ELSE open.outstanding
           checked == CheckFor(open, StakeTooLarge(open, d, r.period, stake, h))
           paid == PayOut(checked, rewards)
           q == r.starting[d].period
           c == Pointers(paid, D)
           freed == DecrementReferenceCount(paid, q)
           st == Restrict(r.starting, DOMAIN r.starting \ {d})
           s == SettleDelegation(r, d, tokens, stake, h)
<1>1. Sound(open) /\ Exact(open, D)
  BY PeriodSound, PeriodExact
<1>2. open.starting = r.starting /\ open.slashes = r.slashes
  BY PeriodFields
<1>3. Sound(checked) /\ SameMaps(checked, open)
  <2> HIDE DEF open
  <2> QED
    BY <1>1, CheckSound, CheckMaps
<1>4. rewards \in Int
  <2>1. open.outstanding \in Int
    BY <1>1 DEF Sound, RecordsOK
  <2> HIDE DEF open, raw
  <2> QED
    BY <2>1
<1>5. Sound(paid) /\ SameMaps(paid, checked)
  <2> HIDE DEF checked, rewards
  <2> QED
    BY <1>3, <1>4, PayOutSound, PayOutMaps
<1>6. s = [freed EXCEPT !.starting = Restrict(@, DOMAIN @ \ {d})]
  BY DEF SettleDelegation
<1> HIDE DEF open, checked, rewards, paid, s
<1>7. /\ Exact(paid, D) /\ paid.starting = r.starting /\ paid.slashes = r.slashes
  BY <1>1, <1>2, <1>3, <1>5, SameMapsExact DEF SameMaps
<1>8. q \in Int /\ D \subseteq DOMAIN r.starting
  BY DEF Exact, Sound, RecordsOK
<1>9. Sound(freed) /\ SameAmounts(freed, paid)
  BY <1>5, <1>8, DecrementSound
<1>10. freed.starting = r.starting
  BY <1>7, <1>9 DEF SameAmounts
<1> HIDE DEF freed, st, q
<1>11. s = [freed EXCEPT !.starting = st]
  BY <1>6, <1>10 DEF st
<1>12. /\ s.historical = freed.historical /\ s.starting = st /\ s.slashes = paid.slashes
       /\ s.period = paid.period
  BY <1>9, <1>11 DEF Sound, RecordsOK, SameAmounts
<1>13. /\ Counts(paid.historical, c) /\ IsFiniteSet(paid.slashes)
       /\ \A p \in DOMAIN paid.historical : p < paid.period
  BY <1>7 DEF Exact
<1>14. DOMAIN st = DOMAIN r.starting \ {d} /\ \A e \in D \ {d} : st[e] = r.starting[e]
  BY <1>8 DEF st, Restrict
<1>15. /\ c[q] \in Nat /\ c[q] > 0
       /\ Pointers(s, D \ {d}) = [c EXCEPT ![q] = c[q] - 1]
  <2>1. paid.starting[d].period = q
    BY <1>7 DEF q
  <2>2. \A e \in D \ {d} : s.starting[e] = paid.starting[e]
    BY <1>7, <1>12, <1>14
  <2>3. s.slashes = paid.slashes /\ s.period = paid.period
    BY <1>12
  <2>4. IsFiniteSet(D) /\ IsFiniteSet(paid.slashes) /\ q \in Int
    BY <1>8, <1>13
  <2>5. OneLess(Pointers(s, D \ {d}), Pointers(paid, D), q)
    <3> HIDE DEF c, raw
    <3> QED
      BY <2>1, <2>2, <2>3, <2>4, PointersLess
  <2> QED
    BY <2>5 DEF OneLess
<1> HIDE DEF c
<1>16. Counts(freed.historical, [c EXCEPT ![q] = c[q] - 1])
  BY <1>5, <1>8, <1>13, <1>15, DecrementCounts DEF freed
<1>17. \A p \in DOMAIN freed.historical : p < paid.period
  <2>1. DOMAIN freed.historical \subseteq Int
    BY <1>9 DEF Sound, RecordsOK
  <2>2. \A p \in DOMAIN freed.historical : p \in DOMAIN paid.historical
    BY <1>8, <1>13, <1>15, <1>16, <2>1 DEF Counts
  <2> QED
    BY <1>13, <2>2
<1>18. Exact(s, D \ {d})
  BY <1>8, <1>12, <1>13, <1>14, <1>15, <1>16, <1>17 DEF Exact
<1> QED
  BY <1>7, <1>12, <1>18 DEF s, st, Settled

(* A slash event keeps the period it closes.                               *)
LEMMA SlashExact ==
  ASSUME NEW r, Sound(r), NEW D, IsFiniteSet(D), Exact(r, D), NEW tokens \in Int,
         NEW h, NEW keep
  PROVE  LET s == RecordSlash(r, tokens, h, keep) IN
         /\ Exact(s, D) /\ s.starting = r.starting
         /\ s.slashes = r.slashes \cup {[height |-> h, period |-> r.period, keep |-> keep]}
<1> DEFINE open == IncrementValidatorPeriod(r, tokens)
           q == r.period
           inc == IncrementReferenceCount(open, q)
           e == [height |-> h, period |-> q, keep |-> keep]
           events == r.slashes \cup {e}
           c == Pointers(open, D)
           s == RecordSlash(r, tokens, h, keep)
<1>1. Sound(open) /\ Exact(open, D) /\ q \in Int
  <2>1. q \in Int
    BY DEF Sound, RecordsOK
  <2> QED
    BY <2>1, PeriodSound, PeriodExact
<1>2. open.starting = r.starting /\ open.slashes = r.slashes /\ open.period = q + 1
  BY PeriodFields
<1> HIDE DEF open, q
<1>3. Sound(inc) /\ SameAmounts(inc, open)
  BY <1>1, IncrementSound
<1>4. s = [inc EXCEPT !.slashes = events]
  BY <1>2, <1>3 DEF RecordSlash, SameAmounts, open, q
<1>5. /\ Counts(open.historical, c) /\ IsFiniteSet(r.slashes) /\ D \subseteq DOMAIN r.starting
      /\ \A p \in DOMAIN open.historical : p < open.period
  BY <1>1, <1>2 DEF Exact
<1>6. Counts(inc.historical, [c EXCEPT ![q] = c[q] + 1])
  <2> HIDE DEF c
  <2> QED
    BY <1>1, <1>5, IncrementCounts
<1> HIDE DEF inc, s, events
<1>7. /\ s.historical = inc.historical /\ s.starting = open.starting /\ s.slashes = events
      /\ s.period = open.period
  BY <1>3, <1>4 DEF Sound, RecordsOK, SameAmounts
<1>8. e.period = q /\ e \notin r.slashes
  <2>1. ASSUME e \in r.slashes PROVE FALSE
    <3>1. SlashesAt(r, q) # {}
      BY <2>1 DEF SlashesAt
    <3>2. Cardinality(SlashesAt(r, q)) # 0 /\ Cardinality(SlashesAt(r, q)) \in Nat
          /\ Cardinality(StartsAt(r, D, q)) \in Nat
      BY <1>5, <3>1, PointersNat, FS_EmptySet
    <3>3. Pointers(r, D)[q] > 0
      BY <1>1, <3>2 DEF Pointers
    <3>4. q \in DOMAIN r.historical
      BY <1>1, <3>3 DEF Exact, Counts
    <3> QED
      BY <1>1, <3>4 DEF Exact, q
  <2> QED
    BY <2>1
<1> HIDE DEF e
<1>9. Pointers(s, D) = [c EXCEPT ![q] = c[q] + 1]
  BY <1>1, <1>2, <1>5, <1>7, <1>8, PointersSlash DEF events
<1>10. \A p \in DOMAIN inc.historical : p < open.period
  <2>1. DOMAIN inc.historical \subseteq Int /\ DOMAIN open.historical \subseteq Int
    BY <1>1, <1>3 DEF Sound, RecordsOK
  <2>2. \A p \in DOMAIN inc.historical : p \in DOMAIN open.historical \/ p = q
    <3> HIDE DEF c
    <3> QED
      BY <1>1, <1>5, <1>6, <2>1 DEF Counts
  <2> QED
    BY <1>1, <1>2, <1>5, <2>2
<1>11. IsFiniteSet(events)
  BY <1>5, FS_AddElement DEF events
<1> HIDE DEF c
<1>12. Exact(s, D)
  BY <1>2, <1>5, <1>6, <1>7, <1>9, <1>10, <1>11 DEF Exact
<1> QED
  BY <1>2, <1>7, <1>12 DEF s, events, e, q

(***************************************************************************)
(* Operations on the records of one validator                              *)
(***************************************************************************)

(* The records r of a running chain at height h, where H delegates.        *)
Reached(r, h) ==
  /\ \A d \in DOMAIN r.starting : r.starting[d].height <= h
  /\ \A e \in r.slashes : e.height <= h

Tracks(r, H, h) == DOMAIN r.starting = H /\ Exact(r, H) /\ Reached(r, h)

LEMMA TracksLater ==
  ASSUME NEW r, Sound(r), NEW H, NEW h \in Nat, NEW k \in Nat, h <= k, Tracks(r, H, h)
  PROVE  Tracks(r, H, k)
<1>1. /\ \A d \in DOMAIN r.starting : r.starting[d].height \in Nat
      /\ \A e \in r.slashes : e.height \in Nat
  BY DEF Sound, RecordsOK
<1> QED
  BY <1>1 DEF Tracks, Reached

LEMMA SameMapsTrack ==
  ASSUME NEW r, NEW s, SameMaps(s, r), NEW H, NEW h, Tracks(r, H, h)
  PROVE  Tracks(s, H, h)
<1>1. Exact(s, H)
  BY SameMapsExact DEF Tracks
<1> QED
  BY <1>1 DEF Tracks, Reached, SameMaps

LEMMA StartsFinite ==
  ASSUME NEW r, Sound(r), NEW H, NEW h, Tracks(r, H, h)
  PROVE  IsFiniteSet(H) /\ H \subseteq Delegators
<1>1. H \in SUBSET Delegators
  BY DEF Tracks, Sound, RecordsOK
<1> QED
  BY <1>1, FiniteDelegators, FS_Subset

(* Delegating: the hooks close a period and start the delegation.          *)
LEMMA JoinTracks ==
  ASSUME NEW r, Sound(r), NEW H, NEW h \in Nat, NEW k \in Nat, h <= k, Tracks(r, H, h),
         NEW d \in Delegators, d \notin H, NEW tokens \in Int, NEW stake
  PROVE  Tracks(InitializeDelegation(IncrementValidatorPeriod(r, tokens), d, stake, k),
                H \cup {d}, k)
<1> DEFINE open == IncrementValidatorPeriod(r, tokens)
           x == [period |-> open.period - 1, stake |-> stake, height |-> k]
           s == InitializeDelegation(open, d, stake, k)
<1>0. IsFiniteSet(H) /\ Exact(r, H) /\ Tracks(r, H, k)
  BY StartsFinite, TracksLater DEF Tracks
<1>1. Sound(open) /\ Exact(open, H)
  BY <1>0, PeriodSound, PeriodExact
<1>2. open.starting = r.starting /\ open.slashes = r.slashes
  BY PeriodFields
<1>3. Exact(s, H \cup {d}) /\ s.starting = Put(open.starting, d, x) /\ s.slashes = open.slashes
  <2> HIDE DEF open
  <2> QED
    BY <1>0, <1>1, StartExact
<1>4. x.height = k
  OBVIOUS
<1> HIDE DEF open, x
<1>5. DOMAIN s.starting = H \cup {d} /\ Reached(s, k)
  <2> HIDE DEF s
  <2> QED
    BY <1>0, <1>2, <1>3, <1>4 DEF Tracks, Reached, Put
<1> QED
  BY <1>3, <1>5 DEF Tracks, open

LEMMA SettleTracks ==
  ASSUME NEW r, Sound(r), NEW H, NEW h, Tracks(r, H, h), NEW d \in H,
         NEW tokens \in Int, NEW stake, NEW k
  PROVE  LET s == SettleDelegation(r, d, tokens, stake, k) IN
         Tracks(s, H \ {d}, h) /\ s.slashes = r.slashes
<1> DEFINE s == SettleDelegation(r, d, tokens, stake, k)
<1>1. IsFiniteSet(H) /\ Exact(r, H)
  BY StartsFinite DEF Tracks
<1>2. /\ Exact(s, H \ {d}) /\ s.starting = Restrict(r.starting, DOMAIN r.starting \ {d})
      /\ s.slashes = r.slashes
  <2>1. Settled(s, r, H, d)
    BY <1>1, SettleExact
  <2> HIDE DEF s
  <2> QED
    BY <2>1 DEF Settled
<1> HIDE DEF s
<1>3. DOMAIN s.starting = H \ {d} /\ Reached(s, h)
  BY <1>2 DEF Tracks, Reached, Restrict
<1> QED
  BY <1>2, <1>3 DEF Tracks, s

LEMMA SlashTracks ==
  ASSUME NEW r, Sound(r), NEW H, NEW h \in Nat, NEW k \in Nat, h <= k, Tracks(r, H, h),
         NEW tokens \in Int, NEW keep
  PROVE  Tracks(RecordSlash(r, tokens, k, keep), H, k)
<1> DEFINE s == RecordSlash(r, tokens, k, keep)
           e == [height |-> k, period |-> r.period, keep |-> keep]
<1>1. IsFiniteSet(H) /\ Exact(r, H) /\ Tracks(r, H, k)
  BY StartsFinite, TracksLater DEF Tracks
<1>2. Exact(s, H) /\ s.starting = r.starting /\ s.slashes = r.slashes \cup {e}
  BY <1>1, SlashExact
<1>3. e.height = k
  OBVIOUS
<1> HIDE DEF s, e
<1> QED
  BY <1>1, <1>2, <1>3 DEF Tracks, Reached, s

(* Withdrawing settles the delegation and starts it again.                 *)
LEMMA WithdrawTracks ==
  ASSUME NEW r, Sound(r), NEW H, NEW h \in Nat, Tracks(r, H, h), NEW d \in H,
         NEW tokens \in Int, NEW stake \in Int
  PROVE  Tracks(WithdrawDelegationRewards(r, d, tokens, stake, h), H, h)
<1> DEFINE out == SettleDelegation(r, d, tokens, stake, h)
           x == [period |-> out.period - 1, stake |-> stake, height |-> h]
           s == InitializeDelegation(out, d, stake, h)
           rest == H \ {d}
<1>1. Tracks(out, rest, h)
  BY SettleTracks
<1>2. Sound(out) /\ d \in Delegators
  <2>1. d \in DOMAIN r.starting
    BY DEF Tracks
  <2>2. Sound(out)
    BY <2>1, SettleSound
  <2> HIDE DEF out
  <2> QED
    BY <2>1, <2>2 DEF Sound, RecordsOK
<1>3. WithdrawDelegationRewards(r, d, tokens, stake, h) = s
  BY DEF WithdrawDelegationRewards, Tracks
<1> HIDE DEF out
<1>4. IsFiniteSet(rest) /\ Exact(out, rest) /\ d \notin rest /\ rest \cup {d} = H
  BY <1>1, <1>2, StartsFinite DEF Tracks
<1>5. Exact(s, H) /\ s.starting = Put(out.starting, d, x) /\ s.slashes = out.slashes
  <2> HIDE DEF rest
  <2>1. Exact(s, rest \cup {d}) /\ s.starting = Put(out.starting, d, x) /\ s.slashes = out.slashes
    BY <1>2, <1>4, StartExact
  <2> QED
    BY <1>4, <2>1
<1>6. x.height = h
  OBVIOUS
<1> HIDE DEF s, x
<1>7. DOMAIN s.starting = H /\ Reached(s, h)
  BY <1>1, <1>4, <1>5, <1>6 DEF Tracks, Reached, Put
<1> QED
  BY <1>3, <1>5, <1>7 DEF Tracks

(* Records of a genesis in which D has started again: nothing is owed and  *)
(* every reference is a delegation's or the open period's.                 *)
Renewed(r, D) ==
  /\ Exact(r, D)
  /\ r.slashes = {} /\ r.outstanding = 0 /\ r.commission = 0 /\ r.current = 0

LEMMA OnlyOpenPeriod ==
  ASSUME NEW r, r.slashes = {}, r.period = 1, NEW x, x.refs = 1,
         r.historical = Put([p \in {} |-> 0], 0, x)
  PROVE  Exact(r, {})
<1>1. Pointers(r, {}) = [p \in Int |-> IF p = 0 THEN 1 ELSE 0]
  <2>1. \A p : StartsAt(r, {}, p) = {} /\ SlashesAt(r, p) = {}
    BY DEF StartsAt, SlashesAt
  <2>2. Cardinality({}) = 0
    BY FS_EmptySet
  <2>3. \A p \in Int : Pointers(r, {})[p] = 0 + 0 + IF p = 0 THEN 1 ELSE 0
    <3> TAKE p \in Int
    <3>1. Pointers(r, {})[p] = Cardinality(StartsAt(r, {}, p)) + Cardinality(SlashesAt(r, p))
                                 + IF p = 0 THEN 1 ELSE 0
      BY DEF Pointers
    <3> QED
      BY <2>1, <2>2, <3>1
  <2> QED
    BY <2>3 DEF Pointers
<1>2. DOMAIN r.historical = {0} /\ r.historical[0] = x
  BY DEF Put
<1>3. IsFiniteSet(r.slashes)
  BY FS_EmptySet
<1> QED
  BY <1>1, <1>2, <1>3 DEF Exact, Counts

LEMMA InitializedRenewed ==
  ASSUME NEW r, RecordsOK(r), DOMAIN r.historical = {}, r.slashes = {}
  PROVE  LET s == InitializeValidator(r) IN Renewed(s, {}) /\ s.starting = r.starting
<1> DEFINE x == [ratio |-> 0, refs |-> 1]
           h == Put(r.historical, 0, x)
           set == SetHistorical(r, 0, x)
           s == InitializeValidator(r)
<1>1. RecordsOK(set) /\ SameAmounts(set, r)
  BY SetHistoricalOK
<1>2. set = [r EXCEPT !.historical = h]
  BY DEF SetHistorical, RecordsOK
<1>3. h = Put([p \in {} |-> 0], 0, x) /\ x.refs = 1
  BY DEF Put
<1> HIDE DEF h, x
<1>4. set.historical = h
  BY <1>2 DEF RecordsOK
<1>5. s = [set EXCEPT !.current = 0, !.period = 1, !.commission = 0, !.outstanding = 0]
  BY DEF InitializeValidator, x
<1> HIDE DEF set, s
<1>6. s = [current |-> 0, period |-> 1, historical |-> set.historical,
           starting |-> set.starting, outstanding |-> 0, commission |-> 0,
           slashes |-> set.slashes, pool |-> set.pool, paid |-> set.paid,
           received |-> set.received, panics |-> set.panics]
  BY <1>1, <1>5 DEF RecordsOK
<1>7. /\ s.slashes = {} /\ s.period = 1 /\ s.outstanding = 0 /\ s.commission = 0
      /\ s.current = 0 /\ s.starting = r.starting /\ s.historical = h
  BY <1>1, <1>4, <1>6 DEF SameAmounts
<1>8. Exact(s, {})
  BY <1>3, <1>7, OnlyOpenPeriod
<1> QED
  BY <1>7, <1>8 DEF Renewed, s

LEMMA DonatedFields ==
  ASSUME NEW r, Sound(r)
  PROVE  LET s == DonateOutstanding(r) IN
         /\ RecordsOK(s) /\ s.historical = r.historical
         /\ s.slashes = r.slashes /\ s.starting = r.starting
<1> DEFINE pooled == r.pool + r.outstanding
           donated == [r EXCEPT !.pool = pooled]
<1>1. pooled \in Int
  BY DEF Sound, RecordsOK
<1>2. donated = DonateOutstanding(r)
  BY DEF DonateOutstanding, Sound, RecordsOK
<1> HIDE DEF pooled
<1>3. RecordsOK(donated)
  BY <1>1 DEF Sound, RecordsOK
<1>4. /\ donated.historical = r.historical /\ donated.slashes = r.slashes
      /\ donated.starting = r.starting
  BY DEF Sound, RecordsOK
<1> HIDE DEF donated
<1> QED
  BY <1>2, <1>3, <1>4

LEMMA ReinitializedRenewed ==
  ASSUME NEW r, Sound(r), DOMAIN r.historical = {}, r.slashes = {}
  PROVE  Renewed(Reinitialized(r), {}) /\ Reinitialized(r).starting = r.starting
  BY DonatedFields, InitializedRenewed DEF Reinitialized

LEMMA ClearedFields ==
  ASSUME NEW r, Sound(r)
  PROVE  LET s == Cleared(r) IN
         DOMAIN s.historical = {} /\ s.slashes = {} /\ s.starting = r.starting
<1> DEFINE h == [p \in {} |-> 0]
<1>1. Cleared(r) = [r EXCEPT !.slashes = {}, !.historical = h] /\ DOMAIN h = {}
  BY DEF Cleared
<1> HIDE DEF h
<1> QED
  BY <1>1 DEF Sound, RecordsOK

(* Restarting a delegation of such a genesis.                              *)
Rejoined(s, r, D, d, stake, h) ==
  /\ Renewed(s, D \cup {d})
  /\ DOMAIN s.starting = DOMAIN r.starting \cup {d}
  /\ s.starting[d].height = h /\ s.starting[d].stake = stake
  /\ \A e \in D : s.starting[e] = r.starting[e]

LEMMA RestartRenewed ==
  ASSUME NEW r, Sound(r), NEW D, IsFiniteSet(D), Renewed(r, D),
         NEW d \in Delegators, d \notin D, NEW tokens \in Int, NEW stake, NEW h
  PROVE  Rejoined(InitializeDelegation(IncrementValidatorPeriod(r, tokens), d, stake, h),
                  r, D, d, stake, h)
<1> DEFINE open == IncrementValidatorPeriod(r, tokens)
           x == [period |-> open.period - 1, stake |-> stake, height |-> h]
           s == InitializeDelegation(open, d, stake, h)
<1>0. Exact(r, D) /\ r.slashes = {} /\ r.outstanding = 0 /\ r.commission = 0 /\ r.current = 0
      /\ D \subseteq DOMAIN r.starting
  BY DEF Renewed, Exact
<1>1. Sound(open) /\ Exact(open, D)
  BY <1>0, PeriodSound, PeriodExact
<1>2. /\ open.starting = r.starting /\ open.slashes = {} /\ open.current = 0
      /\ open.commission = 0 /\ open.outstanding = 0
  <2>1. LET orphan == IF tokens = 0 THEN r.current ELSE 0
        IN  /\ open.starting = r.starting /\ open.slashes = r.slashes /\ open.current = 0
            /\ open.commission = r.commission /\ open.outstanding = r.outstanding - orphan
    BY PeriodFields
  <2> QED
    BY <1>0, <2>1
<1>3. /\ Exact(s, D \cup {d}) /\ s.starting = Put(open.starting, d, x)
      /\ s.slashes = open.slashes /\ s.current = open.current
      /\ s.outstanding = open.outstanding /\ s.commission = open.commission
  <2> HIDE DEF open
  <2> QED
    BY <1>1, StartExact
<1>4. x.height = h /\ x.stake = stake
  OBVIOUS
<1> HIDE DEF open, x
<1>5. /\ DOMAIN s.starting = DOMAIN r.starting \cup {d} /\ s.starting[d] = x
      /\ \A e \in D : s.starting[e] = r.starting[e]
  <2> HIDE DEF s
  <2> QED
    BY <1>0, <1>2, <1>3 DEF Put
<1> QED
  BY <1>2, <1>3, <1>4, <1>5 DEF Renewed, Rejoined, open

(***************************************************************************)
(* The records through the blocks                                          *)
(***************************************************************************)

Holders(v) == {d \in Delegators : shares[v][d] > 0}

(* Validator v of a zero-height genesis, with the delegations of D back in *)
(* its records, at height zero and with their stake.                       *)
Restarted(v, D) ==
  /\ Renewed(dist[v], D)
  /\ \A d \in D : /\ dist[v].starting[d].height = 0
                  /\ dist[v].starting[d].stake = Stake(v, d)

(* What the records are, phase by phase.                                   *)
Recorded == \A v \in Validators : Tracks(dist[v], Holders(v), height)

RecInv ==
  /\ \A v \in Validators : DOMAIN dist[v].starting = Holders(v)
  /\ phase \in {"rewards", "delegations"} => todo \subseteq Delegations
  /\ phase \in {"chain", "commission", "rewards"} \/ AtHeight => Recorded
  /\ phase = "validators" =>
       /\ \A v \in todo : dist[v].slashes = {} /\ DOMAIN dist[v].historical = {}
       /\ \A v \in Validators \ todo : Restarted(v, {})
  /\ phase = "delegations" =>
       \A v \in Validators : Restarted(v, {d \in Holders(v) : <<d, v>> \notin todo})
  /\ phase \in {"jail", "signing"} \/ AtZero =>
       \A v \in Validators : Restarted(v, Holders(v))

LEMMA CommitTracks ==
  ASSUME Inv, NEW vs, NEW index, CommitBlock(vs, index),
         \A v \in Validators : Tracks(dist'[v], Holders(v)', height + 1)
  PROVE  RecInv'
<1>1. phase = "chain" /\ phase' = "chain" /\ height' = height + 1
  BY DEF CommitBlock
<1>2. \A v \in Validators : DOMAIN dist'[v].starting = Holders(v)'
  BY DEF Tracks
<1>3. Recorded'
  BY <1>1 DEF Recorded
<1> HIDE DEF Recorded, Restarted, Holders
<1> QED
  BY <1>1, <1>2, <1>3 DEF RecInv, AtHeight, AtZero

LEMMA BlockTracks == Inv /\ LedgerInv /\ RecInv /\ Block => RecInv'
<1> SUFFICES ASSUME Inv, LedgerInv, RecInv, Block PROVE RecInv'
  OBVIOUS
<1> USE InvParts
<1>h. height \in Nat /\ height + 1 \in Nat /\ height <= height + 1
  OBVIOUS
<1>0. \A v \in Validators : Sound(dist[v]) /\ val[v].tokens \in Int
  BY DEF Records, ValidatorRecords
<1>p. phase = "chain"
  BY BlockFrame DEF NextBlock
<1>t. \A v \in Validators : /\ Tracks(dist[v], Holders(v), height)
                            /\ Tracks(dist[v], Holders(v), height + 1)
  <2>1. \A v \in Validators : Tracks(dist[v], Holders(v), height)
    BY <1>p DEF RecInv, Recorded
  <2> QED
    BY <1>h, <1>0, <2>1, TracksLater
<1>1. ASSUME NEW v \in Validators, BlockReward(v) PROVE RecInv'
  <2> DEFINE x == AllocateTokensToValidator(dist[v], Reward)
  <2>1. dist' = [dist EXCEPT ![v] = x] /\ shares' = shares /\ CommitBlock(val, powerIndex)
    BY <1>1 DEF BlockReward
  <2>2. Tracks(x, Holders(v), height + 1)
    BY <1>0, <1>t, AllocateMaps, SameMapsTrack
  <2> HIDE DEF x
  <2>3. \A u \in Validators : /\ dist'[u] = IF u = v THEN x ELSE dist[u]
                              /\ Holders(u)' = Holders(u)
    BY <2>1 DEF Holders, Records
  <2> QED
    BY <1>t, <2>1, <2>2, <2>3, CommitTracks
<1>2. ASSUME NEW v \in Validators, BlockUnjail(v) PROVE RecInv'
  <2>1. /\ dist' = dist /\ shares' = shares
        /\ CommitBlock([val EXCEPT ![v].jailed = FALSE], powerIndex \cup {v})
    BY <1>2 DEF BlockUnjail
  <2>2. \A u \in Validators : Holders(u)' = Holders(u) /\ dist'[u] = dist[u]
    BY <2>1 DEF Holders
  <2> QED
    BY <1>t, <2>1, <2>2, CommitTracks
<1>3. ASSUME NEW v \in Validators, NEW keep \in {0, 1}, BlockSlash(v, keep) PROVE RecInv'
  <2> DEFINE x == RecordSlash(dist[v], val[v].tokens, height + 1, keep)
             vs == [val EXCEPT ![v].tokens = (@ * keep) \div 2, ![v].jailed = TRUE]
  <2>1. dist' = [dist EXCEPT ![v] = x] /\ shares' = shares /\ CommitBlock(vs, powerIndex \ {v})
    BY <1>3 DEF BlockSlash
  <2>2. Tracks(x, Holders(v), height + 1)
    BY <1>h, <1>0, <1>t, SlashTracks
  <2> HIDE DEF x, vs
  <2>3. \A u \in Validators : /\ dist'[u] = IF u = v THEN x ELSE dist[u]
                              /\ Holders(u)' = Holders(u)
    BY <2>1 DEF Holders, Records
  <2> QED
    BY <1>t, <2>1, <2>2, <2>3, CommitTracks
<1>4. ASSUME NEW v \in Validators, NEW d \in Delegators, BlockDelegate(d, v) PROVE RecInv'
  <2> DEFINE x == InitializeDelegation(IncrementValidatorPeriod(dist[v], val[v].tokens), d,
                                       SelfStake, height + 1)
  <2>1. /\ CommitBlock(Joined(v), powerIndex) /\ val[v].tokens > 0 /\ shares[v][d] = 0
        /\ shares' = [shares EXCEPT ![v][d] = SharesFor(v)]
        /\ dist' = [dist EXCEPT ![v] = x]
    BY <1>4 DEF BlockDelegate, AddDelegation
  <2>2. SharesFor(v) > 0
    BY <2>1, LedgerFacts, SizesAssumption
  <2>3. d \notin Holders(v)
    BY <2>1 DEF Holders
  <2>4. Tracks(x, Holders(v) \cup {d}, height + 1)
    BY <1>h, <1>0, <1>t, <2>3, JoinTracks
  <2> HIDE DEF x
  <2>5. \A u \in Validators :
          /\ dist'[u] = IF u = v THEN x ELSE dist[u]
          /\ Holders(u)' = IF u = v THEN Holders(u) \cup {d} ELSE Holders(u)
    BY <2>1, <2>2 DEF Holders, Records
  <2> QED
    BY <1>t, <2>1, <2>4, <2>5, CommitTracks
<1>5. ASSUME NEW v \in Validators, NEW d \in Delegators, BlockUndelegate(d, v) PROVE RecInv'
  <2> DEFINE x == SettleDelegation(dist[v], d, val[v].tokens, Stake(v, d), height + 1)
  <2>1. /\ CommitBlock(Left(val, d, v), powerIndex) /\ shares[v][d] > 0
        /\ shares' = [shares EXCEPT ![v][d] = 0]
        /\ dist' = [dist EXCEPT ![v] = x]
    BY <1>5 DEF BlockUndelegate, Leaves
  <2>2. d \in Holders(v)
    BY <2>1 DEF Holders
  <2>3. Tracks(x, Holders(v) \ {d}, height + 1)
    BY <1>0, <1>t, <2>2, SettleTracks
  <2> HIDE DEF x
  <2>4. \A u \in Validators :
          /\ dist'[u] = IF u = v THEN x ELSE dist[u]
          /\ Holders(u)' = IF u = v THEN Holders(u) \ {d} ELSE Holders(u)
    BY <2>1 DEF Holders, Records
  <2> QED
    BY <1>t, <2>1, <2>3, <2>4, CommitTracks
<1>6. ASSUME NEW v \in Validators, NEW w \in Validators, NEW d \in Delegators,
             BlockRedelegate(d, v, w)
      PROVE  RecInv'
  <2> DEFINE x == SettleDelegation(dist[v], d, val[v].tokens, Stake(v, d), height + 1)
             y == InitializeDelegation(IncrementValidatorPeriod(dist[w], val[w].tokens), d,
                                       SelfStake, height + 1)
  <2>1. /\ CommitBlock(Left(Joined(w), d, v), powerIndex) /\ shares[v][d] > 0
        /\ shares[w][d] = 0 /\ v # w
        /\ shares' = [shares EXCEPT ![v][d] = 0, ![w][d] = SelfStake]
    BY <1>6 DEF BlockRedelegate, Leaves
  <2>2. dist' = [dist EXCEPT ![v] = x, ![w] = y]
    BY <1>6, <2>1 DEF BlockRedelegate, Records
  <2>3. d \in Holders(v) /\ d \notin Holders(w)
    BY <2>1 DEF Holders
  <2>4. Tracks(x, Holders(v) \ {d}, height + 1)
    BY <1>0, <1>t, <2>3, SettleTracks
  <2>5. Tracks(y, Holders(w) \cup {d}, height + 1)
    BY <1>h, <1>0, <1>t, <2>3, JoinTracks
  <2> HIDE DEF x, y
  <2>6. /\ dist'[v] = x /\ dist'[w] = y
        /\ \A u \in Validators \ {v, w} : dist'[u] = dist[u]
    BY <2>1, <2>2 DEF Records
  <2>7. /\ Holders(v)' = Holders(v) \ {d} /\ Holders(w)' = Holders(w) \cup {d}
        /\ \A u \in Validators \ {v, w} : Holders(u)' = Holders(u)
    BY <2>1, SizesAssumption DEF Holders
  <2>8. ASSUME NEW u \in Validators PROVE Tracks(dist'[u], Holders(u)', height + 1)
    <3> HIDE DEF Holders
    <3>1. CASE u = v
      BY <2>4, <2>6, <2>7, <3>1
    <3>2. CASE u = w /\ u # v
      BY <2>5, <2>6, <2>7, <3>2
    <3>3. CASE u # v /\ u # w
      BY <1>t, <2>6, <2>7, <3>3
    <3> QED
      BY <3>1, <3>2, <3>3
  <2> QED
    BY <2>1, <2>8, CommitTracks
<1> QED
  BY <1>1, <1>2, <1>3, <1>4, <1>5, <1>6 DEF Block

(***************************************************************************)
(* The records through the export                                          *)
(***************************************************************************)

LEMMA ExportTracks == Inv /\ LedgerInv /\ BondInv /\ RecInv /\ Export => RecInv'
<1> SUFFICES ASSUME Inv, LedgerInv, BondInv, RecInv, Export PROVE RecInv'
  OBVIOUS
<1> USE InvParts
<1> USE DEF control, counters, staking
<1>0. \A v \in Validators : Sound(dist[v]) /\ val[v].tokens \in Int
  BY DEF Records, ValidatorRecords
<1>k. /\ shares' = shares
      /\ \A v \in Validators : val'[v].tokens = val[v].tokens /\ val'[v].total = val[v].total
  BY ExportKeepsStakes
<1>s. \A v \in Validators : /\ Holders(v)' = Holders(v)
                            /\ \A d \in Delegators : Stake(v, d)' = Stake(v, d)
  BY <1>k DEF Holders, Stake
<1>n. height \in Nat /\ height' = height
  BY DEF Export, WithdrawCommission, ListDelegations, ListDelegationsWith, WithdrawRewards,
     ClearRecords, ClearRecordsTo, ReinitializeValidator, BeginDelegations,
     ReinitializeDelegation, ResetEntries, ResetValidator, CloseFails, ApplyUpdates, ResetSigning
<1>d. \A v \in Validators : DOMAIN dist[v].starting = Holders(v)
  BY DEF RecInv
<1>1. CASE WithdrawCommission
  <2>1. /\ phase = "commission" /\ phase' = phase
        /\ \E v \in todo : dist' = [dist EXCEPT ![v] = WithdrawValidatorCommission(dist[v])]
    BY <1>1 DEF WithdrawCommission
  <2>2. PICK v \in todo : dist' = [dist EXCEPT ![v] = WithdrawValidatorCommission(dist[v])]
    BY <2>1
  <2> DEFINE x == WithdrawValidatorCommission(dist[v])
  <2>3. v \in Validators
    BY <2>1 DEF Inv, TypeOK
  <2>4. \A u \in Validators : Tracks(dist[u], Holders(u), height)
    BY <2>1 DEF RecInv, Recorded
  <2>5. Tracks(x, Holders(v), height)
    BY <1>0, <2>3, <2>4, CommissionMaps, SameMapsTrack
  <2> HIDE DEF x
  <2>6. \A u \in Validators : dist'[u] = IF u = v THEN x ELSE dist[u]
    BY <2>2, <2>3 DEF Records, x
  <2>7. Recorded' /\ \A u \in Validators : DOMAIN dist'[u].starting = Holders(u)'
    BY <1>n, <1>s, <2>4, <2>5, <2>6 DEF Recorded, Tracks
  <2> HIDE DEF Recorded, Restarted, Holders
  <2> QED
    BY <2>1, <2>7 DEF RecInv, AtHeight, AtZero
<1>2. CASE ListDelegations
  <2>1. phase = "commission" /\ phase' = "rewards" /\ todo' = Delegations /\ dist' = dist
    BY <1>2 DEF ListDelegations, ListDelegationsWith
  <2>2. Delegations' = Delegations
    BY <1>k DEF Delegations
  <2>3. Recorded'
    BY <1>n, <1>s, <2>1 DEF RecInv, Recorded
  <2>4. \A u \in Validators : DOMAIN dist'[u].starting = Holders(u)'
    BY <1>d, <1>s, <2>1
  <2> HIDE DEF Recorded, Restarted, Holders
  <2> QED
    BY <2>1, <2>2, <2>3, <2>4 DEF RecInv, AtHeight, AtZero
<1>3. CASE WithdrawRewards
  <2>1. /\ phase = "rewards" /\ phase' = phase
        /\ \E d \in Delegators, v \in Validators :
             /\ <<d, v>> \in todo /\ todo' = todo \ {<<d, v>>}
             /\ dist' = [dist EXCEPT ![v] =
                  WithdrawDelegationRewards(dist[v], d, val[v].tokens, Stake(v, d), ctxHeight)]
    BY <1>3 DEF WithdrawRewards
  <2>2. PICK d \in Delegators, v \in Validators :
             /\ <<d, v>> \in todo /\ todo' = todo \ {<<d, v>>}
             /\ dist' = [dist EXCEPT ![v] =
                  WithdrawDelegationRewards(dist[v], d, val[v].tokens, Stake(v, d), ctxHeight)]
    BY <2>1
  <2> DEFINE x == WithdrawDelegationRewards(dist[v], d, val[v].tokens, Stake(v, d), ctxHeight)
  <2>3. ctxHeight = height /\ todo \subseteq Delegations
    BY <2>1 DEF BondInv, ContextInv, RecInv
  <2>4. d \in Holders(v)
    BY <2>2, <2>3 DEF Delegations, Holders
  <2>5. \A u \in Validators : Tracks(dist[u], Holders(u), height)
    BY <2>1 DEF RecInv, Recorded
  <2>6. Tracks(x, Holders(v), height)
    BY <1>0, <1>n, <2>3, <2>4, <2>5, StakeInt, WithdrawTracks
  <2> HIDE DEF x
  <2>7. \A u \in Validators : dist'[u] = IF u = v THEN x ELSE dist[u]
    BY <2>2 DEF Records, x
  <2>8. Recorded' /\ \A u \in Validators : DOMAIN dist'[u].starting = Holders(u)'
    BY <1>n, <1>s, <2>5, <2>6, <2>7 DEF Recorded, Tracks
  <2>9. todo' \subseteq Delegations'
    BY <1>k, <2>2, <2>3 DEF Delegations
  <2> HIDE DEF Recorded, Restarted, Holders
  <2> QED
    BY <2>1, <2>8, <2>9 DEF RecInv, AtHeight, AtZero
<1>4. CASE ClearRecords
  <2>1. /\ phase' = "validators" /\ todo' = Validators
        /\ dist' = [v \in Validators |-> Cleared(dist[v])]
    BY <1>4 DEF ClearRecords, ClearRecordsTo
  <2>2. \A v \in Validators : /\ dist'[v].slashes = {} /\ DOMAIN dist'[v].historical = {}
                              /\ dist'[v].starting = dist[v].starting
    BY <1>0, <2>1, ClearedFields
  <2>3. \A u \in Validators : DOMAIN dist'[u].starting = Holders(u)'
    BY <1>d, <1>s, <2>2
  <2> HIDE DEF Recorded, Restarted, Holders
  <2> QED
    BY <2>1, <2>2, <2>3 DEF RecInv, AtHeight, AtZero
<1>5. CASE ReinitializeValidator
  <2>1. /\ phase = "validators" /\ phase' = phase
        /\ \E v \in todo : /\ dist' = [dist EXCEPT ![v] = Reinitialized(dist[v])]
                           /\ todo' = todo \ {v}
    BY <1>5 DEF ReinitializeValidator
  <2>2. PICK v \in todo : /\ dist' = [dist EXCEPT ![v] = Reinitialized(dist[v])]
                          /\ todo' = todo \ {v}
    BY <2>1
  <2> DEFINE x == Reinitialized(dist[v])
  <2>3. v \in Validators
    BY <2>1 DEF Inv, TypeOK
  <2>4. dist[v].slashes = {} /\ DOMAIN dist[v].historical = {}
    BY <2>1 DEF RecInv
  <2>5. Renewed(x, {}) /\ x.starting = dist[v].starting
    BY <1>0, <2>3, <2>4, ReinitializedRenewed
  <2> HIDE DEF x
  <2>6. \A u \in Validators : dist'[u] = IF u = v THEN x ELSE dist[u]
    BY <2>2, <2>3 DEF Records, x
  <2>7. \A u \in todo' : dist'[u].slashes = {} /\ DOMAIN dist'[u].historical = {}
    BY <2>1, <2>2, <2>6 DEF RecInv, Inv, TypeOK
  <2>8. \A u \in Validators \ todo' : Restarted(u, {})'
    <3>1. \A u \in Validators \ todo : Renewed(dist[u], {})
      BY <2>1 DEF RecInv, Restarted
    <3> QED
      BY <2>2, <2>5, <2>6, <3>1 DEF Restarted
  <2>9. \A u \in Validators : DOMAIN dist'[u].starting = Holders(u)'
    BY <1>d, <1>s, <2>3, <2>5, <2>6
  <2> HIDE DEF Recorded, Restarted, Holders
  <2> QED
    BY <2>1, <2>7, <2>8, <2>9 DEF RecInv, AtHeight, AtZero
<1>6. CASE BeginDelegations
  <2>1. /\ phase = "validators" /\ todo = {} /\ phase' = "delegations"
        /\ todo' = Delegations /\ dist' = dist
    BY <1>6 DEF BeginDelegations
  <2>2. \A v \in Validators : {d \in Holders(v)' : <<d, v>> \notin todo'} = {}
    BY <1>s, <2>1 DEF Delegations, Holders
  <2>3. \A v \in Validators : Restarted(v, {})'
    BY <2>1 DEF RecInv, Restarted
  <2>4. Delegations' = Delegations
    BY <1>k DEF Delegations
  <2>5. \A u \in Validators : DOMAIN dist'[u].starting = Holders(u)'
    BY <1>d, <1>s, <2>1
  <2>6. \A v \in Validators : Restarted(v, {d \in Holders(v) : <<d, v>> \notin todo})'
    BY <2>2, <2>3
  <2> HIDE DEF Recorded, Restarted, Holders
  <2> QED
    BY <2>1, <2>4, <2>5, <2>6 DEF RecInv, AtHeight, AtZero
<1>7. CASE ReinitializeDelegation
  <2>1. /\ phase = "delegations" /\ phase' = phase
        /\ \E d \in Delegators, v \in Validators :
             /\ <<d, v>> \in todo /\ todo' = todo \ {<<d, v>>}
             /\ dist' = [dist EXCEPT ![v] =
                  InitializeDelegation(IncrementValidatorPeriod(dist[v], val[v].tokens),
                                       d, Stake(v, d), ctxHeight)]
    BY <1>7 DEF ReinitializeDelegation
  <2>2. PICK d \in Delegators, v \in Validators :
             /\ <<d, v>> \in todo /\ todo' = todo \ {<<d, v>>}
             /\ dist' = [dist EXCEPT ![v] =
                  InitializeDelegation(IncrementValidatorPeriod(dist[v], val[v].tokens),
                                       d, Stake(v, d), ctxHeight)]
    BY <2>1
  <2> DEFINE x == InitializeDelegation(IncrementValidatorPeriod(dist[v], val[v].tokens),
                                       d, Stake(v, d), ctxHeight)
             Back(u) == {e \in Holders(u) : <<e, u>> \notin todo}
  <2>3. ctxHeight = 0 /\ todo \subseteq Delegations
    BY <2>1 DEF BondInv, ContextInv, RecInv
  <2>4. d \in Holders(v) /\ d \notin Back(v)
    BY <2>2, <2>3 DEF Delegations, Holders
  <2>5. \A u \in Validators : Restarted(u, Back(u))
    BY <2>1 DEF RecInv
  <2>6. IsFiniteSet(Back(v))
    <3>1. Back(v) \in SUBSET Delegators
      BY DEF Holders
    <3> QED
      BY <3>1, FiniteDelegators, FS_Subset
  <2>7. \A u \in Validators : {e \in Holders(u)' : <<e, u>> \notin todo'}
                                = IF u = v THEN Back(u) \cup {d} ELSE Back(u)
    BY <1>s, <2>2, <2>4
  <2> HIDE DEF Back
  <2>8. /\ Renewed(x, Back(v) \cup {d})
        /\ DOMAIN x.starting = DOMAIN dist[v].starting \cup {d}
        /\ x.starting[d].height = 0 /\ x.starting[d].stake = Stake(v, d)
        /\ \A e \in Back(v) : x.starting[e] = dist[v].starting[e]
    <3>1. Renewed(dist[v], Back(v)) /\ Sound(dist[v]) /\ val[v].tokens \in Int
      BY <1>0, <2>5 DEF Restarted
    <3>2. Rejoined(x, dist[v], Back(v), d, Stake(v, d), ctxHeight)
      BY <2>4, <2>6, <3>1, RestartRenewed
    <3> HIDE DEF x
    <3> QED
      BY <2>3, <3>2 DEF Rejoined
  <2> HIDE DEF x
  <2>9. \A u \in Validators : dist'[u] = IF u = v THEN x ELSE dist[u]
    BY <2>2 DEF Records, x
  <2>10. ASSUME NEW u \in Validators
         PROVE  Restarted(u, {e \in Holders(u) : <<e, u>> \notin todo})'
    <3>1. CASE u = v
      <4>1. \A e \in Back(v) \cup {d} : /\ e \in Delegators
                                        /\ x.starting[e].height = 0
                                        /\ x.starting[e].stake = Stake(v, e)
        <5>1. \A e \in Back(v) : e \in Delegators
          BY DEF Back, Holders
        <5> QED
          BY <2>5, <2>8, <5>1 DEF Restarted
      <4> QED
        BY <1>s, <2>7, <2>8, <2>9, <3>1, <4>1, ZenonT(60) DEF Restarted
    <3>2. CASE u # v
      <4>1. Restarted(u, Back(u)) /\ dist'[u] = dist[u]
            /\ {e \in Holders(u)' : <<e, u>> \notin todo'} = Back(u)
        BY <2>5, <2>7, <2>9, <3>2
      <4>2. \A e \in Back(u) : e \in Delegators
        BY DEF Back, Holders
      <4> QED
        BY <1>s, <4>1, <4>2, ZenonT(60) DEF Restarted
    <3> QED
      BY <3>1, <3>2
  <2>11. \A u \in Validators : DOMAIN dist'[u].starting = Holders(u)'
    BY <1>d, <1>s, <2>4, <2>8, <2>9, ZenonT(60)
  <2>12. todo' \subseteq Delegations'
    BY <1>k, <2>2, <2>3 DEF Delegations
  <2> HIDE DEF Recorded, Restarted, Holders
  <2> QED
    BY <2>1, <2>10, <2>11, <2>12 DEF RecInv, AtHeight, AtZero
<1>8. CASE ResetEntries
  <2>1. phase = "delegations" /\ todo = {} /\ phase' = "jail" /\ dist' = dist
    BY <1>8 DEF ResetEntries
  <2>2. \A v \in Validators : Restarted(v, Holders(v))
    <3>1. \A v \in Validators : {d \in Holders(v) : <<d, v>> \notin todo} = Holders(v)
      BY <2>1
    <3> QED
      BY <2>1, <3>1 DEF RecInv
  <2>3. \A v \in Validators : Restarted(v, Holders(v))'
    BY <1>s, <2>1, <2>2 DEF Restarted, Holders
  <2>4. \A u \in Validators : DOMAIN dist'[u].starting = Holders(u)'
    BY <1>d, <1>s, <2>1
  <2> HIDE DEF Recorded, Restarted, Holders
  <2> QED
    BY <2>1, <2>3, <2>4 DEF RecInv, AtHeight, AtZero
<1>9. CASE ResetValidator \/ CloseFails \/ ApplyUpdates \/ ResetSigning
  <2>1. /\ phase \in {"jail", "signing"} /\ dist' = dist
        /\ phase' \in {"jail", "signing", "done", "panicked"} /\ exportHeight' = exportHeight
    BY <1>9 DEF ResetValidator, CloseFails, ApplyUpdates, ResetSigning
  <2>2. exportHeight = 0
    BY <2>1 DEF BondInv, JailInv, Running
  <2>3. \A v \in Validators : Restarted(v, Holders(v))
    BY <2>1 DEF RecInv
  <2>4. \A v \in Validators : Restarted(v, Holders(v))'
    BY <1>s, <2>1, <2>3 DEF Restarted, Holders
  <2>5. \A u \in Validators : DOMAIN dist'[u].starting = Holders(u)'
    BY <1>d, <1>s, <2>1
  <2> HIDE DEF Recorded, Restarted, Holders
  <2> QED
    BY <2>1, <2>2, <2>4, <2>5 DEF RecInv, AtHeight, AtZero
<1> QED
  BY <1>1, <1>2, <1>3, <1>4, <1>5, <1>6, <1>7, <1>8, <1>9 DEF Export

(***************************************************************************)
(* Genesis, import, heights and the results                                *)
(***************************************************************************)

LEMMA GenesisTracks ==
  ASSUME NEW v \in Validators
  PROVE  Tracks(GenesisRecord(v), {v}, 0)
<1> DEFINE empty == [current |-> 0, period |-> 0, historical |-> [p \in {} |-> 0],
                     starting |-> [d \in {} |-> 0], outstanding |-> 0, commission |-> 0,
                     slashes |-> {}, pool |-> 0, paid |-> 0, received |-> 0, panics |-> 0]
           one == InitializeValidator(empty)
           two == IncrementValidatorPeriod(one, SelfStake)
<1>1. RecordsOK(empty) /\ empty.received = empty.paid + empty.pool
  BY DEF RecordsOK
<1>2. DOMAIN empty.historical = {} /\ empty.slashes = {} /\ DOMAIN empty.starting = {}
  OBVIOUS
<1>3. GenesisRecord(v) = InitializeDelegation(two, v, SelfStake, 0)
  BY DEF GenesisRecord
<1> HIDE DEF empty
<1>4. Sound(one)
  BY <1>1, ReinitializedSound
<1>5. Renewed(one, {}) /\ one.starting = empty.starting
  BY <1>1, <1>2, InitializedRenewed
<1> HIDE DEF one
<1>6. Tracks(one, {}, 0)
  BY <1>2, <1>5 DEF Renewed, Tracks, Reached
<1>7. v \in Delegators /\ SelfStake \in Int /\ v \notin {} /\ 0 \in Nat /\ 0 <= 0
  BY SizesAssumption, SelfIsDelegator
<1>8. Tracks(InitializeDelegation(two, v, SelfStake, 0), {} \cup {v}, 0)
  BY <1>4, <1>6, <1>7, JoinTracks
<1>9. {} \cup {v} = {v}
  OBVIOUS
<1> QED
  BY <1>3, <1>8, <1>9

LEMMA InitTracks == Init => RecInv
<1> SUFFICES ASSUME Init PROVE RecInv
  OBVIOUS
<1>1. \A v \in Validators : Holders(v) = {v}
  BY SizesAssumption, SelfIsDelegator DEF Init, Holders
<1>2. \A v \in Validators : dist[v] = GenesisRecord(v)
  BY DEF Init
<1>3. Recorded
  BY <1>1, <1>2, GenesisTracks DEF Init, Recorded
<1>4. \A v \in Validators : DOMAIN dist[v].starting = Holders(v)
  BY <1>3 DEF Recorded, Tracks
<1>5. phase = "chain"
  BY DEF Init
<1> QED
  BY <1>3, <1>4, <1>5 DEF RecInv, AtHeight, AtZero

LEMMA NextTracks == Inv /\ LedgerInv /\ BondInv /\ RecInv /\ [Next]_vars => RecInv'
<1> SUFFICES ASSUME Inv, LedgerInv, BondInv, RecInv, [Next]_vars PROVE RecInv'
  OBVIOUS
<1> USE DEF control, counters, staking
<1>1. CASE Block
  BY <1>1, BlockTracks
<1>2. CASE Export
  BY <1>2, ExportTracks
<1>d. \A v \in Validators : DOMAIN dist[v].starting = Holders(v)
  BY DEF RecInv
<1>s. ASSUME shares' = shares, val' = val
      PROVE  /\ Delegations' = Delegations
             /\ \A v \in Validators : /\ Holders(v)' = Holders(v)
                                      /\ \A d \in Delegators : Stake(v, d)' = Stake(v, d)
  BY <1>s DEF Holders, Stake, Delegations
<1>3. CASE ExportAtHeight
  <2>1. /\ phase = "chain" /\ phase' = "done" /\ exportHeight' = height + 1
        /\ dist' = dist /\ shares' = shares /\ val' = val /\ height' = height /\ height \in Nat
    BY <1>3, InvParts DEF ExportAtHeight
  <2>2. Recorded'
    BY <1>s, <2>1 DEF RecInv, Recorded
  <2>3. exportHeight' # 0 /\ \A v \in Validators : DOMAIN dist'[v].starting = Holders(v)'
    BY <1>d, <1>s, <2>1
  <2> HIDE DEF Recorded, Restarted, Holders
  <2> QED
    BY <2>1, <2>2, <2>3 DEF RecInv, AtHeight, AtZero
<1>4. ASSUME NEW addrs \in SUBSET Addresses, BeginZeroHeight(addrs)
      PROVE  RecInv'
  <2>1. /\ phase = "chain" /\ phase' \in {"commission", "panicked"}
        /\ dist' = dist /\ shares' = shares /\ val' = val /\ height' = height
    BY <1>4 DEF BeginZeroHeight
  <2>2. Recorded'
    BY <1>s, <2>1 DEF RecInv, Recorded
  <2>3. \A v \in Validators : DOMAIN dist'[v].starting = Holders(v)'
    BY <1>d, <1>s, <2>1
  <2> HIDE DEF Recorded, Restarted, Holders
  <2> QED
    BY <2>1, <2>2, <2>3 DEF RecInv, AtHeight, AtZero
<1>5. CASE Import
  <2>1. /\ phase = "done" /\ phase' = "chain"
        /\ height' = IF exportHeight = 0 THEN 0 ELSE exportHeight - 1
        /\ dist' = dist /\ shares' = shares /\ val' = val /\ height \in Nat
    BY <1>5, InvParts DEF Import
  <2>2. CASE exportHeight # 0
    <3>1. exportHeight = height + 1 /\ Recorded
      BY <2>1, <2>2 DEF BondInv, JailInv, RecInv, AtHeight
    <3> QED
      BY <1>s, <2>1, <2>2, <3>1 DEF RecInv, Recorded, Tracks, AtHeight, AtZero
  <2>3. CASE exportHeight = 0
    <3>1. \A v \in Validators : Restarted(v, Holders(v)) /\ height' = 0
      BY <2>1, <2>3 DEF RecInv, AtZero
    <3>2. \A v \in Validators : Tracks(dist[v], Holders(v), 0)
      BY <1>d, <3>1 DEF Restarted, Renewed, Tracks, Reached
    <3> QED
      BY <1>s, <2>1, <3>1, <3>2 DEF RecInv, Recorded, Tracks, AtHeight, AtZero
  <2> QED
    BY <2>2, <2>3
<1>6. CASE UNCHANGED vars
  <2>1. /\ phase' = phase /\ todo' = todo /\ dist' = dist /\ shares' = shares /\ val' = val
        /\ height' = height /\ exportHeight' = exportHeight
    BY <1>6 DEF vars
  <2>2. /\ \A v \in Validators : Restarted(v, {})' <=> Restarted(v, {})
        /\ \A v \in Validators : Restarted(v, Holders(v))' <=> Restarted(v, Holders(v))
        /\ \A v \in Validators : Restarted(v, {d \in Holders(v) : <<d, v>> \notin todo})'
                                   <=> Restarted(v, {d \in Holders(v) : <<d, v>> \notin todo})
    BY <1>s, <2>1 DEF Restarted, Holders
  <2>3. Recorded' <=> Recorded
    BY <1>s, <2>1 DEF Recorded
  <2>4. Delegations' = Delegations /\ \A v \in Validators : DOMAIN dist'[v].starting = Holders(v)'
    BY <1>d, <1>s, <2>1
  <2> HIDE DEF Recorded, Restarted, Holders
  <2> QED
    BY <2>1, <2>2, <2>3, <2>4 DEF RecInv, AtHeight, AtZero
<1> QED
  BY <1>1, <1>2, <1>3, <1>4, <1>5, <1>6 DEF Next

(* No record names a height that the chain has not reached; the entries    *)
(* and signing infos of a zero-height genesis name height zero.            *)
HeightInv ==
  /\ \A v \in Validators : val[v].unbondingHeight <= height
  /\ skipped \/ \A v \in Validators : signing[v] <= height
  /\ AtZero /\ ~skipped => \A v \in Validators : signing[v] = 0
  /\ \A e \in entries : e.creation <= height
  /\ phase \in {"jail", "signing"} \/ AtZero => \A e \in entries : e.creation = 0

LEMMA CommitHeights ==
  ASSUME Inv, HeightInv, NEW vs \in [Validators -> ValidatorRecords], NEW index,
         CommitBlock(vs, index),
         \A v \in Validators : vs[v].unbondingHeight = val[v].unbondingHeight,
         \A e \in entries' : e \in entries \/ e.creation = height + 1
  PROVE  HeightInv'
<1>1. /\ phase = "chain" /\ phase' = "chain" /\ height' = height + 1 /\ height + 1 \in Nat
      /\ val' = UpdateValidators(vs, index, height + 1) /\ skipped' = skipped
      /\ signing' = UpdateSigning(vs, index, height + 1) /\ height \in Nat
  BY InvParts DEF CommitBlock, control
<1>2. \A v \in Validators : val[v].unbondingHeight \in Nat /\ signing[v] \in Nat
  BY InvParts DEF ValidatorRecords
<1>3. \A v \in Validators : val'[v].unbondingHeight <= height'
  BY <1>1, <1>2, UpdateFacts DEF HeightInv
<1>4. skipped' \/ \A v \in Validators : signing'[v] <= height'
  BY <1>1, <1>2 DEF HeightInv, UpdateSigning
<1>5. \A e \in entries : e.creation \in Nat
  BY InvParts DEF Entries
<1>6. \A e \in entries' : e.creation <= height'
  BY <1>1, <1>5 DEF HeightInv
<1> QED
  BY <1>1, <1>3, <1>4, <1>6 DEF HeightInv, AtZero

LEMMA JoinedLeftHeights ==
  ASSUME Inv, NEW v \in Validators, NEW d \in Delegators, NEW u \in Validators,
         NEW vs \in [Validators -> ValidatorRecords]
  PROVE  /\ Joined(v)[u].unbondingHeight = val[u].unbondingHeight
         /\ Left(vs, d, v)[u].unbondingHeight = vs[u].unbondingHeight
<1> DEFINE a == val[v].tokens + SelfStake
           b == val[v].total + SharesFor(v)
           m == vs[v].tokens - Stake(v, d)
           n == vs[v].total - shares[v][d]
<1>1. val \in [Validators -> ValidatorRecords]
  BY InvParts
<1>2. Joined(v)[u] = IF u = v THEN [val[v] EXCEPT !.tokens = a, !.total = b] ELSE val[u]
  BY <1>1 DEF Joined, ValidatorRecords
<1>3. Left(vs, d, v)[u] = IF u = v THEN [vs[v] EXCEPT !.tokens = m, !.total = n] ELSE vs[u]
  BY DEF Left, ValidatorRecords
<1> HIDE DEF a, b, m, n
<1> QED
  BY <1>1, <1>2, <1>3 DEF ValidatorRecords

LEMMA BlockHeights == Inv /\ HeightInv /\ Block => HeightInv'
<1> SUFFICES ASSUME Inv, HeightInv, Block PROVE HeightInv'
  OBVIOUS
<1> USE InvParts
<1>1. ASSUME NEW v \in Validators, BlockReward(v) PROVE HeightInv'
  BY <1>1, CommitHeights DEF BlockReward
<1>2. ASSUME NEW v \in Validators, BlockUnjail(v) PROVE HeightInv'
  <2> DEFINE vs == [val EXCEPT ![v].jailed = FALSE]
  <2>1. CommitBlock(vs, powerIndex \cup {v}) /\ entries' = entries
    BY <1>2 DEF BlockUnjail
  <2>2. vs \in [Validators -> ValidatorRecords]
    BY DEF ValidatorRecords
  <2>3. \A w \in Validators : vs[w].unbondingHeight = val[w].unbondingHeight
    BY DEF ValidatorRecords
  <2> HIDE DEF vs
  <2> QED
    BY <2>1, <2>2, <2>3, CommitHeights
<1>3. ASSUME NEW v \in Validators, NEW keep \in {0, 1}, BlockSlash(v, keep) PROVE HeightInv'
  <2> DEFINE t == (val[v].tokens * keep) \div 2
             vs == [val EXCEPT ![v].tokens = t, ![v].jailed = TRUE]
  <2>0. [val EXCEPT ![v].tokens = (@ * keep) \div 2, ![v].jailed = TRUE] = vs
    OBVIOUS
  <2>1. CommitBlock(vs, powerIndex \ {v}) /\ entries' = entries
    BY <1>3, <2>0 DEF BlockSlash
  <2>2. t \in Int
    <3>1. val[v].tokens \in Int
      BY DEF ValidatorRecords
    <3> QED
      BY <3>1
  <2> HIDE DEF t
  <2>3. vs \in [Validators -> ValidatorRecords]
    BY <2>2 DEF ValidatorRecords
  <2>4. \A w \in Validators : vs[w].unbondingHeight = val[w].unbondingHeight
    BY DEF ValidatorRecords
  <2> HIDE DEF vs
  <2> QED
    BY <2>1, <2>3, <2>4, CommitHeights
<1>4. ASSUME NEW v \in Validators, NEW d \in Delegators, BlockDelegate(d, v) PROVE HeightInv'
  <2>1. CommitBlock(Joined(v), powerIndex) /\ entries' = entries
    BY <1>4 DEF BlockDelegate
  <2>2. Joined(v) \in [Validators -> ValidatorRecords]
    BY JoinedLeftTypes
  <2>3. \A w \in Validators : Joined(v)[w].unbondingHeight = val[w].unbondingHeight
    BY JoinedLeftHeights
  <2> QED
    BY <2>1, <2>2, <2>3, CommitHeights
<1>5. ASSUME NEW v \in Validators, NEW d \in Delegators, BlockUndelegate(d, v) PROVE HeightInv'
  <2>1. /\ CommitBlock(Left(val, d, v), powerIndex)
        /\ \A e \in entries' : e \in entries \/ e.creation = height + 1
    BY <1>5 DEF BlockUndelegate
  <2>2. Left(val, d, v) \in [Validators -> ValidatorRecords]
    BY JoinedLeftTypes
  <2>3. \A w \in Validators : Left(val, d, v)[w].unbondingHeight = val[w].unbondingHeight
    BY JoinedLeftHeights
  <2> QED
    BY <2>1, <2>2, <2>3, CommitHeights
<1>6. ASSUME NEW v \in Validators, NEW w \in Validators, NEW d \in Delegators,
             BlockRedelegate(d, v, w)
      PROVE  HeightInv'
  <2>1. /\ CommitBlock(Left(Joined(w), d, v), powerIndex)
        /\ \A e \in entries' : e \in entries \/ e.creation = height + 1
    BY <1>6 DEF BlockRedelegate
  <2>2. /\ Joined(w) \in [Validators -> ValidatorRecords]
        /\ Left(Joined(w), d, v) \in [Validators -> ValidatorRecords]
    BY JoinedLeftTypes
  <2>3. \A u \in Validators :
          /\ Joined(w)[u].unbondingHeight = val[u].unbondingHeight
          /\ Left(Joined(w), d, v)[u].unbondingHeight = Joined(w)[u].unbondingHeight
    BY <2>2, JoinedLeftHeights
  <2> QED
    BY <2>1, <2>2, <2>3, CommitHeights
<1> QED
  BY <1>1, <1>2, <1>3, <1>4, <1>5, <1>6 DEF Block

LEMMA ExportHeights == Inv /\ BondInv /\ HeightInv /\ Export => HeightInv'
<1> SUFFICES ASSUME Inv, BondInv, HeightInv, Export PROVE HeightInv'
  OBVIOUS
<1> USE InvParts
<1> USE DEF control, counters, staking
<1>1. CASE \/ WithdrawCommission \/ ListDelegations \/ WithdrawRewards \/ ClearRecords
           \/ ReinitializeValidator \/ BeginDelegations \/ ReinitializeDelegation
  BY <1>1 DEF HeightInv, AtZero, WithdrawCommission, ListDelegations, ListDelegationsWith,
     WithdrawRewards, ClearRecords, ClearRecordsTo, ReinitializeValidator, BeginDelegations,
     ReinitializeDelegation
<1>2. CASE ResetEntries
  <2>1. \A e \in entries' : e.creation = 0
    BY <1>2 DEF ResetEntries, ResetEntry, Entries
  <2> QED
    BY <1>2, <2>1 DEF ResetEntries, HeightInv, AtZero
<1>3. CASE ResetValidator
  <2>1. PICK v \in todo : val' = [val EXCEPT ![v] = Reset(v)]
    BY <1>3 DEF ResetValidator
  <2>2. v \in Validators
    BY <1>3 DEF ResetValidator, Inv, TypeOK
  <2>3. Reset(v).unbondingHeight = 0
    BY <2>2 DEF Reset, ValidatorRecords
  <2>4. \A w \in Validators : val'[w].unbondingHeight <= height
    BY <2>1, <2>2, <2>3 DEF HeightInv
  <2> QED
    BY <1>3, <2>4 DEF ResetValidator, HeightInv, AtZero
<1>4. CASE CloseFails
  BY <1>4 DEF CloseFails, HeightInv, AtZero
<1>5. CASE ApplyUpdates
  <2>1. ctxHeight = height
    BY <1>5 DEF ApplyUpdates, BondInv, ContextInv
  <2>2. \/ val' = val /\ signing' = signing
        \/ /\ val' = UpdateValidators(val, powerIndex, height)
           /\ signing' = UpdateSigning(val, powerIndex, height)
    BY <1>5, <2>1 DEF ApplyUpdates
  <2>3. \A v \in Validators : val'[v].unbondingHeight <= height
    <3>1. CASE val' = val
      BY <3>1 DEF HeightInv
    <3>2. CASE val' = UpdateValidators(val, powerIndex, height)
      <4>1. ASSUME NEW v \in Validators
            PROVE  val'[v].unbondingHeight \in {height, val[v].unbondingHeight}
        <5>1. UpdateValidators(val, powerIndex, height)[v].unbondingHeight
                = IF val[v].bonded /\ v \notin BondedAfter(val, powerIndex)
                    THEN height ELSE val[v].unbondingHeight
          BY UpdateFacts
        <5> QED
          BY <3>2, <5>1
      <4> QED
        BY <4>1 DEF HeightInv
    <3> QED
      BY <2>2, <3>1, <3>2
  <2>4. skipped \/ \A v \in Validators : signing'[v] <= height
    BY <2>2 DEF HeightInv, UpdateSigning
  <2> QED
    BY <1>5, <2>3, <2>4 DEF ApplyUpdates, HeightInv, AtZero
<1>6. CASE ResetSigning
  BY <1>6 DEF ResetSigning, HeightInv, AtZero
<1> QED
  BY <1>1, <1>2, <1>3, <1>4, <1>5, <1>6 DEF Export

LEMMA NextHeights == Inv /\ BondInv /\ HeightInv /\ [Next]_vars => HeightInv'
<1> SUFFICES ASSUME Inv, BondInv, HeightInv, [Next]_vars PROVE HeightInv'
  OBVIOUS
<1> USE DEF control, counters, staking
<1>1. CASE Block
  BY <1>1, BlockHeights
<1>2. CASE ExportAtHeight
  BY <1>2, InvParts DEF ExportAtHeight, HeightInv, AtZero
<1>3. ASSUME NEW addrs \in SUBSET Addresses, BeginZeroHeight(addrs)
      PROVE  HeightInv'
  BY <1>3 DEF BeginZeroHeight, HeightInv, AtZero
<1>4. CASE Export
  BY <1>4, ExportHeights
<1>5. CASE Import
  <2>1. /\ phase = "done" /\ phase' = "chain"
        /\ height' = IF exportHeight = 0 THEN 0 ELSE exportHeight - 1
        /\ UNCHANGED <<val, signing, entries, skipped>> /\ height \in Nat
    BY <1>5, InvParts DEF Import
  <2>2. CASE exportHeight # 0
    <3>1. exportHeight = height + 1
      BY <2>1, <2>2 DEF BondInv, JailInv, AtHeight
    <3> QED
      BY <2>1, <2>2, <3>1 DEF HeightInv, AtZero
  <2>3. CASE exportHeight = 0
    <3>1. \A v \in Validators : val[v].unbondingHeight = 0
      BY <2>1, <2>3 DEF BondInv, JailInv, AtZero
    <3> QED
      BY <2>1, <2>3, <3>1 DEF HeightInv, AtZero
  <2> QED
    BY <2>2, <2>3
<1>6. CASE UNCHANGED vars
  BY <1>6 DEF vars, HeightInv, AtZero
<1> QED
  BY <1>1, <1>2, <1>3, <1>4, <1>5, <1>6 DEF Next

LEMMA InitHeights == Init => HeightInv
  BY DEF Init, HeightInv, AtZero

(* The inductive invariant of the chain and of the export.                 *)
ExportIInv == Inv /\ BondInv /\ LedgerInv /\ RecInv /\ HeightInv

LEMMA ExportInduction ==
  /\ Init => ExportIInv
  /\ ExportIInv /\ [Next]_vars => ExportIInv'
  BY InitInv, InitBonds, InitLedger, InitTracks, InitHeights,
     NextInv, NextBonds, NextLedger, NextTracks, NextHeights DEF ExportIInv

(* A zero-height genesis owes nothing, has no slash event, and holds       *)
(* exactly the delegations of the exported state, started at height zero   *)
(* with their stake: the two loops of export.go leave nobody out.          *)
THEOREM AccountingFresh == Spec => []FreshAccounting
<1>1. ExportIInv => FreshAccounting
  BY DEF ExportIInv, RecInv, AtZero, Restarted, Renewed, Holders, FreshAccounting
<1> QED
  BY <1>1, ExportInduction, PTL DEF Spec

LEMMA ExactCounts ==
  ASSUME NEW r, Sound(r), NEW D, DOMAIN r.starting = D, IsFiniteSet(D), Exact(r, D)
  PROVE  /\ \A p \in DOMAIN r.historical : r.historical[p].refs = References(r, p)
         /\ \A d \in DOMAIN r.starting : r.starting[d].period \in DOMAIN r.historical
         /\ \A e \in r.slashes : e.period \in DOMAIN r.historical
         /\ r.period - 1 \in DOMAIN r.historical
<1>1. \A p \in Int : Pointers(r, D)[p] = References(r, p)
  BY DEF Pointers, References, StartsAt, SlashesAt
<1>2. IsFiniteSet(r.slashes) /\ Counts(r.historical, Pointers(r, D))
  BY DEF Exact
<1>3. /\ DOMAIN r.historical \subseteq Int /\ r.period - 1 \in Int
      /\ \A d \in D : r.starting[d].period \in Int
      /\ \A e \in r.slashes : e.period \in Int
  BY DEF Sound, RecordsOK
<1>4. \A p \in Int : Pointers(r, D)[p] = Cardinality(StartsAt(r, D, p))
                       + Cardinality(SlashesAt(r, p)) + IF p = r.period - 1 THEN 1 ELSE 0
  BY DEF Pointers
<1>5. \A p : /\ IsFiniteSet(StartsAt(r, D, p)) /\ IsFiniteSet(SlashesAt(r, p))
             /\ Cardinality(StartsAt(r, D, p)) \in Nat /\ Cardinality(SlashesAt(r, p)) \in Nat
  BY <1>2, PointersNat
<1>6. ASSUME NEW p \in Int,
             StartsAt(r, D, p) # {} \/ SlashesAt(r, p) # {} \/ p = r.period - 1
      PROVE  p \in DOMAIN r.historical
  <2>1. /\ StartsAt(r, D, p) # {} => Cardinality(StartsAt(r, D, p)) # 0
        /\ SlashesAt(r, p) # {} => Cardinality(SlashesAt(r, p)) # 0
    BY <1>5, FS_EmptySet
  <2>2. Pointers(r, D)[p] > 0
    BY <1>4, <1>5, <1>6, <2>1
  <2> QED
    BY <1>2, <2>2 DEF Counts
<1>7. \A d \in D : d \in StartsAt(r, D, r.starting[d].period)
  BY DEF StartsAt
<1>8. \A e \in r.slashes : e \in SlashesAt(r, e.period)
  BY DEF SlashesAt
<1> QED
  BY <1>1, <1>2, <1>3, <1>6, <1>7, <1>8 DEF Counts

(* The records of a chain and of a genesis hold exactly the referenced     *)
(* periods, each with its exact count: what the export clears and writes   *)
(* again fits together, also after several exports and imports.            *)
THEOREM CountsExact == Spec => []ReferenceCounts
<1>1. ExportIInv => ReferenceCounts
  <2> SUFFICES ASSUME ExportIInv, phase \in {"chain", "done"}, NEW v \in Validators
               PROVE  LET r == dist[v] IN
                      /\ \A p \in DOMAIN r.historical : r.historical[p].refs = References(r, p)
                      /\ \A d \in DOMAIN r.starting : r.starting[d].period \in DOMAIN r.historical
                      /\ \A e \in r.slashes : e.period \in DOMAIN r.historical
                      /\ r.period - 1 \in DOMAIN r.historical
    BY DEF ReferenceCounts
  <2>1. Sound(dist[v]) /\ DOMAIN dist[v].starting = Holders(v)
    BY InvParts DEF ExportIInv, RecInv, Records
  <2>2. Exact(dist[v], Holders(v))
    BY DEF ExportIInv, RecInv, Recorded, Tracks, Restarted, Renewed, AtHeight, AtZero
  <2>3. IsFiniteSet(Holders(v))
    <3>1. Holders(v) \in SUBSET Delegators
      BY DEF Holders
    <3> QED
      BY <3>1, FiniteDelegators, FS_Subset
  <2> QED
    BY <2>1, <2>2, <2>3, ExactCounts
<1> QED
  BY <1>1, ExportInduction, PTL DEF Spec

(* No record of a chain lies in its future, whatever exports it comes      *)
(* from; only signing infos may after an early return.                     *)
THEOREM HeightsReached == Spec => []NoFutureHeights
<1>1. ExportIInv => NoFutureHeights
  BY DEF ExportIInv, RecInv, Recorded, Tracks, Reached, HeightInv, NoFutureHeights
<1> QED
  BY <1>1, ExportInduction, PTL DEF Spec

(* The reward records of every running chain and of every genesis are      *)
(* exact and lie in no future.                                             *)
THEOREM RecordsStayUsable == Spec => []RecordsUsable
<1>1. RecordsUsable <=> ReferenceCounts /\ NoFutureHeights
  BY DEF RecordsUsable
<1> QED
  BY <1>1, CountsExact, HeightsReached, PTL


(***************************************************************************)
(* Progress: each loop visits less, and no phase comes back.               *)
(***************************************************************************)
LoopsLeft ==
  [commission |-> 6, rewards |-> 5, validators |-> 4, delegations |-> 3, jail |-> 2,
   signing |-> 1]

(* More than a loop can have to visit.                                     *)
Room == Cardinality(Delegators \X Validators) + Cardinality(Validators) + 1

ExportStepsLeft == IF Running THEN LoopsLeft[phase] * Room + Cardinality(todo) ELSE 0

LEMMA FinitePairs == IsFiniteSet(Delegators \X Validators)
  BY FiniteDelegators, FiniteValidators, FS_Product

LEMMA RoomPositive ==
  /\ Room \in Nat \ {0}
  /\ \A S \in SUBSET Validators : IsFiniteSet(S) /\ Cardinality(S) \in 0 .. Room - 1
  /\ \A S \in SUBSET (Delegators \X Validators) :
       IsFiniteSet(S) /\ Cardinality(S) \in 0 .. Room - 1
<1>1. Cardinality(Delegators \X Validators) \in Nat /\ Cardinality(Validators) \in Nat
  BY FinitePairs, FiniteValidators, FS_CardinalityType
<1>2. \A S \in SUBSET Validators :
        IsFiniteSet(S) /\ Cardinality(S) \in Nat /\ Cardinality(S) <= Cardinality(Validators)
  BY FiniteValidators, FS_Subset, FS_CardinalityType
<1>3. \A S \in SUBSET (Delegators \X Validators) :
        /\ IsFiniteSet(S) /\ Cardinality(S) \in Nat
        /\ Cardinality(S) <= Cardinality(Delegators \X Validators)
  BY FinitePairs, FS_Subset, FS_CardinalityType
<1>4. \A n \in Nat : n <= Cardinality(Validators)
                         \/ n <= Cardinality(Delegators \X Validators) => n \in 0 .. Room - 1
  BY <1>1 DEF Room
<1>5. Room \in Nat \ {0}
  BY <1>1 DEF Room
<1> QED
  BY <1>2, <1>3, <1>4, <1>5

(* What is left to visit is finite and fewer than the room of a loop.      *)
LEMMA TodoFits ==
  ASSUME Inv
  PROVE  IsFiniteSet(todo) /\ Cardinality(todo) \in 0 .. Room - 1
<1>1. todo \in SUBSET Validators \/ todo \in SUBSET (Delegators \X Validators)
  BY DEF Inv, TypeOK
<1> QED
  BY <1>1, RoomPositive

LEMMA RunningPhases ==
  ASSUME Inv, Running
  PROVE  /\ phase \in {"commission", "rewards", "validators", "delegations", "jail", "signing"}
         /\ LoopsLeft[phase] \in 1 .. 6
<1>1. phase \in {"commission", "rewards", "validators", "delegations", "jail", "signing"}
  BY DEF Inv, TypeOK, Phases, Running
<1> QED
  BY <1>1 DEF LoopsLeft

LEMMA ExportStepsNat ==
  ASSUME Inv
  PROVE  ExportStepsLeft \in Nat /\ (Running => ExportStepsLeft > 0)
<1>1. CASE Running
  <2>1. LoopsLeft[phase] \in 1 .. 6 /\ Room \in Nat \ {0} /\ Cardinality(todo) \in Nat
    BY <1>1, RunningPhases, RoomPositive, TodoFits
  <2>2. LoopsLeft[phase] * Room \in Nat \ {0}
    BY <2>1
  <2> QED
    BY <1>1, <2>1, <2>2 DEF ExportStepsLeft
<1>2. CASE ~Running
  BY <1>2 DEF ExportStepsLeft
<1> QED
  BY <1>1, <1>2

(* An iteration takes one element from what is left to visit.              *)
LEMMA VisitOne ==
  ASSUME Inv, Running, phase' = phase, NEW x \in todo, todo' = todo \ {x}
  PROVE  ExportStepsLeft' < ExportStepsLeft
<1>1. IsFiniteSet(todo) /\ Cardinality(todo) \in Nat
  BY TodoFits, RoomPositive
<1>2. Cardinality(todo') = Cardinality(todo) - 1
  BY <1>1, FS_RemoveElement
<1>3. LoopsLeft[phase] * Room \in Int
  BY RunningPhases, RoomPositive
<1>4. /\ ExportStepsLeft = LoopsLeft[phase] * Room + Cardinality(todo)
      /\ ExportStepsLeft' = LoopsLeft[phase] * Room + Cardinality(todo')
  BY DEF ExportStepsLeft, Running, Room
<1> QED
  BY <1>1, <1>2, <1>3, <1>4

(* The next phase has one loop less before it.                             *)
LEMMA NextLoop ==
  ASSUME Inv, Inv', Running, Running', LoopsLeft[phase'] < LoopsLeft[phase]
  PROVE  ExportStepsLeft' < ExportStepsLeft
<1>1. Cardinality(todo) \in Nat /\ Cardinality(todo') \in 0 .. Room - 1
  <2>1. todo' \in SUBSET Validators \/ todo' \in SUBSET (Delegators \X Validators)
    BY DEF Inv, TypeOK
  <2> QED
    BY <2>1, TodoFits, RoomPositive
<1>2. LoopsLeft[phase] \in 1 .. 6 /\ LoopsLeft[phase'] \in 1 .. 6
  <2>1. phase' \in {"commission", "rewards", "validators", "delegations", "jail", "signing"}
    BY DEF Inv, TypeOK, Phases, Running
  <2> QED
    BY <2>1, RunningPhases DEF LoopsLeft
<1>3. /\ ExportStepsLeft = LoopsLeft[phase] * Room + Cardinality(todo)
      /\ ExportStepsLeft' = LoopsLeft[phase'] * Room + Cardinality(todo')
  BY DEF ExportStepsLeft, Running, Room
<1>4. Room \in Nat \ {0}
  BY RoomPositive
<1>5. LoopsLeft[phase'] * Room + Room <= LoopsLeft[phase] * Room
  BY <1>2, <1>4
<1>6. LoopsLeft[phase'] * Room \in Nat /\ LoopsLeft[phase] * Room \in Nat
  BY <1>2, <1>4
<1> QED
  BY <1>1, <1>3, <1>4, <1>5, <1>6

LEMMA ExportLess ==
  ASSUME Inv, Inv', Export
  PROVE  Running /\ ExportStepsLeft' < ExportStepsLeft
<1>1. CASE WithdrawCommission
  <2>1. PICK v \in todo : todo' = todo \ {v}
    BY <1>1 DEF WithdrawCommission
  <2> QED
    BY <1>1, <2>1, VisitOne DEF WithdrawCommission, Running
<1>2. CASE WithdrawRewards
  <2>1. PICK x \in todo : todo' = todo \ {x}
    BY <1>2 DEF WithdrawRewards
  <2> QED
    BY <1>2, <2>1, VisitOne DEF WithdrawRewards, Running
<1>3. CASE ReinitializeValidator
  <2>1. PICK v \in todo : todo' = todo \ {v}
    BY <1>3 DEF ReinitializeValidator
  <2> QED
    BY <1>3, <2>1, VisitOne DEF ReinitializeValidator, Running
<1>4. CASE ReinitializeDelegation
  <2>1. PICK x \in todo : todo' = todo \ {x}
    BY <1>4 DEF ReinitializeDelegation
  <2> QED
    BY <1>4, <2>1, VisitOne DEF ReinitializeDelegation, Running
<1>5. CASE ResetValidator
  <2>1. PICK v \in todo : todo' = todo \ {v}
    BY <1>5 DEF ResetValidator
  <2> QED
    BY <1>5, <2>1, VisitOne DEF ResetValidator, Running
<1>6. CASE ListDelegations \/ ClearRecords \/ BeginDelegations \/ ResetEntries
  <2>1. \/ phase = "commission" /\ phase' = "rewards"
        \/ phase = "rewards" /\ phase' = "validators"
        \/ phase = "validators" /\ phase' = "delegations"
        \/ phase = "delegations" /\ phase' = "jail"
    BY <1>6 DEF ListDelegations, ListDelegationsWith, ClearRecords, ClearRecordsTo,
                BeginDelegations, ResetEntries
  <2>2. Running /\ Running' /\ LoopsLeft[phase'] < LoopsLeft[phase]
    BY <2>1 DEF Running, LoopsLeft
  <2> QED
    BY <2>2, NextLoop
<1>7. CASE ApplyUpdates \/ CloseFails \/ ResetSigning
  <2>1. \/ phase = "jail" /\ phase' = "signing"
        \/ phase \in {"jail", "signing"} /\ phase' \in {"done", "panicked"}
    BY <1>7 DEF ApplyUpdates, CloseFails, ResetSigning
  <2>2. CASE phase = "jail" /\ phase' = "signing"
    <3>1. Running /\ Running' /\ LoopsLeft[phase'] < LoopsLeft[phase]
      BY <2>2 DEF Running, LoopsLeft
    <3> QED
      BY <3>1, NextLoop
  <2>3. CASE phase \in {"jail", "signing"} /\ phase' \in {"done", "panicked"}
    <3>1. Running /\ ExportStepsLeft' = 0
      BY <2>3 DEF Running, ExportStepsLeft
    <3> QED
      BY <3>1, ExportStepsNat
  <2> QED
    BY <2>1, <2>2, <2>3
<1> QED
  BY <1>1, <1>2, <1>3, <1>4, <1>5, <1>6, <1>7 DEF Export

(* The export goes through its eight loops once: while it runs nothing     *)
(* else does, and each of its steps makes a natural number smaller, for    *)
(* any number of validators and delegations.  What is left of ExportEnds   *)
(* is that the export does take its next step.                             *)
THEOREM ExportAdvances ==
  Spec => /\ [](ExportStepsLeft \in Nat)
          /\ [][Running => Export /\ ExportStepsLeft' < ExportStepsLeft]_vars
<1>1. Inv /\ Inv' /\ [Next]_vars
        => [Running => Export /\ ExportStepsLeft' < ExportStepsLeft]_vars
  <2> SUFFICES ASSUME Inv, Inv', Next, Running
               PROVE  Export /\ ExportStepsLeft' < ExportStepsLeft
    OBVIOUS
  <2>1. phase # "chain" /\ phase # "done"
    BY DEF Running
  <2>2. ~ExportAtHeight /\ ~Import
    BY <2>1 DEF ExportAtHeight, Import
  <2>3. \A addrs \in SUBSET Addresses : ~BeginZeroHeight(addrs)
    BY <2>1 DEF BeginZeroHeight
  <2>4. ~Block
    <3>1. \A vs, index : ~CommitBlock(vs, index)
      BY <2>1, Zenon DEF CommitBlock
    <3> QED
      BY <3>1, Zenon DEF Block, BlockReward, BlockUnjail, BlockSlash, BlockDelegate,
                         BlockUndelegate, BlockRedelegate
  <2>5. Export
    BY <2>2, <2>3, <2>4 DEF Next
  <2> QED
    BY <2>5, ExportLess
<1>2. Inv => ExportStepsLeft \in Nat
  BY ExportStepsNat
<1> QED
  BY <1>1, <1>2, InitInv, NextInv, PTL DEF Spec

(***************************************************************************)
(* Recursion on the numbers                                                *)
(***************************************************************************)

(* A set of numbers that is not empty has a smallest one.                  *)
LEMMA Smallest ==
  ASSUME NEW T \in SUBSET Nat, T # {}
  PROVE  \E n \in T : \A m \in T : n <= m
<1> DEFINE R == OpToRel(<, Nat)
<1>1. IsWellFoundedOn(R, Nat)
  BY NatLessThanWellFounded
<1>2. \A x, y \in Nat : <<x, y>> \in R <=> x < y
  BY DEF OpToRel
<1> HIDE DEF R
<1>3. PICK n \in T : \A m \in T : <<m, n>> \notin R
  BY <1>1, WFMin
<1>4. \A m \in T : n <= m
  <2> TAKE m \in T
  <2>1. m \in Nat /\ n \in Nat
    BY <1>3
  <2>2. ~(m < n)
    BY <1>2, <1>3, <2>1
  <2> QED BY <2>1, <2>2
<1> QED
  BY <1>3, <1>4

(* What holds of no number, or of the number before too, holds of none.    *)
LEMMA NoSmallest ==
  ASSUME NEW T \in SUBSET Nat, 0 \notin T, \A n \in Nat : n + 1 \in T => n \in T
  PROVE  T = {}
<1>1. SUFFICES ASSUME T # {} PROVE FALSE
  OBVIOUS
<1>2. PICK n \in T : \A m \in T : n <= m
  BY <1>1, Smallest
<1>3. n \in Nat /\ n # 0 /\ n - 1 \in Nat /\ (n - 1) + 1 = n
  BY <1>2
<1>4. n - 1 \in T
  BY <1>2, <1>3
<1> QED
  BY <1>2, <1>3, <1>4

Begins(f, S, first, g, n) ==
  f \in [0 .. n -> S] /\ f[0] = first /\ \A m \in 0 .. n - 1 : f[m + 1] = g[<<m, f[m]>>]

LEMMA BeginningsAgree ==
  ASSUME NEW S, NEW first \in S, NEW g \in [Nat \X S -> S], NEW k \in Nat, NEW n \in Nat,
         NEW f, NEW h, Begins(f, S, first, g, k), Begins(h, S, first, g, n)
  PROVE  \A m \in 0 .. k : m <= n => f[m] = h[m]
<1> DEFINE Bad == {m \in Nat : m <= k /\ m <= n /\ f[m] # h[m]}
<1>1. 0 \notin Bad
  BY DEF Begins
<1>2. ASSUME NEW m \in Nat, m + 1 \in Bad PROVE m \in Bad
  <2>1. m \in 0 .. k - 1 /\ m \in 0 .. n - 1
    BY <1>2
  <2>2. f[m + 1] = g[<<m, f[m]>>] /\ h[m + 1] = g[<<m, h[m]>>]
    BY <2>1 DEF Begins
  <2> QED BY <1>2, <2>1, <2>2
<1>3. Bad \in SUBSET Nat
  OBVIOUS
<1> HIDE DEF Bad
<1>4. Bad = {}
  BY <1>1, <1>2, <1>3, NoSmallest
<1> QED
  BY <1>4 DEF Bad

LEMMA BeginningExists ==
  ASSUME NEW S, NEW first \in S, NEW g \in [Nat \X S -> S]
  PROVE  \A n \in Nat : \E f : Begins(f, S, first, g, n)
<1> DEFINE Bad == {n \in Nat : ~\E f : Begins(f, S, first, g, n)}
<1>1. 0 \notin Bad
  <2>1. Begins([m \in 0 .. 0 |-> first], S, first, g, 0)
    BY DEF Begins
  <2> QED BY <2>1
<1>2. ASSUME NEW n \in Nat, n \notin Bad PROVE n + 1 \notin Bad
  <2>1. PICK f : Begins(f, S, first, g, n)
    BY <1>2
  <2> DEFINE h == [m \in 0 .. n + 1 |-> IF m <= n THEN f[m] ELSE g[<<n, f[n]>>]]
  <2>2. f \in [0 .. n -> S] /\ f[0] = first /\ \A m \in 0 .. n - 1 : f[m + 1] = g[<<m, f[m]>>]
    BY <2>1 DEF Begins
  <2>3. f[n] \in S /\ g[<<n, f[n]>>] \in S
    BY <2>2
  <2>4. h \in [0 .. n + 1 -> S] /\ h[0] = first
    BY <2>2, <2>3
  <2>5. ASSUME NEW m \in 0 .. (n + 1) - 1 PROVE h[m + 1] = g[<<m, h[m]>>]
    <3>1. m \in 0 .. n /\ h[m] = f[m]
      OBVIOUS
    <3>2. CASE m = n
      BY <3>1, <3>2
    <3>3. CASE m # n
      <4>1. m \in 0 .. n - 1 /\ m + 1 <= n
        BY <3>3
      <4> QED BY <2>2, <3>1, <4>1
    <3> QED BY <3>2, <3>3
  <2>6. Begins(h, S, first, g, n + 1)
    BY <2>4, <2>5 DEF Begins
  <2> QED BY <2>6
<1>3. Bad \in SUBSET Nat
  OBVIOUS
<1>4. \A n \in Nat : n + 1 \in Bad => n \in Bad
  BY <1>2
<1> HIDE DEF Bad
<1>5. Bad = {}
  BY <1>1, <1>3, <1>4, NoSmallest
<1> QED
  BY <1>5 DEF Bad

Recurs(f, S, first, g) ==
  f \in [Nat -> S] /\ f[0] = first /\ \A n \in Nat : f[n + 1] = g[<<n, f[n]>>]

LEMMA PrimitiveRecursion ==
  ASSUME NEW S, NEW first \in S, NEW g \in [Nat \X S -> S]
  PROVE  \E f : Recurs(f, S, first, g)
<1> DEFINE a == [n \in Nat |-> CHOOSE f : Begins(f, S, first, g, n)]
           f == [n \in Nat |-> a[n][n]]
<1>1. \A n \in Nat : Begins(a[n], S, first, g, n)
  BY BeginningExists, Zenon
<1> HIDE DEF a
<1>2. \A n \in Nat : a[n][n] \in S
  BY <1>1 DEF Begins
<1>3. f \in [Nat -> S]
  BY <1>2
<1>4. f[0] = first
  BY <1>1 DEF Begins
<1>5. ASSUME NEW n \in Nat PROVE f[n + 1] = g[<<n, f[n]>>]
  <2>1. n + 1 \in Nat /\ n \in 0 .. (n + 1) - 1 /\ n \in 0 .. n /\ n <= n + 1
    OBVIOUS
  <2>2. Begins(a[n + 1], S, first, g, n + 1) /\ Begins(a[n], S, first, g, n)
    BY <1>1, <2>1
  <2>3. a[n + 1][n + 1] = g[<<n, a[n + 1][n]>>]
    BY <2>1, <2>2 DEF Begins
  <2> DEFINE shorter == a[n]
             longer == a[n + 1]
  <2>4. Begins(shorter, S, first, g, n) /\ Begins(longer, S, first, g, n + 1)
    BY <2>2
  <2> HIDE DEF shorter, longer
  <2>5. \A m \in 0 .. n : m <= n + 1 => shorter[m] = longer[m]
    BY <2>1, <2>4, BeginningsAgree
  <2>6. \A m \in 0 .. n : m <= n + 1 => a[n][m] = a[n + 1][m]
    BY <2>5 DEF shorter, longer
  <2>7. a[n][n] = a[n + 1][n]
    BY <2>1, <2>6
  <2> QED BY <2>1, <2>3, <2>7
<1> HIDE DEF f
<1>6. Recurs(f, S, first, g)
  BY <1>3, <1>4, <1>5 DEF Recurs
<1> QED
  BY <1>6

(***************************************************************************)
(* Powers of two                                                           *)
(***************************************************************************)

IsTwo(f) == f = [n \in Nat |-> IF n = 0 THEN 1 ELSE 2 * f[n - 1]]

LEMMA TwoIs ==
  /\ Two \in [Nat -> Nat]
  /\ Two[0] = 1
  /\ \A n \in Nat : Two[n + 1] = 2 * Two[n]
<1> DEFINE S == Nat
           first == 1
           g == [p \in Nat \X S |-> 2 * p[2]]
<1>1. g \in [Nat \X S -> S] /\ first \in S
  OBVIOUS
<1> HIDE DEF S, first, g
<1>2. PICK f : Recurs(f, S, first, g)
  BY <1>1, PrimitiveRecursion
<1>3. f \in [Nat -> Nat] /\ f[0] = 1 /\ \A n \in Nat : f[n + 1] = 2 * f[n]
  BY <1>2 DEF S, first, g, Recurs
<1>4. ASSUME NEW k \in Nat PROVE f[k] = IF k = 0 THEN 1 ELSE 2 * f[k - 1]
  <2>1. CASE k = 0
    BY <1>3, <2>1
  <2>2. CASE k # 0
    <3>1. k - 1 \in Nat /\ (k - 1) + 1 = k
      BY <2>2
    <3> QED
      BY <1>3, <2>2, <3>1
  <2> QED
    BY <2>1, <2>2
<1>5. IsTwo(f)
  BY <1>3, <1>4 DEF IsTwo
<1>6. Two = CHOOSE h : IsTwo(h)
  BY DEF Two, IsTwo
<1>7. IsTwo(Two)
  BY <1>5, <1>6
<1>8. Two[0] = 1 /\ \A n \in Nat : Two[n + 1] = 2 * Two[n]
  BY <1>7 DEF IsTwo
<1> DEFINE Bad == {n \in Nat : Two[n] \notin Nat}
<1>9. Bad = {}
  <2>1. 0 \notin Bad
    BY <1>8
  <2>2. \A n \in Nat : n + 1 \in Bad => n \in Bad
    BY <1>8
  <2>3. Bad \in SUBSET Nat
    OBVIOUS
  <2> HIDE DEF Bad
  <2> QED
    BY <2>1, <2>2, <2>3, NoSmallest
<1>10. Two = [n \in Nat |-> IF n = 0 THEN 1 ELSE 2 * Two[n - 1]]
  BY <1>7 DEF IsTwo
<1>11. \A n \in Nat : Two[n] \in Nat
  BY <1>9
<1> QED
  BY <1>8, <1>10, <1>11

(* A smaller power of two divides a larger one.                            *)
LEMMA TwoDivides ==
  ASSUME NEW m \in Nat, NEW n \in Nat, m <= n
  PROVE  \E c \in Nat : c > 0 /\ Two[n] = c * Two[m]
<1> DEFINE Bad == {k \in Nat : ~\E c \in Nat : c > 0 /\ Two[m + k] = c * Two[m]}
<1>1. 0 \notin Bad
  BY TwoIs
<1>2. ASSUME NEW k \in Nat, k \notin Bad PROVE k + 1 \notin Bad
  <2>1. PICK c \in Nat : c > 0 /\ Two[m + k] = c * Two[m]
    BY <1>2
  <2>2. m + k \in Nat /\ m + (k + 1) = (m + k) + 1
    OBVIOUS
  <2>3. Two[m + (k + 1)] = 2 * (c * Two[m])
    BY <2>1, <2>2, TwoIs
  <2>4. Two[m] \in Nat /\ 2 * c \in Nat /\ 2 * c > 0
    BY <2>1, TwoIs
  <2>5. 2 * (c * Two[m]) = (2 * c) * Two[m]
    BY <2>1, <2>4
  <2> QED
    BY <2>3, <2>4, <2>5
<1>3. \A k \in Nat : k + 1 \in Bad => k \in Bad
  BY <1>2
<1>4. Bad \in SUBSET Nat
  OBVIOUS
<1> HIDE DEF Bad
<1>5. Bad = {}
  BY <1>1, <1>3, <1>4, NoSmallest
<1> USE DEF Bad
<1>6. n - m \in Nat /\ m + (n - m) = n
  OBVIOUS
<1>7. n - m \notin Bad
  BY <1>5
<1> QED
  BY <1>6, <1>7

(***************************************************************************)
(* The walk over the slash events of a delegation                          *)
(***************************************************************************)

Passages == [period : Int, stake : Int, sum : Int]

Ratio(r, p) == Historical(r, p).ratio

(* The slash events of the period p that the delegation of d has seen.     *)
EventsAt(r, d, h, p) ==
  {e \in r.slashes : /\ e.period = p
                     /\ r.starting[d].height <= e.height /\ e.height <= h}

Begun(r, d) == [period |-> r.starting[d].period, stake |-> r.starting[d].stake, sum |-> 0]

Crossed(r, acc, e) ==
  [period |-> e.period,
   stake  |-> (acc.stake * e.keep) \div 2,
   sum    |-> acc.sum + acc.stake * (Ratio(r, e.period) - Ratio(r, acc.period))]

(* The next period, after what came before.                                *)
Passing(r, d, h, p, acc) ==
  IF EventsAt(r, d, h, p) = {} THEN acc
  ELSE Crossed(r, acc, CHOOSE e \in EventsAt(r, d, h, p) : TRUE)

WalkMap(w, r, d, h) ==
  w = [p \in Int |-> IF p <= r.starting[d].period THEN Begun(r, d)
                     ELSE Passing(r, d, h, p, w[p - 1])]

IsWalk(w, r, d, h) == w \in [Int -> Passages] /\ WalkMap(w, r, d, h)

LEMMA CrossedType ==
  ASSUME NEW r, Sound(r), NEW acc \in Passages, NEW e \in r.slashes
  PROVE  Crossed(r, acc, e) \in Passages
<1>1. e.period \in Int /\ e.keep \in {0, 1}
  BY DEF Sound, RecordsOK
<1>2. Ratio(r, e.period) \in Int /\ Ratio(r, acc.period) \in Int
  BY HistoricalType DEF Ratio, Sound
<1>3. acc.stake \in Int /\ acc.sum \in Int
  BY DEF Passages
<1>4. (acc.stake * e.keep) \div 2 \in Int
  BY <1>1, <1>3
<1>5. acc.sum + acc.stake * (Ratio(r, e.period) - Ratio(r, acc.period)) \in Int
  BY <1>2, <1>3
<1> QED
  BY <1>1, <1>4, <1>5 DEF Crossed, Passages

LEMMA WalkExists ==
  ASSUME NEW r, Sound(r), NEW d \in DOMAIN r.starting, NEW h
  PROVE  \E w : IsWalk(w, r, d, h)
<1> DEFINE b == r.starting[d].period
           S == Passages
           first == Begun(r, d)
           g == [x \in Nat \X S |-> Passing(r, d, h, b + x[1] + 1, x[2])]
<1>1. b \in Int /\ first \in S
  BY DEF Sound, RecordsOK, Begun, Passages
<1>2. ASSUME NEW p, NEW acc \in S PROVE Passing(r, d, h, p, acc) \in S
  <2>1. CASE EventsAt(r, d, h, p) = {}
    BY <2>1 DEF Passing
  <2>2. CASE EventsAt(r, d, h, p) # {}
    <3> DEFINE e == CHOOSE e \in EventsAt(r, d, h, p) : TRUE
    <3>1. e \in EventsAt(r, d, h, p)
      BY <2>2
    <3>2. e \in r.slashes
      BY <3>1 DEF EventsAt
    <3> HIDE DEF e
    <3>3. Crossed(r, acc, e) \in S
      BY <3>2, CrossedType
    <3> QED
      BY <2>2, <3>3 DEF e, Passing
  <2> QED
    BY <2>1, <2>2
<1> HIDE DEF first
<1>3. g \in [Nat \X S -> S]
  BY <1>2
<1>4. PICK f : Recurs(f, S, first, g)
  <2> HIDE DEF S, g
  <2> QED
    BY <1>1, <1>3, PrimitiveRecursion
<1>5. f \in [Nat -> S] /\ f[0] = first /\ \A n \in Nat : f[n + 1] = Passing(r, d, h, b + n + 1, f[n])
  <2> HIDE DEF S
  <2> QED
    BY <1>3, <1>4 DEF Recurs
<1> DEFINE w == [p \in Int |-> IF p <= b THEN first ELSE f[p - b]]
<1> HIDE DEF b
<1>6. w \in [Int -> S]
  BY <1>1, <1>5
<1>7. ASSUME NEW p \in Int PROVE w[p] = IF p <= b THEN first ELSE Passing(r, d, h, p, w[p - 1])
  <2>1. CASE p <= b
    BY <2>1
  <2>2. CASE ~(p <= b)
    <3>1. p - b - 1 \in Nat /\ (p - b - 1) + 1 = p - b /\ b + (p - b - 1) + 1 = p
      BY <1>1, <2>2
    <3>2. w[p] = f[(p - b - 1) + 1]
      BY <2>2, <3>1
    <3>3. f[(p - b - 1) + 1] = Passing(r, d, h, p, f[p - b - 1])
      BY <1>5, <3>1
    <3>4. w[p - 1] = f[p - b - 1]
      <4>1. CASE p - 1 <= b
        <5>1. p - b - 1 = 0 /\ w[p - 1] = first
          BY <1>1, <2>2, <4>1
        <5> QED
          BY <1>5, <5>1
      <4>2. CASE ~(p - 1 <= b)
        <5>1. w[p - 1] = f[(p - 1) - b] /\ (p - 1) - b = p - b - 1
          BY <1>1, <4>2
        <5> QED
          BY <5>1
      <4> QED
        BY <4>1, <4>2
    <3> HIDE DEF w
    <3> QED
      BY <2>2, <3>2, <3>3, <3>4
  <2> QED
    BY <2>1, <2>2
<1>8. w = [p \in Int |-> IF p <= b THEN first ELSE Passing(r, d, h, p, w[p - 1])]
  <2>1. w = [p \in Int |-> w[p]]
    OBVIOUS
  <2> HIDE DEF w
  <2> QED
    BY <1>7, <2>1
<1> HIDE DEF w
<1>9. WalkMap(w, r, d, h)
  BY <1>8, Zenon DEF WalkMap, first, b
<1> QED
  BY <1>6, <1>9 DEF IsWalk

(* Where two walks see the same up to the period n, they are the same.     *)
LEMMA WalkUnique ==
  ASSUME NEW r, Sound(r), NEW d \in DOMAIN r.starting, NEW h,
         NEW w, WalkMap(w, r, d, h), NEW u, IsWalk(u, r, d, h)
  PROVE  w = u
<1> DEFINE b == r.starting[d].period
           first == Begun(r, d)
<1>0. b \in Int
  BY DEF Sound, RecordsOK
<1>1. /\ w = [p \in Int |-> IF p <= b THEN first ELSE Passing(r, d, h, p, w[p - 1])]
      /\ u = [p \in Int |-> IF p <= b THEN first ELSE Passing(r, d, h, p, u[p - 1])]
  BY Zenon DEF WalkMap, IsWalk
<1> HIDE DEF first, b
<1>p. \A p \in Int : p <= b => w[p] = u[p]
  BY <1>1
<1>q. \A p \in Int : ~(p <= b) => w[p] = Passing(r, d, h, p, w[p - 1]) /\ u[p] = Passing(r, d, h, p, u[p - 1])
  BY <1>1
<1> DEFINE Bad == {n \in Nat : w[b + n] # u[b + n]}
<1>2. \A p \in Int : p <= b => w[p] = u[p]
  BY <1>p
<1>3. ASSUME NEW n \in Nat, w[b + n] = u[b + n] PROVE w[b + (n + 1)] = u[b + (n + 1)]
  <2> DEFINE p == b + (n + 1)
  <2>1. p \in Int /\ ~(p <= b) /\ p - 1 = b + n
    BY <1>0
  <2> HIDE DEF p
  <2>2. w[p - 1] = u[p - 1]
    BY <1>3, <2>1
  <2>3. w[p] = u[p]
    BY <1>q, <2>1, <2>2
  <2> QED
    BY <2>3 DEF p
<1>4. Bad = {}
  <2>1. 0 \notin Bad
    BY <1>0, <1>2
  <2>2. \A n \in Nat : n + 1 \in Bad => n \in Bad
    BY <1>3
  <2>3. Bad \in SUBSET Nat
    OBVIOUS
  <2> HIDE DEF Bad
  <2> QED
    BY <2>1, <2>2, <2>3, NoSmallest
<1>5. ASSUME NEW p \in Int PROVE w[p] = u[p]
  <2>1. CASE p <= b
    BY <1>2, <2>1
  <2>2. CASE ~(p <= b)
    <3>1. p - b \in Nat /\ b + (p - b) = p
      BY <1>0, <2>2
    <3>2. p - b \notin Bad
      BY <1>4
    <3> QED
      BY <3>1, <3>2
  <2> QED
    BY <2>1, <2>2
<1>6. w = [p \in Int |-> w[p]] /\ u = [p \in Int |-> u[p]]
  BY <1>1
<1> QED
  BY <1>5, <1>6

LEMMA WalkIs ==
  ASSUME NEW r, Sound(r), NEW d \in DOMAIN r.starting, NEW h,
         NEW w, IsWalk(w, r, d, h), NEW ending
  PROVE  RewardWalk(r, d, ending, h)
           = [stake |-> w[ending].stake,
              sum   |-> w[ending].sum
                          + w[ending].stake * (Ratio(r, ending) - Ratio(r, w[ending].period))]
<1> DEFINE u == CHOOSE u : WalkMap(u, r, d, h)
<1>1. WalkMap(u, r, d, h)
  BY Zenon DEF IsWalk
<1>2. u = w
  <2> HIDE DEF u
  <2> QED
    BY <1>1, WalkUnique
<1>3. RewardWalk(r, d, ending, h)
        = [stake |-> u[ending].stake,
           sum   |-> u[ending].sum
                       + u[ending].stake * (Ratio(r, ending) - Ratio(r, u[ending].period))]
  BY DEF RewardWalk, WalkMap, Passing, Begun, EventsAt, Crossed, Ratio
<1> HIDE DEF u
<1> QED
  BY <1>2, <1>3

LEMMA WalkFacts ==
  ASSUME NEW r, Sound(r), NEW d \in DOMAIN r.starting, NEW h, NEW w, IsWalk(w, r, d, h)
  PROVE  /\ r.starting[d].period \in Int
         /\ \A p \in Int : w[p] \in Passages
         /\ \A p \in Int : p <= r.starting[d].period => w[p] = Begun(r, d)
         /\ \A p \in Int : ~(p <= r.starting[d].period) => w[p] = Passing(r, d, h, p, w[p - 1])
<1>1. r.starting[d].period \in Int
  BY DEF Sound, RecordsOK
<1>2. w = [p \in Int |-> IF p <= r.starting[d].period THEN Begun(r, d)
                         ELSE Passing(r, d, h, p, w[p - 1])]
  BY DEF IsWalk, WalkMap
<1>3. \A p \in Int : w[p] \in Passages
  BY DEF IsWalk
<1> QED
  BY <1>1, <1>2, <1>3

(* Where two records have the same events up to the period n, and the same *)
(* ratios where the walk uses them, the walks are the same up to n.        *)
SameView(s, r, d, h, k, n) ==
  /\ s.starting[d] = r.starting[d] /\ r.starting[d].period <= n
  /\ \A p \in Int : p <= n => EventsAt(s, d, k, p) = EventsAt(r, d, h, p)
  /\ \A p \in Int : p = r.starting[d].period \/ (p <= n /\ EventsAt(r, d, h, p) # {})
                    => Ratio(s, p) = Ratio(r, p)

SameWalk(u, w, s, r, n) == u[n] = w[n] /\ Ratio(s, w[n].period) = Ratio(r, w[n].period)

LEMMA WalksAgree ==
  ASSUME NEW r, Sound(r), NEW s, Sound(s), NEW d, d \in DOMAIN r.starting, d \in DOMAIN s.starting,
         NEW h, NEW k, NEW w, IsWalk(w, r, d, h), NEW u, IsWalk(u, s, d, k),
         NEW n, n \in Int, SameView(s, r, d, h, k, n)
  PROVE  SameWalk(u, w, s, r, n)
<1> SUFFICES ASSUME NEW b, b = r.starting[d].period, b <= n, s.starting[d] = r.starting[d],
                      \A p \in Int : p <= n => EventsAt(s, d, k, p) = EventsAt(r, d, h, p),
                      \A p \in Int : p = b \/ (p <= n /\ EventsAt(r, d, h, p) # {})
                                       => Ratio(s, p) = Ratio(r, p)
               PROVE  u[n] = w[n] /\ Ratio(s, w[n].period) = Ratio(r, w[n].period)
  BY DEF SameView, SameWalk
<1> DEFINE Same(p) == u[p] = w[p] /\ Ratio(s, w[p].period) = Ratio(r, w[p].period)
           Bad == {m \in Nat : b + m <= n /\ ~Same(b + m)}
<1>1. /\ b \in Int
      /\ \A p \in Int : w[p] \in Passages
      /\ \A p \in Int : p <= b => w[p] = Begun(r, d)
      /\ \A p \in Int : ~(p <= b) => w[p] = Passing(r, d, h, p, w[p - 1])
  BY WalkFacts
<1>2. /\ \A p \in Int : p <= b => u[p] = Begun(s, d)
      /\ \A p \in Int : ~(p <= b) => u[p] = Passing(s, d, k, p, u[p - 1])
  BY WalkFacts
<1>3. Begun(s, d) = Begun(r, d) /\ Begun(r, d).period = b
  BY DEF Begun
<1>4. Same(b)
  <2>1. b <= b /\ u[b] = w[b] /\ w[b].period = b
    BY <1>1, <1>2, <1>3
  <2> QED
    BY <1>1, <2>1
<1>5. ASSUME NEW m \in Nat, b + (m + 1) <= n, Same(b + m) PROVE Same(b + (m + 1))
  <2> DEFINE p == b + (m + 1)
             E == EventsAt(r, d, h, p)
             e == CHOOSE e \in E : TRUE
  <2>1. p \in Int /\ ~(p <= b) /\ p - 1 = b + m /\ p <= n /\ b + m \in Int
    BY <1>1, <1>5
  <2> HIDE DEF p
  <2>2. u[p - 1] = w[p - 1] /\ Ratio(s, w[p - 1].period) = Ratio(r, w[p - 1].period)
    BY <1>5, <2>1
  <2>3. EventsAt(s, d, k, p) = E /\ w[p - 1] \in Passages
    BY <1>1, <2>1
  <2>4. w[p] = Passing(r, d, h, p, w[p - 1]) /\ u[p] = Passing(s, d, k, p, w[p - 1])
    BY <1>1, <1>2, <2>1, <2>2
  <2>5. CASE E = {}
    <3>1. w[p] = w[p - 1] /\ u[p] = w[p - 1]
      BY <2>3, <2>4, <2>5 DEF Passing
    <3> QED
      BY <2>2, <3>1 DEF p
  <2>6. CASE E # {}
    <3>1. e \in E
      BY <2>6
    <3>2. e.period = p
      BY <3>1 DEF EventsAt
    <3>3. Ratio(s, p) = Ratio(r, p)
      BY <2>1, <2>6
    <3>4. w[p] = Crossed(r, w[p - 1], e) /\ u[p] = Crossed(s, w[p - 1], e)
      BY <2>3, <2>4, <2>6 DEF Passing
    <3> HIDE DEF e, E
    <3>5. u[p] = w[p] /\ w[p].period = p
      BY <2>2, <3>2, <3>3, <3>4 DEF Crossed
    <3> QED
      BY <3>3, <3>5 DEF p
  <2> QED
    BY <2>5, <2>6
<1> HIDE DEF Same
<1>6. Bad = {}
  <2>1. 0 \notin Bad
    BY <1>1, <1>4
  <2>2. \A m \in Nat : m + 1 \in Bad => m \in Bad
    <3> SUFFICES ASSUME NEW m \in Nat, m + 1 \in Bad PROVE m \in Bad
      OBVIOUS
    <3>1. b + (m + 1) <= n /\ ~Same(b + (m + 1)) /\ b + m <= n
      BY <1>1
    <3> QED
      BY <1>5, <3>1
  <2>3. Bad \in SUBSET Nat
    OBVIOUS
  <2> HIDE DEF Bad
  <2> QED
    BY <2>1, <2>2, <2>3, NoSmallest
<1>7. n - b \in Nat /\ b + (n - b) = n
  BY <1>1
<1>8. n - b \notin Bad
  BY <1>6
<1>9. Same(n)
  BY <1>7, <1>8
<1> QED
  BY <1>9 DEF Same

(***************************************************************************)
(* What a delegation is due                                                *)
(***************************************************************************)

(* What is due to the delegation of d up to the last closed period.        *)
Due(r, d, h) == RewardWalk(r, d, r.period - 1, h)

(* Delegation and slash events lie behind the height h and the open period.*)
Placed(r, d, h) ==
  /\ Sound(r) /\ d \in DOMAIN r.starting /\ h \in Nat
  /\ r.starting[d].height <= h /\ r.starting[d].period < r.period
  /\ \A e \in r.slashes : e.height <= h /\ e.period < r.period

RatiosKept(s, r, d) ==
  /\ Ratio(s, r.starting[d].period) = Ratio(r, r.starting[d].period)
  /\ \A e \in r.slashes : Ratio(s, e.period) = Ratio(r, e.period)

LEMMA DueType ==
  ASSUME NEW r, Sound(r), NEW d \in DOMAIN r.starting, NEW h, NEW ending \in Int
  PROVE  /\ RewardWalk(r, d, ending, h).stake \in Int
         /\ RewardWalk(r, d, ending, h).sum \in Int
<1>1. PICK w : IsWalk(w, r, d, h)
  BY WalkExists
<1>2. w[ending] \in Passages
  BY <1>1, WalkFacts
<1> DEFINE x == w[ending].sum
           y == w[ending].stake
           a == Ratio(r, ending)
           z == Ratio(r, w[ending].period)
<1>3. x \in Int /\ y \in Int
  BY <1>2 DEF Passages
<1>4. a \in Int /\ z \in Int
  BY HistoricalType DEF Ratio, Sound
<1>5. RewardWalk(r, d, ending, h) = [stake |-> y, sum |-> x + y * (a - z)]
  BY <1>1, WalkIs
<1> HIDE DEF x, y, a, z
<1> QED
  BY <1>3, <1>4, <1>5

(* Closing a period, or none, adds what a stake earns in it.               *)
LEMMA DueMoves ==
  ASSUME NEW r, NEW s, NEW d, NEW h, NEW k, Placed(r, d, h), Placed(s, d, k),
         s.starting[d] = r.starting[d], s.slashes = r.slashes,
         s.period = r.period \/ s.period = r.period + 1, RatiosKept(s, r, d)
  PROVE  /\ Due(s, d, k).stake = Due(r, d, h).stake
         /\ Due(s, d, k).sum = Due(r, d, h).sum
              + Due(r, d, h).stake * (Ratio(s, s.period - 1) - Ratio(r, r.period - 1))
<1> DEFINE n == r.period - 1
           m == s.period - 1
           b == r.starting[d].period
<1>1. /\ Sound(r) /\ Sound(s) /\ d \in DOMAIN r.starting /\ d \in DOMAIN s.starting
      /\ h \in Nat /\ k \in Nat
      /\ r.starting[d].height <= h /\ r.starting[d].height <= k /\ b < r.period
      /\ \A e \in r.slashes : e.height <= h /\ e.height <= k /\ e.period < r.period
  BY DEF Placed
<1>2. r.period \in Int /\ s.period \in Int /\ b \in Int /\ n \in Int /\ m \in Int
      /\ \A e \in r.slashes : e.period \in Int
  BY <1>1 DEF Sound, RecordsOK
<1>3. PICK w : IsWalk(w, r, d, h)
  BY <1>1, WalkExists
<1>4. PICK u : IsWalk(u, s, d, k)
  BY <1>1, WalkExists
<1>5. \A p \in Int : EventsAt(s, d, k, p) = EventsAt(r, d, h, p)
  BY <1>1 DEF EventsAt
<1>6. \A p \in Int : p = b \/ EventsAt(r, d, h, p) # {} => Ratio(s, p) = Ratio(r, p)
  BY DEF RatiosKept, EventsAt
<1>7. b <= n /\ m \in {n, n + 1}
  BY <1>1, <1>2
<1>v. SameView(s, r, d, h, k, n)
  BY <1>5, <1>6, <1>7 DEF SameView
<1> HIDE DEF n, m, b
<1>8. u[n] = w[n] /\ Ratio(s, w[n].period) = Ratio(r, w[n].period)
  <2>1. SameWalk(u, w, s, r, n)
    BY <1>1, <1>2, <1>3, <1>4, <1>v, WalksAgree
  <2> QED
    BY <2>1 DEF SameWalk
<1>9. u[m] = w[n]
  <2>1. CASE m = n
    BY <1>8, <2>1
  <2>2. CASE m = n + 1
    <3>1. EventsAt(s, d, k, m) = {}
      BY <1>1, <1>2, <1>5, <2>2 DEF EventsAt, n
    <3>2. ~(m <= b) /\ m - 1 = n
      BY <1>2, <1>7, <2>2
    <3>3. u[m] = Passing(s, d, k, m, u[m - 1])
      BY <1>1, <1>2, <1>4, <3>2, WalkFacts DEF b
    <3> QED
      BY <1>8, <3>1, <3>2, <3>3 DEF Passing
  <2> QED
    BY <1>7, <2>1, <2>2
<1>10. w[n] \in Passages
  BY <1>1, <1>2, <1>3, WalkFacts
<1> DEFINE x == w[n].sum
           y == w[n].stake
           z == Ratio(r, w[n].period)
           a == Ratio(r, n)
           c == Ratio(s, m)
<1>11. x \in Int /\ y \in Int
  BY <1>10 DEF Passages
<1>12. z \in Int /\ a \in Int /\ c \in Int
  BY <1>1, HistoricalType DEF Ratio, Sound
<1>13. Due(r, d, h) = [stake |-> y, sum |-> x + y * (a - z)]
  BY <1>1, <1>3, WalkIs DEF Due, n
<1>14. Due(s, d, k) = [stake |-> y, sum |-> x + y * (c - z)]
  BY <1>1, <1>4, <1>8, <1>9, WalkIs DEF Due, m
<1> HIDE DEF x, y, z, a, c
<1>15. x + y * (c - z) = x + y * (a - z) + y * (c - a)
  BY <1>11, <1>12
<1> QED
  BY <1>13, <1>14, <1>15 DEF a, c, n, m

(* A slash event closes the period and takes its part of the stake.        *)
LEMMA DueSlashed ==
  ASSUME NEW r, NEW s, NEW d, NEW h, NEW k, Placed(r, d, h), Placed(s, d, k),
         s.starting[d] = r.starting[d], s.period = r.period + 1, RatiosKept(s, r, d),
         NEW e, s.slashes = r.slashes \cup {e}, e.period = r.period, e.height = k, h <= k
  PROVE  /\ Due(s, d, k).stake = (Due(r, d, h).stake * e.keep) \div 2
         /\ Due(s, d, k).sum = Due(r, d, h).sum
              + Due(r, d, h).stake * (Ratio(s, s.period - 1) - Ratio(r, r.period - 1))
<1> DEFINE n == r.period - 1
           m == s.period - 1
           b == r.starting[d].period
<1>1. /\ Sound(r) /\ Sound(s) /\ d \in DOMAIN r.starting /\ d \in DOMAIN s.starting
      /\ h \in Nat /\ k \in Nat
      /\ r.starting[d].height <= h /\ r.starting[d].height <= k /\ b < r.period
      /\ \A f \in r.slashes : f.height <= h /\ f.height <= k /\ f.period < r.period
  BY DEF Placed
<1>2. r.period \in Int /\ s.period \in Int /\ b \in Int /\ n \in Int /\ m \in Int
      /\ \A f \in r.slashes : f.period \in Int
  BY <1>1 DEF Sound, RecordsOK
<1>3. PICK w : IsWalk(w, r, d, h)
  BY <1>1, WalkExists
<1>4. PICK u : IsWalk(u, s, d, k)
  BY <1>1, WalkExists
<1>5. \A p \in Int : p <= n => EventsAt(s, d, k, p) = EventsAt(r, d, h, p)
  <2> TAKE p \in Int
  <2> HAVE p <= n
  <2>1. e.period # p
    BY <1>2
  <2> QED
    BY <1>1, <2>1 DEF EventsAt
<1>6. \A p \in Int : p = b \/ EventsAt(r, d, h, p) # {} => Ratio(s, p) = Ratio(r, p)
  BY DEF RatiosKept, EventsAt
<1>7. b <= n /\ m = n + 1 /\ m = r.period
  BY <1>1, <1>2
<1>v. SameView(s, r, d, h, k, n)
  BY <1>5, <1>6, <1>7 DEF SameView
<1> HIDE DEF n, m, b
<1>8. u[n] = w[n] /\ Ratio(s, w[n].period) = Ratio(r, w[n].period)
  <2>1. SameWalk(u, w, s, r, n)
    BY <1>1, <1>2, <1>3, <1>4, <1>v, WalksAgree
  <2> QED
    BY <2>1 DEF SameWalk
<1>9. u[m] = Crossed(s, w[n], e)
  <2>1. EventsAt(s, d, k, m) = {e}
    <3>1. \A f \in r.slashes : f.period # m
      BY <1>1, <1>2, <1>7
    <3> QED
      BY <1>1, <1>7, <3>1 DEF EventsAt
  <2>2. ~(m <= b) /\ m - 1 = n
    BY <1>2, <1>7
  <2>3. u[m] = Passing(s, d, k, m, u[m - 1])
    BY <1>1, <1>2, <1>4, <2>2, WalkFacts DEF b
  <2>4. (CHOOSE f \in {e} : TRUE) = e
    OBVIOUS
  <2> QED
    BY <1>8, <2>1, <2>2, <2>3, <2>4 DEF Passing
<1>10. w[n] \in Passages /\ u[m] \in Passages
  BY <1>1, <1>2, <1>3, <1>4, WalkFacts
<1> DEFINE x == w[n].sum
           y == w[n].stake
           z == Ratio(r, w[n].period)
           a == Ratio(r, n)
           c == Ratio(s, m)
           t == (y * e.keep) \div 2
<1>11. x \in Int /\ y \in Int
  BY <1>10 DEF Passages
<1>12. z \in Int /\ a \in Int /\ c \in Int
  BY <1>1, HistoricalType DEF Ratio, Sound
<1>13. Due(r, d, h) = [stake |-> y, sum |-> x + y * (a - z)]
  BY <1>1, <1>3, WalkIs DEF Due, n
<1>14. u[m] = [period |-> m, stake |-> t, sum |-> x + y * (c - z)]
  BY <1>7, <1>8, <1>9 DEF Crossed
<1>15. t \in Int
  BY <1>10, <1>14 DEF Passages
<1>16. Due(s, d, k) = [stake |-> t, sum |-> x + y * (c - z) + t * (c - c)]
  <2>1. Due(s, d, k) = [stake |-> u[m].stake,
                        sum |-> u[m].sum + u[m].stake * (Ratio(s, m) - Ratio(s, u[m].period))]
    BY <1>1, <1>4, WalkIs DEF Due, m
  <2> QED
    BY <1>14, <2>1
<1> HIDE DEF x, y, z, a, c, t
<1>17. x + y * (c - z) + t * (c - c) = x + y * (a - z) + y * (c - a)
  BY <1>11, <1>12, <1>15
<1> QED
  BY <1>13, <1>16, <1>17 DEF a, c, n, m, t, y

(* Nothing is due to a delegation that starts with the open period.        *)
LEMMA DueBegun ==
  ASSUME NEW r, Sound(r), NEW d \in DOMAIN r.starting, NEW h,
         r.starting[d].period = r.period - 1
  PROVE  Due(r, d, h).stake = r.starting[d].stake /\ Due(r, d, h).sum = 0
<1> DEFINE n == r.period - 1
<1>1. PICK w : IsWalk(w, r, d, h)
  BY WalkExists
<1>2. n \in Int /\ n <= n
  BY DEF Sound, RecordsOK
<1>3. w[n] = Begun(r, d)
  BY <1>1, <1>2, WalkFacts
<1> DEFINE y == r.starting[d].stake
           a == Ratio(r, n)
<1>4. y \in Int /\ a \in Int
  BY HistoricalType DEF Ratio, Sound, RecordsOK
<1>5. Due(r, d, h) = [stake |-> y, sum |-> 0 + y * (a - a)]
  BY <1>1, <1>3, WalkIs DEF Due, Begun
<1> HIDE DEF y, a, n
<1>6. 0 + y * (a - a) = 0
  BY <1>4
<1> QED
  BY <1>5, <1>6 DEF y

(***************************************************************************)
(* What the operations leave in the amounts and in the ratios              *)
(***************************************************************************)

SameNumbers(s, r) ==
  /\ s.current = r.current /\ s.outstanding = r.outstanding /\ s.commission = r.commission
  /\ s.pool = r.pool /\ s.paid = r.paid /\ s.panics = r.panics

(* Every period that a record points at has its historical record.         *)
LEMMA Referenced ==
  ASSUME NEW r, Sound(r), NEW D, IsFiniteSet(D), Exact(r, D)
  PROVE  /\ \A d \in D : r.starting[d].period \in DOMAIN r.historical
         /\ \A e \in r.slashes : e.period \in DOMAIN r.historical
         /\ r.period - 1 \in DOMAIN r.historical
         /\ \A p \in DOMAIN r.historical : p \in Int /\ p < r.period /\ Historical(r, p).refs > 0
<1>1. IsFiniteSet(r.slashes) /\ Counts(r.historical, Pointers(r, D)) /\ D \subseteq DOMAIN r.starting
      /\ \A p \in DOMAIN r.historical : p < r.period
  BY DEF Exact
<1>2. /\ DOMAIN r.historical \subseteq Int /\ r.period - 1 \in Int
      /\ \A d \in D : r.starting[d].period \in Int
      /\ \A e \in r.slashes : e.period \in Int
  BY <1>1 DEF Sound, RecordsOK
<1>3. \A p \in Int : Pointers(r, D)[p] = Cardinality(StartsAt(r, D, p))
                       + Cardinality(SlashesAt(r, p)) + IF p = r.period - 1 THEN 1 ELSE 0
  BY DEF Pointers
<1>4. \A p : /\ IsFiniteSet(StartsAt(r, D, p)) /\ IsFiniteSet(SlashesAt(r, p))
             /\ Cardinality(StartsAt(r, D, p)) \in Nat /\ Cardinality(SlashesAt(r, p)) \in Nat
  BY <1>1, PointersNat
<1>5. ASSUME NEW p \in Int,
             StartsAt(r, D, p) # {} \/ SlashesAt(r, p) # {} \/ p = r.period - 1
      PROVE  p \in DOMAIN r.historical
  <2>1. /\ StartsAt(r, D, p) # {} => Cardinality(StartsAt(r, D, p)) # 0
        /\ SlashesAt(r, p) # {} => Cardinality(SlashesAt(r, p)) # 0
    BY <1>4, FS_EmptySet
  <2> DEFINE a == Cardinality(StartsAt(r, D, p))
             b == Cardinality(SlashesAt(r, p))
  <2>2. a \in Nat /\ b \in Nat /\ (a # 0 \/ b # 0 \/ p = r.period - 1)
    BY <1>4, <1>5, <2>1
  <2>3. Pointers(r, D)[p] = a + b + IF p = r.period - 1 THEN 1 ELSE 0
    BY <1>3
  <2> HIDE DEF a, b
  <2>4. Pointers(r, D)[p] > 0
    BY <2>2, <2>3
  <2> QED
    BY <1>1, <2>4 DEF Counts
<1>6. \A d \in D : d \in StartsAt(r, D, r.starting[d].period)
  BY DEF StartsAt
<1>7. \A e \in r.slashes : e \in SlashesAt(r, e.period)
  BY DEF SlashesAt
<1>8. \A p \in DOMAIN r.historical : Historical(r, p).refs > 0
  BY DEF Sound, RecordsOK, Historical
<1> QED
  BY <1>1, <1>2, <1>5, <1>6, <1>7, <1>8

LEMMA CheckPasses ==
  ASSUME NEW r, Sound(r), NEW condition, ~condition
  PROVE  CheckFor(r, condition) = r
<1> DEFINE k == r.panics
<1>1. CheckFor(r, condition) = [r EXCEPT !.panics = k]
  BY DEF CheckFor, Sound, RecordsOK
<1> HIDE DEF k
<1>2. k = r.panics
  BY DEF k
<1> QED
  BY <1>1, <1>2 DEF Sound, RecordsOK

LEMMA CoinsBounds ==
  ASSUME NEW amount \in Nat
  PROVE  Coins(amount) \in 0 .. amount
<1> DEFINE q == amount \div Unit
<1>1. Unit \in Nat /\ Unit > 0
  BY UnitAssumption
<1>2. q \in Int /\ q * Unit <= amount /\ amount < (q + 1) * Unit
  BY <1>1, Quotient
<1>3. q \in Nat
  BY <1>1
<1> HIDE DEF q
<1>4. q * Unit \in Nat
  BY <1>1, <1>3
<1> QED
  BY <1>2, <1>4 DEF Coins, q

LEMMA PayOutValues ==
  ASSUME NEW r, Sound(r), NEW amount
  PROVE  LET s == PayOut(r, amount) IN
         /\ s.outstanding = r.outstanding - amount
         /\ s.paid = r.paid + Coins(amount)
         /\ s.pool = r.pool + amount - Coins(amount)
         /\ s.current = r.current /\ s.commission = r.commission /\ s.panics = r.panics
<1> DEFINE o == r.outstanding - amount
           a == r.paid + Coins(amount)
           l == r.pool + amount - Coins(amount)
           s == PayOut(r, amount)
<1>1. s = [r EXCEPT !.outstanding = o, !.paid = a, !.pool = l]
  BY DEF PayOut, Sound, RecordsOK
<1> HIDE DEF o, a, l, s
<1>2. /\ s.outstanding = o /\ s.paid = a /\ s.pool = l
      /\ s.current = r.current /\ s.commission = r.commission /\ s.panics = r.panics
  BY <1>1 DEF Sound, RecordsOK
<1> QED
  BY <1>2 DEF o, a, l, s

LEMMA SetHistoricalValues ==
  ASSUME NEW r, Sound(r), NEW p \in Int, NEW x
  PROVE  LET s == SetHistorical(r, p, x) IN
         /\ s.panics = r.panics
         /\ Historical(s, p) = x
         /\ \A q : q # p => Historical(s, q) = Historical(r, q)
         /\ DOMAIN s.historical = DOMAIN r.historical \cup {p}
<1> DEFINE h == Put(r.historical, p, x)
           s == SetHistorical(r, p, x)
<1>1. s = [r EXCEPT !.historical = h]
  BY DEF SetHistorical, Sound, RecordsOK
<1>2. DOMAIN h = DOMAIN r.historical \cup {p} /\ \A q \in DOMAIN h : h[q] = IF q = p THEN x ELSE r.historical[q]
  BY DEF Put
<1> HIDE DEF h, s
<1>3. s.historical = h /\ s.panics = r.panics
  BY <1>1 DEF Sound, RecordsOK
<1>4. Historical(s, p) = x
  BY <1>2, <1>3 DEF Historical
<1>5. \A q : q # p => Historical(s, q) = Historical(r, q)
  BY <1>2, <1>3 DEF Historical
<1> QED
  BY <1>2, <1>3, <1>4, <1>5 DEF s

(* Below three references a further one changes the count and no more.     *)
LEMMA IncrementValues ==
  ASSUME NEW r, Sound(r), NEW p \in Int, Historical(r, p).refs <= 2
  PROVE  LET s == IncrementReferenceCount(r, p) IN
         SameNumbers(s, r) /\ \A q : Ratio(s, q) = Ratio(r, q)
<1> DEFINE h == Historical(r, p)
           x == [ratio |-> h.ratio, refs |-> h.refs + 1]
           set == SetHistorical(r, p, x)
           s == IncrementReferenceCount(r, p)
<1>1. h.ratio \in Int /\ h.refs \in Nat /\ ~(h.refs > 2)
  BY HistoricalType DEF Sound
<1>2. x \in [ratio : Int, refs : Nat \ {0}] /\ x.ratio = h.ratio
  BY <1>1
<1> HIDE DEF x
<1>3. Sound(set) /\ SameAmounts(set, r)
  BY <1>2, SetHistoricalSound
<1>4. set.panics = r.panics /\ Historical(set, p) = x
      /\ \A q : q # p => Historical(set, q) = Historical(r, q)
  BY SetHistoricalValues
<1>5. s = CheckFor(set, h.refs > 2)
  BY DEF IncrementReferenceCount, x
<1> HIDE DEF h, set, s
<1>6. s = set
  BY <1>1, <1>3, <1>5, CheckPasses
<1>7. \A q : Ratio(s, q) = Ratio(r, q)
  <2> TAKE q
  <2>1. CASE q = p
    BY <1>2, <1>4, <1>6, <2>1 DEF Ratio, h
  <2>2. CASE q # p
    BY <1>4, <1>6, <2>2 DEF Ratio
  <2> QED
    BY <2>1, <2>2
<1> QED
  BY <1>3, <1>4, <1>6, <1>7 DEF SameNumbers, SameAmounts, s

(* A reference that is counted can be given back.                          *)
LEMMA DecrementValues ==
  ASSUME NEW r, Sound(r), NEW p \in Int, Historical(r, p).refs > 0
  PROVE  LET s == DecrementReferenceCount(r, p) IN
         /\ SameNumbers(s, r)
         /\ \A q : q # p => Historical(s, q) = Historical(r, q)
         /\ \A q \in DOMAIN s.historical : q \in DOMAIN r.historical /\ Ratio(s, q) = Ratio(r, q)
<1> DEFINE h == Historical(r, p)
           x == [ratio |-> h.ratio, refs |-> h.refs - 1]
           s == DecrementReferenceCount(r, p)
<1>0. h.ratio \in Int /\ h.refs \in Nat /\ h.refs # 0
  BY HistoricalType DEF Sound
<1>p. p \in DOMAIN r.historical
  BY DEF Historical
<1>1. CASE h.refs = 1
  <2> DEFINE rest == Restrict(r.historical, DOMAIN r.historical \ {p})
  <2>1. s = DropHistorical(r, p)
    BY <1>1 DEF DecrementReferenceCount
  <2>2. DropHistorical(r, p) = [r EXCEPT !.historical = rest]
    BY DEF DropHistorical, Sound, RecordsOK
  <2>3. SameAmounts(s, r)
    BY <2>1, DropHistoricalSound
  <2>4. DOMAIN rest = DOMAIN r.historical \ {p} /\ \A q \in DOMAIN rest : rest[q] = r.historical[q]
    BY DEF Restrict
  <2> HIDE DEF rest, s, h
  <2>5. s.historical = rest /\ s.panics = r.panics
    BY <2>1, <2>2 DEF Sound, RecordsOK
  <2>6. \A q : q # p => Historical(s, q) = Historical(r, q)
    BY <2>4, <2>5 DEF Historical
  <2>7. \A q \in DOMAIN s.historical : q \in DOMAIN r.historical /\ Ratio(s, q) = Ratio(r, q)
    BY <2>4, <2>5 DEF Historical, Ratio
  <2> QED
    BY <2>3, <2>5, <2>6, <2>7 DEF SameNumbers, SameAmounts, s
<1>2. CASE h.refs # 1
  <2>1. s = SetHistorical(r, p, x)
    BY <1>0, <1>2 DEF DecrementReferenceCount
  <2>2. x \in [ratio : Int, refs : Nat \ {0}] /\ x.ratio = h.ratio
    BY <1>0, <1>2
  <2> HIDE DEF x
  <2>3. SameAmounts(s, r)
    BY <2>1, <2>2, SetHistoricalSound
  <2>4. /\ s.panics = r.panics /\ Historical(s, p) = x
        /\ \A q : q # p => Historical(s, q) = Historical(r, q)
        /\ DOMAIN s.historical = DOMAIN r.historical \cup {p}
    BY <2>1, SetHistoricalValues
  <2> HIDE DEF s, h
  <2>5. ASSUME NEW q \in DOMAIN s.historical
        PROVE  q \in DOMAIN r.historical /\ Ratio(s, q) = Ratio(r, q)
    <3>1. q \in DOMAIN r.historical
      BY <1>p, <2>4
    <3>2. CASE q = p
      BY <2>2, <2>4, <3>1, <3>2 DEF Ratio, h
    <3>3. CASE q # p
      BY <2>4, <3>1, <3>3 DEF Ratio
    <3> QED
      BY <3>1, <3>2, <3>3
  <2> QED
    BY <2>3, <2>4, <2>5 DEF SameNumbers, SameAmounts, s
<1> QED
  BY <1>1, <1>2

(***************************************************************************)
(* Amounts of the delegators that fit into a bound                         *)
(***************************************************************************)

(* f is at least the sum of the amounts a up to each address.              *)
SumBound(f, a) ==
  /\ f \in [0 .. NumDelegators -> Int]
  /\ f[0] = 0
  /\ \A d \in Delegators : f[d - 1] + a[d] <= f[d]
  /\ \A i, j \in 0 .. NumDelegators : i <= j => f[i] <= f[j]

(* The amounts a of the delegators are together no more than total.        *)
Covered(a, total) == \E f : SumBound(f, a) /\ f[NumDelegators] <= total

Amounts == [Delegators -> Int]

LEMMA SumIsCovered ==
  ASSUME NEW a, NEW total \in Int, SumsTo(a, total)
  PROVE  Covered(a, total)
<1>1. PICK f : RunningSum(f, a) /\ f[NumDelegators] = total
  BY DEF SumsTo
<1>2. \A d \in Delegators : d \in 0 .. NumDelegators
  BY NumDelegatorsNat
<1>3. \A d \in Delegators : f[d - 1] + a[d] <= f[d]
  BY <1>1, <1>2 DEF RunningSum
<1>4. SumBound(f, a)
  BY <1>1, <1>3 DEF RunningSum, SumBound
<1> QED
  BY <1>1, <1>4 DEF Covered

LEMMA NothingCovered ==
  ASSUME NEW total \in Nat
  PROVE  Covered([d \in Delegators |-> 0], total)
<1> DEFINE f == [i \in 0 .. NumDelegators |-> 0]
           a == [d \in Delegators |-> 0]
<1>0. NumDelegators \in Nat /\ Delegators = 1 .. NumDelegators
  BY NumDelegatorsNat
<1>1. f \in [0 .. NumDelegators -> Int] /\ f[0] = 0 /\ f[NumDelegators] = 0
  BY <1>0
<1>2. \A d \in Delegators : f[d - 1] + a[d] <= f[d]
  <2> TAKE d \in Delegators
  <2>1. f[d - 1] = 0 /\ f[d] = 0 /\ a[d] = 0
    BY <1>0
  <2> QED
    BY <2>1
<1>3. \A i, j \in 0 .. NumDelegators : f[i] <= f[j]
  OBVIOUS
<1> HIDE DEF f, a
<1>4. SumBound(f, a)
  BY <1>1, <1>2, <1>3, Zenon DEF SumBound
<1>5. f[NumDelegators] <= total
  BY <1>1
<1>6. Covered(a, total)
  BY <1>4, <1>5, Zenon DEF Covered
<1> QED
  BY <1>6 DEF a

LEMMA CoveredLess ==
  ASSUME NEW a \in Amounts, NEW b \in Amounts, NEW total \in Int, NEW more \in Int,
         Covered(a, total), total <= more, \A d \in Delegators : b[d] <= a[d]
  PROVE  Covered(b, more)
<1>1. PICK f : SumBound(f, a) /\ f[NumDelegators] <= total
  BY DEF Covered
<1>2. /\ NumDelegators \in 0 .. NumDelegators
      /\ \A d \in Delegators : d \in 0 .. NumDelegators /\ d - 1 \in 0 .. NumDelegators
  BY NumDelegatorsNat
<1>3. \A i \in 0 .. NumDelegators : f[i] \in Int
  BY <1>1 DEF SumBound
<1>4. ASSUME NEW d \in Delegators PROVE f[d - 1] + b[d] <= f[d]
  <2>1. f[d - 1] \in Int /\ f[d] \in Int /\ a[d] \in Int /\ b[d] \in Int /\ b[d] <= a[d]
        /\ f[d - 1] + a[d] <= f[d]
    BY <1>1, <1>2, <1>3 DEF SumBound, Amounts
  <2> QED
    BY <2>1
<1>5. SumBound(f, b)
  BY <1>1, <1>4 DEF SumBound
<1>6. f[NumDelegators] <= more
  BY <1>1, <1>2, <1>3
<1> QED
  BY <1>5, <1>6 DEF Covered

(* A gain per token, over the stakes of the delegators.                    *)
Gained(a, k, c) == [d \in Delegators |-> a[d] + k[d] * c]

LEMMA CoveredGain ==
  ASSUME NEW a \in Amounts, NEW k \in Amounts, NEW A \in Int, NEW T \in Int, NEW c \in Nat,
         Covered(a, A), Covered(k, T)
  PROVE  Covered(Gained(a, k, c), A + T * c)
<1>1. PICK f : SumBound(f, a) /\ f[NumDelegators] <= A
  BY DEF Covered
<1>2. PICK g : SumBound(g, k) /\ g[NumDelegators] <= T
  BY DEF Covered
<1> DEFINE h == [i \in 0 .. NumDelegators |-> f[i] + g[i] * c]
           b == Gained(a, k, c)
<1>3. /\ NumDelegators \in 0 .. NumDelegators /\ 0 \in 0 .. NumDelegators
      /\ \A d \in Delegators : d \in 0 .. NumDelegators /\ d - 1 \in 0 .. NumDelegators
  BY NumDelegatorsNat
<1>4. \A i \in 0 .. NumDelegators : f[i] \in Int /\ g[i] \in Int /\ g[i] * c \in Int
  BY <1>1, <1>2 DEF SumBound
<1>5. h \in [0 .. NumDelegators -> Int]
  BY <1>4
<1>6. \A i \in 0 .. NumDelegators : h[i] = f[i] + g[i] * c
  OBVIOUS
<1>7. h[0] = 0
  <2>1. f[0] = 0 /\ g[0] = 0
    BY <1>1, <1>2 DEF SumBound
  <2> QED
    BY <1>3, <1>6, <2>1
<1> HIDE DEF h
<1>8. ASSUME NEW d \in Delegators PROVE h[d - 1] + b[d] <= h[d]
  <2>1. /\ f[d - 1] \in Int /\ f[d] \in Int /\ g[d - 1] \in Int /\ g[d] \in Int
        /\ a[d] \in Int /\ k[d] \in Int
        /\ f[d - 1] + a[d] <= f[d] /\ g[d - 1] + k[d] <= g[d]
    BY <1>1, <1>2, <1>3, <1>4 DEF SumBound, Amounts
  <2>2. (g[d - 1] + k[d]) * c <= g[d] * c
    BY <2>1, TimesMonotone
  <2>3. (g[d - 1] + k[d]) * c = g[d - 1] * c + k[d] * c
    BY <2>1
  <2>4. b[d] = a[d] + k[d] * c
    BY DEF Gained
  <2>5. h[d] = f[d] + g[d] * c /\ h[d - 1] = f[d - 1] + g[d - 1] * c
    BY <1>3, <1>6
  <2>6. g[d - 1] * c \in Int /\ k[d] * c \in Int /\ g[d] * c \in Int
    BY <2>1
  <2> HIDE DEF b
  <2> QED
    BY <2>1, <2>2, <2>3, <2>4, <2>5, <2>6
<1>9. ASSUME NEW i \in 0 .. NumDelegators, NEW j \in 0 .. NumDelegators, i <= j
      PROVE  h[i] <= h[j]
  <2>1. f[i] <= f[j] /\ g[i] <= g[j]
    BY <1>1, <1>2, <1>9 DEF SumBound
  <2>2. g[i] * c <= g[j] * c
    BY <1>4, <2>1, TimesMonotone
  <2> QED
    BY <1>4, <1>6, <2>1, <2>2
<1>10. h[NumDelegators] <= A + T * c
  <2>1. g[NumDelegators] * c <= T * c
    BY <1>2, <1>3, <1>4, TimesMonotone
  <2> QED
    BY <1>1, <1>3, <1>4, <1>6, <2>1
<1>11. SumBound(h, b)
  BY <1>5, <1>7, <1>8, <1>9 DEF SumBound
<1> QED
  BY <1>10, <1>11 DEF Covered

(* Non-negative amounts are each within the bound.                         *)
LEMMA CoveredBound ==
  ASSUME NEW a \in Amounts, NEW total \in Int, Covered(a, total)
  PROVE  total >= 0 /\ \A d \in Delegators : a[d] <= total
<1>1. PICK f : SumBound(f, a) /\ f[NumDelegators] <= total
  BY DEF Covered
<1>2. /\ NumDelegators \in 0 .. NumDelegators /\ 0 \in 0 .. NumDelegators
      /\ \A d \in Delegators : /\ d \in 0 .. NumDelegators /\ d - 1 \in 0 .. NumDelegators
                               /\ 0 <= d - 1 /\ d <= NumDelegators
      /\ 0 <= NumDelegators
  BY NumDelegatorsNat
<1>3. \A i \in 0 .. NumDelegators : f[i] \in Int
  BY <1>1 DEF SumBound
<1>4. 0 <= f[NumDelegators]
  BY <1>1, <1>2 DEF SumBound
<1>5. ASSUME NEW d \in Delegators PROVE a[d] <= total
  <2>1. 0 <= f[d - 1] /\ f[d] <= f[NumDelegators] /\ f[d - 1] + a[d] <= f[d] /\ a[d] \in Int
    BY <1>1, <1>2 DEF SumBound, Amounts
  <2> QED
    BY <1>1, <1>2, <1>3, <2>1
<1> QED
  BY <1>1, <1>2, <1>3, <1>4, <1>5

(* Another amount for one delegator.                                       *)
LEMMA CoveredChange ==
  ASSUME NEW a \in Amounts, NEW total \in Int, Covered(a, total),
         NEW d \in Delegators, NEW n \in Nat
  PROVE  Covered([a EXCEPT ![d] = n], total + n - a[d])
<1>1. PICK f : SumBound(f, a) /\ f[NumDelegators] <= total
  BY DEF Covered
<1> DEFINE x == n - a[d]
           g == [i \in 0 .. NumDelegators |-> IF i < d THEN f[i] ELSE f[i] + x]
           b == [a EXCEPT ![d] = n]
<1>2. d \in 1 .. NumDelegators /\ NumDelegators \in Nat /\ a[d] \in Int /\ x \in Int
  BY NumDelegatorsNat DEF Amounts
<1>3. f \in [0 .. NumDelegators -> Int] /\ f[0] = 0
      /\ \A i, j \in 0 .. NumDelegators : i <= j => f[i] <= f[j]
      /\ \A e \in Delegators : f[e - 1] + a[e] <= f[e]
  BY <1>1 DEF SumBound
<1>4. g \in [0 .. NumDelegators -> Int]
  BY <1>2, <1>3
<1>5. g[0] = 0
  BY <1>2, <1>3
<1>6. ASSUME NEW e \in Delegators PROVE g[e - 1] + b[e] <= g[e]
  <2>0. e \in 1 .. NumDelegators /\ e \in 0 .. NumDelegators /\ e - 1 \in 0 .. NumDelegators
    BY <1>2, NumDelegatorsNat
  <2>1. e \in 1 .. NumDelegators /\ e - 1 \in 0 .. NumDelegators /\ a[e] \in Int
        /\ f[e - 1] \in Int /\ f[e] \in Int /\ f[e - 1] + a[e] <= f[e]
    <3>1. a[e] \in Int
      BY DEF Amounts
    <3> QED
      BY <1>3, <2>0, <3>1
  <2>2. g[e] = (IF e < d THEN f[e] ELSE f[e] + x)
        /\ g[e - 1] = (IF e - 1 < d THEN f[e - 1] ELSE f[e - 1] + x)
    BY <2>1, <1>2
  <2>3. b[e] = IF e = d THEN n ELSE a[e]
    BY DEF Amounts
  <2> HIDE DEF g, b
  <2> QED
    BY <1>2, <2>1, <2>2, <2>3
<1>7. ASSUME NEW i \in 0 .. NumDelegators, NEW j \in 0 .. NumDelegators, i <= j
      PROVE  g[i] <= g[j]
  <2>1. f[i] \in Int /\ f[j] \in Int /\ f[i] <= f[j]
    BY <1>3, <1>7
  <2>2. g[i] = (IF i < d THEN f[i] ELSE f[i] + x) /\ g[j] = (IF j < d THEN f[j] ELSE f[j] + x)
    OBVIOUS
  <2>3. ASSUME i < d, ~(j < d) PROVE f[i] <= f[j] + x
    <3>1. d - 1 \in 0 .. NumDelegators /\ d \in 0 .. NumDelegators /\ i <= d - 1 /\ d <= j
      BY <1>2, <2>3
    <3>2. f[i] <= f[d - 1] /\ f[d] <= f[j] /\ f[d - 1] + a[d] <= f[d]
          /\ f[d - 1] \in Int /\ f[d] \in Int
      BY <1>3, <3>1
    <3> QED
      BY <1>2, <2>1, <3>2
  <2> HIDE DEF g
  <2>4. CASE i < d /\ j < d
    BY <2>1, <2>2, <2>4
  <2>5. CASE i < d /\ ~(j < d)
    BY <2>2, <2>3, <2>5
  <2>6. CASE ~(i < d)
    BY <1>2, <1>7, <2>1, <2>2, <2>6
  <2> QED
    BY <2>4, <2>5, <2>6
<1>8. g[NumDelegators] <= total + n - a[d]
  <2>1. g[NumDelegators] = f[NumDelegators] + x /\ f[NumDelegators] \in Int
    BY <1>2, <1>3
  <2> HIDE DEF g
  <2> QED
    BY <1>1, <1>2, <2>1
<1> HIDE DEF g, b
<1>9. SumBound(g, b)
  BY <1>4, <1>5, <1>6, <1>7 DEF SumBound
<1> QED
  BY <1>8, <1>9 DEF Covered, b

(***************************************************************************)
(* Records that can pay what is due                                        *)
(***************************************************************************)

(* Records at height h in which the delegations of D are exact.            *)
Book(r, D, h) ==
  /\ Sound(r) /\ h \in Nat /\ IsFiniteSet(D) /\ Exact(r, D)
  /\ \A d \in D : r.starting[d].height <= h
  /\ \A e \in r.slashes : e.height <= h

LEMMA BookPlaces ==
  ASSUME NEW r, NEW D, NEW h, Book(r, D, h)
  PROVE  /\ D \subseteq Delegators /\ D \subseteq DOMAIN r.starting
         /\ \A d \in D : Placed(r, d, h)
         /\ \A p : Ratio(r, p) \in Int
         /\ Historical(r, r.period - 1).refs > 0
<1>1. Sound(r) /\ IsFiniteSet(D) /\ Exact(r, D) /\ h \in Nat
      /\ \A d \in D : r.starting[d].height <= h
      /\ \A e \in r.slashes : e.height <= h
  BY DEF Book
<1>2. D \subseteq DOMAIN r.starting /\ DOMAIN r.starting \subseteq Delegators
  BY <1>1 DEF Exact, Sound, RecordsOK
<1>3. /\ \A d \in D : r.starting[d].period < r.period
      /\ \A e \in r.slashes : e.period < r.period
      /\ Historical(r, r.period - 1).refs > 0
  BY <1>1, Referenced
<1>4. \A d \in D : Placed(r, d, h)
  BY <1>1, <1>2, <1>3 DEF Placed
<1>5. \A p : Ratio(r, p) \in Int
  BY <1>1, HistoricalType DEF Ratio, Sound
<1> QED
  BY <1>2, <1>3, <1>4, <1>5

LEMMA BookLater ==
  ASSUME NEW r, NEW D, NEW h, Book(r, D, h), NEW k \in Nat, h <= k
  PROVE  Book(r, D, k)
<1>1. /\ \A d \in D : r.starting[d].height \in Nat
      /\ \A e \in r.slashes : e.height \in Nat
  BY BookPlaces DEF Book, Sound, RecordsOK
<1> QED
  BY <1>1 DEF Book

LEMMA QuoNat ==
  ASSUME NEW a \in Nat, NEW b \in Nat
  PROVE  Quo(a, b) \in Nat /\ b * Quo(a, b) <= a
<1>1. CASE b > 0
  <2> DEFINE q == a \div b
  <2>1. q \in Int /\ q * b <= a /\ a < (q + 1) * b
    BY <1>1, Quotient
  <2>2. q \in Nat
    BY <1>1
  <2> HIDE DEF q
  <2>3. b * q = q * b
    BY <2>1
  <2> QED
    BY <1>1, <2>1, <2>2, <2>3 DEF Quo, q
<1>2. CASE ~(b > 0)
  <2>1. Quo(a, b) = 0 /\ b = 0
    BY <1>2 DEF Quo
  <2> QED
    BY <2>1
<1> QED
  BY <1>1, <1>2

(* The amounts and the ratios that closing a period leaves.                *)
Opened(s, r, tokens) ==
  LET orphan == IF tokens = 0 THEN r.current ELSE 0 IN
  /\ s.current = 0 /\ s.period = r.period + 1 /\ s.starting = r.starting
  /\ s.slashes = r.slashes /\ s.commission = r.commission
  /\ s.outstanding = r.outstanding - orphan
  /\ s.pool = r.pool + orphan /\ s.paid = r.paid /\ s.panics = r.panics
  /\ Ratio(s, r.period) = Ratio(r, r.period - 1) + Quo(r.current, tokens)
  /\ Historical(s, r.period).refs = 1
  /\ \A p \in DOMAIN s.historical :
       p # r.period => p \in DOMAIN r.historical /\ Ratio(s, p) = Ratio(r, p)

LEMMA OpenValues ==
  ASSUME NEW r, NEW D, NEW h, Book(r, D, h), NEW tokens \in Int,
         NEW s, s = IncrementValidatorPeriod(r, tokens)
  PROVE  Book(s, D, h) /\ Opened(s, r, tokens)
<1> DEFINE q == r.period - 1
           dec == DecrementReferenceCount(r, q)
           orphan == IF tokens = 0 THEN r.current ELSE 0
           x == [ratio |-> Historical(r, q).ratio + Quo(r.current, tokens), refs |-> 1]
<1>1. Sound(r) /\ IsFiniteSet(D) /\ Exact(r, D) /\ r.period \in Int /\ q \in Int
      /\ \A d \in D : r.starting[d].height <= h
      /\ \A e \in r.slashes : e.height <= h
      /\ h \in Nat
  BY DEF Book, Sound, RecordsOK
<1>2. Historical(r, q).refs > 0
  BY BookPlaces
<1>3. /\ SameNumbers(dec, r)
      /\ \A p \in DOMAIN dec.historical : p \in DOMAIN r.historical /\ Ratio(dec, p) = Ratio(r, p)
  <2> HIDE DEF q
  <2> QED
    BY <1>1, <1>2, DecrementValues
<1>4. /\ s.historical = Put(dec.historical, r.period, x)
      /\ s.current = 0 /\ s.period = r.period + 1 /\ s.starting = r.starting
      /\ s.slashes = r.slashes /\ s.commission = r.commission
      /\ s.outstanding = r.outstanding - orphan
      /\ s.pool = r.pool + orphan /\ s.paid = r.paid /\ s.panics = dec.panics
  BY <1>1, PeriodValues
<1>5. Sound(s) /\ Exact(s, D)
  BY <1>1, PeriodSound, PeriodExact
<1>6. x.refs = 1 /\ x.ratio = Ratio(r, q) + Quo(r.current, tokens)
  BY DEF Ratio
<1>7. /\ \A p : Historical(s, p) = IF p = r.period THEN x ELSE Historical(dec, p)
      /\ \A p \in DOMAIN s.historical : p = r.period \/ p \in DOMAIN dec.historical
  <2>1. /\ DOMAIN s.historical = DOMAIN dec.historical \cup {r.period}
        /\ \A p \in DOMAIN s.historical :
             s.historical[p] = IF p = r.period THEN x ELSE dec.historical[p]
    <3> HIDE DEF x, dec
    <3> QED
      BY <1>4 DEF Put
  <2> HIDE DEF x, dec
  <2> QED
    BY <2>1 DEF Historical
<1> HIDE DEF x, dec, q
<1>8. Ratio(s, r.period) = Ratio(r, q) + Quo(r.current, tokens) /\ Historical(s, r.period).refs = 1
  BY <1>6, <1>7 DEF Ratio
<1>9. ASSUME NEW p \in DOMAIN s.historical, p # r.period
      PROVE  p \in DOMAIN r.historical /\ Ratio(s, p) = Ratio(r, p)
  <2>1. p \in DOMAIN dec.historical /\ Historical(s, p) = Historical(dec, p)
    BY <1>7, <1>9
  <2> QED
    BY <1>3, <2>1 DEF Ratio
<1>10. Book(s, D, h)
  BY <1>1, <1>4, <1>5 DEF Book
<1> QED
  BY <1>3, <1>4, <1>8, <1>9, <1>10 DEF q, SameNumbers, Opened

Dues(r, D, h) == [d \in Delegators |-> IF d \in D THEN Due(r, d, h).sum ELSE 0]

(* What is outstanding beyond the open period and the commission.          *)
Free(r) == r.outstanding - r.current - r.commission

Safe(r) ==
  /\ r.panics = 0
  /\ r.current >= 0 /\ r.commission >= 0 /\ r.pool >= 0 /\ r.paid >= 0

(* The records can pay what is due to the delegations of D, whose stakes   *)
(* are the current ones.                                                   *)
Solvent(r, D, h, K) ==
  /\ Safe(r)
  /\ \A d \in D : Due(r, d, h).stake = K[d] /\ Due(r, d, h).sum >= 0
  /\ Covered(Dues(r, D, h), Free(r))

Stakes == [Delegators -> Nat]

LEMMA DuesType ==
  ASSUME NEW r, Sound(r), NEW D, D \subseteq DOMAIN r.starting, NEW h
  PROVE  /\ Dues(r, D, h) \in Amounts
         /\ Free(r) \in Int
         /\ \A d \in D : /\ Due(r, d, h).stake \in Int /\ Due(r, d, h).sum \in Int
                         /\ Dues(r, D, h)[d] = Due(r, d, h).sum
         /\ \A d \in Delegators \ D : Dues(r, D, h)[d] = 0
<1>1. \A d \in D : d \in Delegators /\ d \in DOMAIN r.starting
  BY DEF Sound, RecordsOK
<1>2. r.period - 1 \in Int /\ Free(r) \in Int
  BY DEF Sound, RecordsOK, Free
<1>3. \A d \in D : Due(r, d, h).stake \in Int /\ Due(r, d, h).sum \in Int
  BY <1>1, <1>2, DueType DEF Due
<1> QED
  BY <1>1, <1>2, <1>3 DEF Dues, Amounts

LEMMA SolventOwes ==
  ASSUME NEW r, NEW D, NEW h, Book(r, D, h), NEW K, Solvent(r, D, h, K)
  PROVE  /\ Free(r) >= 0 /\ r.outstanding >= 0 /\ r.commission <= r.outstanding
         /\ \A d \in D : Due(r, d, h).sum <= Free(r)
<1>0. Sound(r) /\ D \subseteq DOMAIN r.starting
  BY BookPlaces DEF Book
<1>1. Free(r) >= 0 /\ \A d \in Delegators : Dues(r, D, h)[d] <= Free(r)
  BY <1>0, DuesType, CoveredBound DEF Solvent
<1>2. /\ r.outstanding \in Int /\ r.current \in Int /\ r.commission \in Int
      /\ r.current >= 0 /\ r.commission >= 0
  BY DEF Solvent, Safe, Book, Sound, RecordsOK
<1>3. \A d \in D : Due(r, d, h).sum <= Free(r)
  <2> TAKE d \in D
  <2>1. d \in Delegators
    BY BookPlaces
  <2>2. Dues(r, D, h)[d] = Due(r, d, h).sum
    BY <2>1 DEF Dues
  <2> QED
    BY <1>1, <2>1, <2>2
<1> QED
  BY <1>1, <1>2, <1>3 DEF Free

(* Over the dues in r those of E in s have a gain per unit of stake.       *)
Gains(s, k, r, h, E, K, gain) ==
  /\ Sound(s) /\ E \subseteq DOMAIN s.starting /\ gain \in Nat
  /\ \A d \in E : Due(s, d, k).sum = Due(r, d, h).sum + K[d] * gain

(* ... and the stakes themselves are no more than the T tokens.            *)
Backed(r, D, h, K, T) ==
  /\ Book(r, D, h) /\ K \in Stakes /\ T \in Nat /\ Covered(K, T)
  /\ Solvent(r, D, h, K)

(* A gain per token is covered by what it takes from all tokens.           *)
LEMMA DuesCovered ==
  ASSUME NEW r, NEW D, NEW h, NEW K, NEW T, Backed(r, D, h, K, T), NEW s, NEW E, E \subseteq D, NEW k, NEW gain,
         Gains(s, k, r, h, E, K, gain)
  PROVE  /\ Covered(Dues(s, E, k), Free(r) + T * gain)
         /\ \A d \in E : Due(s, d, k).sum >= 0
<1>b. /\ Book(r, D, h) /\ K \in Stakes /\ T \in Nat /\ Covered(K, T)
      /\ Solvent(r, D, h, K)
  BY DEF Backed
<1> USE <1>b
<1> DEFINE a == Dues(r, D, h)
           b == Dues(s, E, k)
           f == Free(r)
           g == Gained(a, K, gain)
<1>g. /\ Sound(s) /\ E \subseteq DOMAIN s.starting /\ gain \in Nat
      /\ \A d \in E : Due(s, d, k).sum = Due(r, d, h).sum + K[d] * gain
  BY DEF Gains
<1>0. Sound(r) /\ D \subseteq DOMAIN r.starting /\ D \subseteq Delegators
  BY BookPlaces DEF Book
<1>1. /\ a \in Amounts /\ f \in Int
      /\ \A d \in D : Due(r, d, h).sum \in Int /\ a[d] = Due(r, d, h).sum
      /\ \A d \in Delegators \ D : a[d] = 0
  <2> HIDE DEF f
  <2>1. a \in Amounts /\ \A d \in D : Due(r, d, h).sum \in Int
    BY <1>0, DuesType
  <2>2. f \in Int
    BY <1>0, DuesType DEF f
  <2>3. /\ \A d \in D : a[d] = Due(r, d, h).sum
        /\ \A d \in Delegators \ D : a[d] = 0
    BY <1>0 DEF Dues
  <2> QED
    BY <2>1, <2>2, <2>3
<1>2. /\ b \in Amounts /\ K \in Amounts
      /\ \A d \in E : b[d] = Due(s, d, k).sum
      /\ \A d \in Delegators \ E : b[d] = 0
  BY <1>g, DuesType DEF Stakes, Amounts
<1>3. \A d \in Delegators : a[d] \in Int /\ a[d] >= 0 /\ K[d] \in Nat /\ K[d] * gain \in Nat
  <2> TAKE d \in Delegators
  <2>1. a[d] \in Int /\ a[d] >= 0
    BY <1>1 DEF Solvent, Amounts
  <2>2. K[d] \in Nat
    BY DEF Stakes
  <2>3. K[d] * gain \in Nat
    BY <1>g, <2>2
  <2> QED
    BY <2>1, <2>2, <2>3
<1>4. Covered(a, f)
  BY DEF Solvent
<1>5. \A d \in E : b[d] = a[d] + K[d] * gain
  BY <1>g, <1>1, <1>2
<1> HIDE DEF a, b, f
<1>6. \A d \in Delegators : b[d] <= g[d] /\ g[d] \in Int
  <2> TAKE d \in Delegators
  <2>1. g[d] = a[d] + K[d] * gain
    BY DEF Gained
  <2> HIDE DEF g
  <2>2. CASE d \in E
    BY <1>3, <1>5, <2>1, <2>2
  <2>3. CASE d \notin E
    BY <1>2, <1>3, <2>1, <2>3
  <2> QED
    BY <2>2, <2>3
<1>7. g \in Amounts
  BY <1>6 DEF Gained, Amounts
<1>8. f + T * gain \in Int
  BY <1>g, <1>1
<1>9. Covered(g, f + T * gain)
  BY <1>g, <1>1, <1>2, <1>4, CoveredGain
<1> HIDE DEF g
<1>10. Covered(b, f + T * gain)
  <2> DEFINE m == f + T * gain
  <2>1. m \in Int /\ m <= m
    BY <1>8
  <2> HIDE DEF m
  <2> QED
    BY <1>2, <1>6, <1>7, <1>9, <2>1, CoveredLess DEF m
<1>11. \A d \in E : Due(s, d, k).sum >= 0
  <2> TAKE d \in E
  <2>1. d \in Delegators /\ b[d] = a[d] + K[d] * gain /\ b[d] = Due(s, d, k).sum
    BY <1>0, <1>2, <1>5
  <2> QED
    BY <1>3, <2>1
<1> QED
  BY <1>10, <1>11 DEF b, f

(* The dues of the delegations that stay, when at most one period closes.  *)
Stays(s, r, E, k) ==
  \A d \in E : Placed(s, d, k) /\ s.starting[d] = r.starting[d] /\ RatiosKept(s, r, d)

Earns(s, r, gain) ==
  /\ Sound(s) /\ s.slashes = r.slashes /\ s.period \in {r.period, r.period + 1}
  /\ gain \in Nat /\ Ratio(s, s.period - 1) = Ratio(r, r.period - 1) + gain

LEMMA DuesMove ==
  ASSUME NEW r, NEW D, NEW h, NEW K, NEW T, Backed(r, D, h, K, T), NEW s, NEW E, NEW k,
         E \subseteq D, Stays(s, r, E, k), NEW gain, Earns(s, r, gain)
  PROVE  /\ \A d \in E : /\ Due(s, d, k).stake = K[d] /\ Due(s, d, k).sum >= 0
                         /\ Due(s, d, k).sum = Due(r, d, h).sum + K[d] * gain
         /\ Covered(Dues(s, E, k), Free(r) + T * gain)
<1>b. /\ Book(r, D, h) /\ K \in Stakes /\ T \in Nat /\ Covered(K, T)
      /\ Solvent(r, D, h, K)
  BY DEF Backed
<1> USE <1>b
<1>0. /\ \A d \in E : /\ Placed(s, d, k) /\ s.starting[d] = r.starting[d]
                     /\ RatiosKept(s, r, d)
      /\ Sound(s) /\ s.slashes = r.slashes /\ (s.period = r.period \/ s.period = r.period + 1)
      /\ gain \in Nat /\ Ratio(s, s.period - 1) = Ratio(r, r.period - 1) + gain
  BY DEF Stays, Earns
<1>1. ASSUME NEW d \in E
      PROVE  /\ Due(s, d, k).stake = K[d] /\ d \in DOMAIN s.starting
             /\ Due(s, d, k).sum = Due(r, d, h).sum + K[d] * gain
  <2>1. Placed(r, d, h) /\ Placed(s, d, k) /\ d \in D /\ Ratio(r, r.period - 1) \in Int
    BY <1>0, BookPlaces
  <2>2. Due(r, d, h).stake = K[d]
    BY <2>1 DEF Solvent
  <2>3. /\ Due(s, d, k).stake = Due(r, d, h).stake
        /\ Due(s, d, k).sum = Due(r, d, h).sum
              + Due(r, d, h).stake * (Ratio(s, s.period - 1) - Ratio(r, r.period - 1))
    BY <1>0, <2>1, DueMoves
  <2>4. Ratio(s, s.period - 1) - Ratio(r, r.period - 1) = gain
    BY <1>0, <2>1
  <2> QED
    BY <1>0, <2>1, <2>2, <2>3, <2>4 DEF Placed
<1>2. E \subseteq DOMAIN s.starting
  BY <1>1
<1>3. /\ Covered(Dues(s, E, k), Free(r) + T * gain)
      /\ \A d \in E : Due(s, d, k).sum >= 0
  <2>1. Gains(s, k, r, h, E, K, gain)
    BY <1>0, <1>1, <1>2 DEF Gains
  <2> QED
    BY <2>1, DuesCovered
<1> QED
  BY <1>1, <1>3

(* The ratios of the periods that were closed before stay.                 *)
KeepsRatios(s, r) == \A p \in DOMAIN s.historical : p < r.period => Ratio(s, p) = Ratio(r, p)

LEMMA KeptRatios ==
  ASSUME NEW r, NEW D, NEW h, Book(r, D, h), NEW s, NEW E, NEW k, Book(s, E, k),
         r.slashes \subseteq s.slashes, KeepsRatios(s, r),
         NEW d \in D, d \in E, s.starting[d] = r.starting[d]
  PROVE  RatiosKept(s, r, d)
<1>1. r.starting[d].period < r.period /\ \A e \in r.slashes : e.period < r.period
  BY BookPlaces DEF Placed
<1>2. /\ s.starting[d].period \in DOMAIN s.historical
      /\ \A e \in s.slashes : e.period \in DOMAIN s.historical
  BY Referenced DEF Book
<1> QED
  BY <1>1, <1>2 DEF KeepsRatios, RatiosKept

(* Closing a period pays nobody and owes no more than before.              *)
LEMMA OpenSolvent ==
  ASSUME NEW r, NEW D, NEW h, NEW K, NEW T, Backed(r, D, h, K, T), NEW k \in Nat, h <= k,
         NEW s, s = IncrementValidatorPeriod(r, T)
  PROVE  /\ Backed(s, D, k, K, T)
         /\ Book(s, D, k) /\ Solvent(s, D, k, K)
         /\ \A d \in D : Due(s, d, k).sum = Due(r, d, h).sum + K[d] * Quo(r.current, T)
         /\ Free(r) + T * Quo(r.current, T) <= Free(s)
<1>b. /\ Book(r, D, h) /\ K \in Stakes /\ T \in Nat /\ Covered(K, T)
      /\ Solvent(r, D, h, K)
  BY DEF Backed
<1> USE <1>b
<1>i. T \in Int /\ Book(r, D, h)
  OBVIOUS
<1> DEFINE orphan == IF T = 0 THEN r.current ELSE 0
           gain == Quo(r.current, T)
<1>1. /\ Book(s, D, h)
      /\ s.current = 0 /\ s.period = r.period + 1 /\ s.starting = r.starting
      /\ s.slashes = r.slashes /\ s.commission = r.commission
      /\ s.outstanding = r.outstanding - orphan
      /\ s.pool = r.pool + orphan /\ s.paid = r.paid /\ s.panics = r.panics
      /\ Ratio(s, r.period) = Ratio(r, r.period - 1) + gain
      /\ \A p \in DOMAIN s.historical :
           p # r.period => p \in DOMAIN r.historical /\ Ratio(s, p) = Ratio(r, p)
  <2>1. Book(s, D, h) /\ Opened(s, r, T)
    BY <1>i, OpenValues
  <2> QED
    BY <2>1 DEF Opened
<1>2. /\ r.current \in Nat /\ r.outstanding \in Int /\ r.commission \in Int
      /\ r.commission >= 0 /\ r.pool \in Int /\ r.pool >= 0 /\ r.paid >= 0 /\ r.panics = 0
      /\ r.period \in Int /\ h \in Nat
  BY DEF Solvent, Safe, Book, Sound, RecordsOK
<1>3. gain \in Nat /\ T * gain <= r.current
  BY <1>2, QuoNat
<1>4. orphan \in Nat /\ T * gain <= r.current - orphan /\ orphan <= r.current
  <2>1. CASE T = 0
    <3>1. T * gain = 0
      BY <1>3, <2>1
    <3> QED
      BY <1>2, <2>1, <3>1
  <2>2. CASE T # 0
    BY <1>2, <1>3, <2>2
  <2> QED
    BY <2>1, <2>2
<1> HIDE DEF orphan, gain
<1>5. Book(s, D, k)
  BY <1>1, BookLater
<1>6. KeepsRatios(s, r)
  BY <1>1, <1>2 DEF KeepsRatios
<1>7. Stays(s, r, D, k)
  BY <1>1, <1>5, <1>6, BookPlaces, KeptRatios DEF Stays
<1>8. Sound(s) /\ s.period - 1 = r.period
  BY <1>1, <1>2 DEF Book
<1>9. /\ \A d \in D : /\ Due(s, d, k).stake = K[d] /\ Due(s, d, k).sum >= 0
                      /\ Due(s, d, k).sum = Due(r, d, h).sum + K[d] * gain
      /\ Covered(Dues(s, D, k), Free(r) + T * gain)
  <2>1. Earns(s, r, gain)
    BY <1>1, <1>3, <1>8 DEF Earns
  <2>2. D \subseteq D /\ T \in Int
    OBVIOUS
  <2> QED
    BY <1>7, <2>1, <2>2, DuesMove
<1>10. Safe(s)
  BY <1>1, <1>2, <1>4 DEF Safe
<1>11. Free(r) + T * gain <= Free(s) /\ Free(s) \in Int /\ Free(r) + T * gain \in Int
  BY <1>1, <1>2, <1>3, <1>4 DEF Free
<1>12. Covered(Dues(s, D, k), Free(s))
  <2>1. Dues(s, D, k) \in Amounts /\ \A d \in Delegators : Dues(s, D, k)[d] <= Dues(s, D, k)[d]
    <3>1. Dues(s, D, k) \in Amounts
      BY <1>5, <1>8, BookPlaces, DuesType
    <3> QED
      BY <3>1 DEF Amounts
  <2> QED
    BY <1>9, <1>11, <2>1, CoveredLess
<1> QED
  BY <1>5, <1>9, <1>10, <1>11, <1>12 DEF Solvent, Backed, gain

(* Where no record changes, the dues do not.                               *)
LEMMA SameMapsDues ==
  ASSUME NEW r, NEW D, NEW h, Book(r, D, h), NEW s, Sound(s), SameMaps(s, r)
  PROVE  /\ Book(s, D, h)
         /\ \A p : Historical(s, p) = Historical(r, p)
         /\ \A d \in D : /\ Due(s, d, h).stake = Due(r, d, h).stake
                         /\ Due(s, d, h).sum = Due(r, d, h).sum
         /\ Dues(s, D, h) = Dues(r, D, h)
<1>1. Book(s, D, h)
  <2>1. Exact(s, D)
    BY SameMapsExact DEF Book
  <2> QED
    BY <2>1 DEF Book, SameMaps
<1>2. \A p : Historical(s, p) = Historical(r, p)
  BY DEF SameMaps, Historical
<1>3. \A p : Ratio(s, p) = Ratio(r, p) /\ Ratio(r, p) \in Int
  BY <1>2, BookPlaces DEF Ratio
<1>4. ASSUME NEW d \in D
      PROVE  /\ Due(s, d, h).stake = Due(r, d, h).stake
             /\ Due(s, d, h).sum = Due(r, d, h).sum
  <2>1. Placed(r, d, h) /\ Placed(s, d, h) /\ d \in DOMAIN r.starting
    BY <1>1, BookPlaces
  <2>2. s.starting[d] = r.starting[d] /\ s.slashes = r.slashes /\ s.period = r.period
    BY DEF SameMaps
  <2>3. RatiosKept(s, r, d)
    BY <1>3 DEF RatiosKept
  <2>4. /\ Due(s, d, h).stake = Due(r, d, h).stake
        /\ Due(s, d, h).sum = Due(r, d, h).sum
             + Due(r, d, h).stake * (Ratio(s, s.period - 1) - Ratio(r, r.period - 1))
    BY <2>1, <2>2, <2>3, DueMoves
  <2>5. Ratio(s, s.period - 1) = Ratio(r, r.period - 1) /\ Ratio(r, r.period - 1) \in Int
    BY <1>3, <2>2
  <2>6. Due(r, d, h).stake \in Int /\ Due(r, d, h).sum \in Int
    BY <2>1, DueType DEF Due, Placed, Sound, RecordsOK
  <2> DEFINE x == Due(r, d, h).stake
             y == Ratio(r, r.period - 1)
  <2>7. x * (y - y) = 0
    <3>1. x \in Int /\ y \in Int
      BY <2>5, <2>6
    <3> HIDE DEF x, y
    <3> QED
      BY <3>1
  <2> QED
    BY <2>4, <2>5, <2>6, <2>7
<1>5. Dues(s, D, h) = Dues(r, D, h)
  BY <1>4, Zenon DEF Dues
<1> QED
  BY <1>1, <1>2, <1>4, <1>5

LEMMA SameMapsSolvent ==
  ASSUME NEW r, NEW D, NEW h, Book(r, D, h), NEW K, Solvent(r, D, h, K),
         NEW s, Sound(s), SameMaps(s, r), Safe(s), Free(s) = Free(r)
  PROVE  Book(s, D, h) /\ Solvent(s, D, h, K)
<1>1. /\ Book(s, D, h)
      /\ \A d \in D : /\ Due(s, d, h).stake = Due(r, d, h).stake
                      /\ Due(s, d, h).sum = Due(r, d, h).sum
      /\ Dues(s, D, h) = Dues(r, D, h)
  BY SameMapsDues
<1> QED
  BY <1>1 DEF Solvent

(* A reward becomes outstanding, part of it the operator's.                *)
LEMMA AllocateSolvent ==
  ASSUME NEW r, NEW D, NEW h, Book(r, D, h), NEW K, Solvent(r, D, h, K), NEW amount \in Nat
  PROVE  LET s == AllocateTokensToValidator(r, amount) IN
         Book(s, D, h) /\ Solvent(s, D, h, K)
<1> DEFINE fee == amount \div 5
           c == r.commission + fee
           u == r.current + amount - fee
           o == r.outstanding + amount
           i == r.received + amount
           s == AllocateTokensToValidator(r, amount)
<1>1. s = [r EXCEPT !.commission = c, !.current = u, !.outstanding = o, !.received = i]
  BY DEF AllocateTokensToValidator, Book, Sound, RecordsOK
<1>2. fee \in Nat /\ fee <= amount
  OBVIOUS
<1>3. Sound(s) /\ SameMaps(s, r)
  BY AllocateSound, AllocateMaps DEF Book
<1> HIDE DEF s, c, u, o, i
<1>4. /\ s.commission = c /\ s.current = u /\ s.outstanding = o
      /\ s.pool = r.pool /\ s.paid = r.paid /\ s.panics = r.panics
  BY <1>1 DEF Book, Sound, RecordsOK
<1>5. r.commission \in Int /\ r.current \in Int /\ r.outstanding \in Int
  BY DEF Book, Sound, RecordsOK
<1> HIDE DEF fee
<1>6. Safe(s) /\ Free(s) = Free(r)
  BY <1>2, <1>4, <1>5 DEF Safe, Solvent, Free, c, u, o
<1> QED
  BY <1>3, <1>6, SameMapsSolvent DEF s

(* The operator's coins are among what is outstanding.                     *)
LEMMA CommissionSolvent ==
  ASSUME NEW r, NEW D, NEW h, Book(r, D, h), NEW K, Solvent(r, D, h, K)
  PROVE  LET s == WithdrawValidatorCommission(r) IN
         /\ Book(s, D, h) /\ Solvent(s, D, h, K)
         /\ s.current = r.current /\ SameMaps(s, r)
<1>1. CASE r.commission = 0
  BY <1>1 DEF WithdrawValidatorCommission, SameMaps
<1>2. CASE r.commission # 0
  <2> DEFINE coins == Coins(r.commission)
             checked == CheckFor(r, coins > r.outstanding)
             p == PayOut(r, coins)
             rest == p.commission - coins
             s == WithdrawValidatorCommission(r)
  <2>1. /\ r.commission \in Nat /\ r.outstanding \in Int /\ r.current \in Int
        /\ r.pool \in Int /\ r.paid \in Int /\ Sound(r)
        /\ r.panics = 0 /\ r.current >= 0 /\ r.pool >= 0 /\ r.paid >= 0
    BY DEF Solvent, Safe, Book, Sound, RecordsOK
  <2>2. coins \in 0 .. r.commission /\ r.commission <= r.outstanding
    BY <2>1, CoinsBounds, SolventOwes
  <2>3. Coins(coins) \in 0 .. coins
    BY <2>1, <2>2, CoinsBounds
  <2>4. checked = r
    <3>1. ~(coins > r.outstanding)
      BY <2>1, <2>2
    <3> HIDE DEF coins
    <3> QED
      BY <2>1, <3>1, CheckPasses
  <2>5. s = [p EXCEPT !.commission = rest]
    BY <1>2, <2>4 DEF WithdrawValidatorCommission
  <2>6. Sound(s) /\ SameMaps(s, r)
    BY <2>1, WithdrawCommissionSound, CommissionMaps
  <2>7. /\ p.outstanding = r.outstanding - coins /\ p.paid = r.paid + Coins(coins)
        /\ p.pool = r.pool + coins - Coins(coins)
        /\ p.current = r.current /\ p.commission = r.commission /\ p.panics = r.panics
    BY <2>1, PayOutValues
  <2>8. Sound(p)
    BY <2>1, <2>2, PayOutSound
  <2> HIDE DEF s, p, coins, rest
  <2>9. /\ s.commission = rest /\ s.outstanding = p.outstanding /\ s.paid = p.paid
        /\ s.pool = p.pool /\ s.current = p.current /\ s.panics = p.panics
    BY <2>5, <2>8 DEF Sound, RecordsOK
  <2>10. Safe(s) /\ Free(s) = Free(r)
    BY <2>1, <2>2, <2>3, <2>7, <2>9 DEF Safe, Free, rest
  <2> QED
    BY <2>6, <2>7, <2>9, <2>10, SameMapsSolvent DEF s
<1> QED
  BY <1>1, <1>2

LEMMA SolventLater ==
  ASSUME NEW r, NEW D, NEW h, NEW K, NEW T, Backed(r, D, h, K, T), NEW k \in Nat, h <= k
  PROVE  /\ Backed(r, D, k, K, T)
         /\ \A d \in D : Due(r, d, k).sum = Due(r, d, h).sum
<1>b. /\ Book(r, D, h) /\ K \in Stakes /\ T \in Nat /\ Covered(K, T)
      /\ Solvent(r, D, h, K)
  BY DEF Backed
<1> USE <1>b
<1>1. Book(r, D, k)
  BY BookLater
<1>2. Stays(r, r, D, k)
  BY <1>1, BookPlaces DEF Stays, RatiosKept
<1>3. Sound(r) /\ Ratio(r, r.period - 1) = Ratio(r, r.period - 1) + 0 /\ Free(r) \in Int
  BY BookPlaces DEF Book, Free, Sound, RecordsOK
<1>4. Earns(r, r, 0) /\ D \subseteq D
  BY <1>3 DEF Earns
<1>5. /\ \A d \in D : /\ Due(r, d, k).stake = K[d] /\ Due(r, d, k).sum >= 0
                     /\ Due(r, d, k).sum = Due(r, d, h).sum + K[d] * 0
      /\ Covered(Dues(r, D, k), Free(r) + T * 0)
  BY <1>2, <1>4, DuesMove
<1>6. Free(r) + T * 0 = Free(r)
  BY <1>3
<1>7. \A d \in D : Due(r, d, k).sum = Due(r, d, h).sum
  <2> TAKE d \in D
  <2>1. d \in Delegators /\ d \in DOMAIN r.starting /\ r.period - 1 \in Int
    BY <1>3, BookPlaces DEF Sound, RecordsOK
  <2>2. K[d] \in Nat /\ Due(r, d, h).sum \in Int
    BY <1>3, <2>1, DueType DEF Stakes, Due
  <2>3. K[d] * 0 = 0
    BY <2>2
  <2> QED
    BY <1>5, <2>2, <2>3
<1> QED
  BY <1>1, <1>5, <1>6, <1>7 DEF Solvent, Backed

(* The delegation of d joins those of D, whose stakes stay.                *)
Enters(d, stake, K, L, D) ==
  /\ d \in Delegators /\ d \notin D /\ L \in Stakes /\ stake = L[d]
  /\ \A e \in D : L[e] = K[e]

(* A delegation starts with nothing due.                                   *)
LEMMA StartSolvent ==
  ASSUME NEW r, NEW D, NEW h, NEW K, NEW T, Backed(r, D, h, K, T), Historical(r, r.period - 1).refs <= 2,
         NEW d, NEW stake, NEW L, Enters(d, stake, K, L, D), NEW s, s = InitializeDelegation(r, d, stake, h)
  PROVE  /\ Book(s, D \cup {d}, h) /\ Solvent(s, D \cup {d}, h, L)
         /\ s.current = r.current /\ s.paid = r.paid
         /\ s.starting = Put(r.starting, d, [period |-> r.period - 1, stake |-> stake, height |-> h])
         /\ \A e \in D : Due(s, e, h).sum = Due(r, e, h).sum
<1>b. /\ Book(r, D, h) /\ K \in Stakes /\ T \in Nat /\ Covered(K, T)
      /\ Solvent(r, D, h, K)
  BY DEF Backed
<1> USE <1>b
<1> DEFINE q == r.period - 1
           inc == IncrementReferenceCount(r, q)
           x == [period |-> q, stake |-> stake, height |-> h]
           st == Put(r.starting, d, x)
           E == D \cup {d}
<1>0. /\ d \in Delegators /\ d \notin D /\ L \in Stakes /\ stake = L[d]
      /\ \A e \in D : L[e] = K[e]
  BY DEF Enters
<1>1. /\ Sound(r) /\ IsFiniteSet(D) /\ Exact(r, D) /\ h \in Nat /\ r.period \in Int /\ q \in Int
      /\ \A e \in D : r.starting[e].height <= h
      /\ \A e \in r.slashes : e.height <= h
      /\ stake \in Nat
  BY <1>0 DEF Book, Sound, RecordsOK, Stakes
<1>2. SameNumbers(inc, r) /\ \A p : Ratio(inc, p) = Ratio(r, p)
  <2> HIDE DEF q
  <2> QED
    BY <1>1, IncrementValues DEF q
<1>3. Sound(inc) /\ SameAmounts(inc, r)
  BY <1>1, IncrementSound
<1>4. s = [inc EXCEPT !.starting = st]
  BY <1>3 DEF InitializeDelegation, SameAmounts
<1>5. /\ Exact(s, E) /\ s.starting = st /\ s.slashes = r.slashes /\ s.period = r.period
  <2> DEFINE t == InitializeDelegation(r, d, stake, h)
  <2>1. /\ Exact(t, D \cup {d}) /\ t.starting = st
        /\ t.slashes = r.slashes /\ t.period = r.period
    <3> HIDE DEF t, st, q
    <3> QED
      BY <1>0, <1>1, StartExact DEF t, st, q
  <2> HIDE DEF t, st
  <2> QED
    BY <2>1 DEF t
<1>6. Sound(s)
  BY <1>0, <1>1, StartSound
<1>7. /\ st[d] = x /\ DOMAIN st = DOMAIN r.starting \cup {d}
      /\ \A e \in DOMAIN r.starting : e # d => st[e] = r.starting[e]
  BY DEF Put
<1>8. x.height = h /\ x.period = q /\ x.stake = stake
  OBVIOUS
<1> HIDE DEF inc, st, x
<1>9. s.historical = inc.historical /\ SameNumbers(s, inc)
  BY <1>3, <1>4 DEF Sound, RecordsOK, SameNumbers
<1>10. \A p : Ratio(s, p) = Ratio(r, p)
  BY <1>2, <1>9 DEF Ratio, Historical
<1>11. D \subseteq DOMAIN r.starting /\ \A e \in D : e # d /\ s.starting[e] = r.starting[e]
  BY <1>0, <1>5, <1>7, BookPlaces
<1>12. Book(s, E, h)
  <2>1. IsFiniteSet(E)
    BY <1>1, FS_AddElement
  <2>2. \A e \in E : s.starting[e].height <= h
    BY <1>1, <1>5, <1>7, <1>8, <1>11
  <2> QED
    BY <1>1, <1>5, <1>6, <2>1, <2>2 DEF Book
<1>13. Stays(s, r, D, h)
  BY <1>10, <1>11, <1>12, BookPlaces DEF Stays, RatiosKept
<1>14. Earns(s, r, 0) /\ D \subseteq D
  <2>1. Ratio(r, r.period - 1) \in Int
    BY BookPlaces
  <2> QED
    BY <1>5, <1>6, <1>10, <2>1 DEF Earns
<1>15. /\ \A e \in D : /\ Due(s, e, h).stake = K[e] /\ Due(s, e, h).sum >= 0
                       /\ Due(s, e, h).sum = Due(r, e, h).sum + K[e] * 0
       /\ Covered(Dues(s, D, h), Free(r) + T * 0)
  BY <1>13, <1>14, DuesMove
<1>16. Due(s, d, h).stake = L[d] /\ Due(s, d, h).sum = 0
  <2>1. d \in DOMAIN s.starting /\ s.starting[d] = x /\ s.starting[d].period = s.period - 1
    BY <1>5, <1>7, <1>8
  <2> QED
    BY <1>0, <1>6, <1>8, <2>1, DueBegun
<1>17. Free(s) = Free(r) /\ Free(r) \in Int /\ Free(r) + T * 0 = Free(r) /\ Safe(s)
       /\ s.current = r.current /\ s.paid = r.paid
  BY <1>1, <1>2, <1>9 DEF SameNumbers, Free, Safe, Solvent, Sound, RecordsOK
<1>18. Dues(s, E, h) = Dues(s, D, h)
  <2>1. \A e \in Delegators : (IF e \in E THEN Due(s, e, h).sum ELSE 0)
                                = IF e \in D THEN Due(s, e, h).sum ELSE 0
    BY <1>16
  <2> QED
    BY <2>1, Zenon DEF Dues
<1>19. \A e \in D : Due(s, e, h).sum = Due(r, e, h).sum
  <2> TAKE e \in D
  <2>1. e \in Delegators /\ e \in DOMAIN r.starting
    BY BookPlaces
  <2>2. K[e] \in Nat /\ Due(r, e, h).sum \in Int
    BY <1>1, <2>1, DueType DEF Stakes, Due
  <2>3. K[e] * 0 = 0
    BY <2>2
  <2> QED
    BY <1>15, <2>2, <2>3
<1>20. Solvent(s, E, h, L)
  <2>1. \A e \in E : Due(s, e, h).stake = L[e] /\ Due(s, e, h).sum >= 0
    BY <1>0, <1>15, <1>16
  <2> QED
    BY <1>15, <1>17, <1>18, <2>1 DEF Solvent
<1> QED
  BY <1>5, <1>12, <1>17, <1>19, <1>20 DEF st, x, q

(* Closing a period and starting a delegation.                             *)
LEMMA JoinSolvent ==
  ASSUME NEW r, NEW D, NEW h, NEW K, NEW T, Backed(r, D, h, K, T), NEW k \in Nat, h <= k,
         NEW d, NEW stake, NEW L, Enters(d, stake, K, L, D)
  PROVE  LET s == InitializeDelegation(IncrementValidatorPeriod(r, T), d, stake, k) IN
         Book(s, D \cup {d}, k) /\ Solvent(s, D \cup {d}, k, L)
<1>b. /\ Book(r, D, h) /\ K \in Stakes /\ T \in Nat /\ Covered(K, T)
      /\ Solvent(r, D, h, K)
  BY DEF Backed
<1> USE <1>b
<1> DEFINE open == IncrementValidatorPeriod(r, T)
<1>1. Backed(open, D, k, K, T)
  BY OpenSolvent
<1>2. open.period = r.period + 1 /\ Historical(open, r.period).refs = 1
  BY OpenValues DEF Opened
<1>3. r.period \in Int
  BY DEF Book, Sound, RecordsOK
<1> HIDE DEF open
<1>4. open.period - 1 = r.period
  BY <1>2, <1>3
<1>5. Historical(open, open.period - 1).refs <= 2
  BY <1>2, <1>4
<1> QED
  <2> DEFINE s == InitializeDelegation(open, d, stake, k)
  <2>1. Historical(open, open.period - 1).refs <= 2 /\ T \in Int
    BY <1>5
  <2> HIDE DEF s
  <2>2. Book(s, D \cup {d}, k) /\ Solvent(s, D \cup {d}, k, L)
    BY <1>1, <2>1, StartSolvent DEF s
  <2> QED
    BY <2>2 DEF open, s

(* What a withdrawal at height h pays, before it is cut to whole coins.    *)
Owed(r, d, T, stake, h) ==
  IF r.starting[d].height = h THEN 0 ELSE Due(r, d, h).sum + stake * Quo(r.current, T)

(* s is r after the withdrawal of d, which changes nothing for those of E. *)
Pays(s, r, d, E, T, h, K) ==
  /\ s.current = 0 /\ s.paid = r.paid + Coins(Owed(r, d, T, K[d], h))
  /\ \A e \in E : /\ s.starting[e] = r.starting[e]
                  /\ Due(s, e, h).sum = Due(r, e, h).sum + K[e] * Quo(r.current, T)

(* A settlement pays what is due, no more and no less.                     *)
LEMMA SettleSolvent ==
  ASSUME NEW r, NEW D, NEW h, NEW K, NEW T, Backed(r, D, h, K, T), NEW d \in D, NEW stake, stake = K[d],
         NEW s, s = SettleDelegation(r, d, T, stake, h)
  PROVE  /\ Backed(s, D \ {d}, h, K, T) /\ Historical(s, s.period - 1).refs = 1
         /\ Pays(s, r, d, D \ {d}, T, h, K)
<1>b. /\ Book(r, D, h) /\ K \in Stakes /\ T \in Nat /\ Covered(K, T)
      /\ Solvent(r, D, h, K)
  BY DEF Backed
<1> USE <1>b
<1> DEFINE open == IncrementValidatorPeriod(r, T)
           n == r.period
           raw == CalculateDelegationRewards(open, d, n, h)
           rewards == IF raw \in 0 .. open.outstanding THEN raw ELSE open.outstanding
           checked == CheckFor(open, StakeTooLarge(open, d, n, stake, h))
           paid == PayOut(open, rewards)
           q == r.starting[d].period
           freed == DecrementReferenceCount(paid, q)
           E == D \ {d}
           gain == Quo(r.current, T)
<1>1. /\ Sound(r) /\ IsFiniteSet(D) /\ Exact(r, D) /\ n \in Int /\ d \in Delegators
      /\ d \in DOMAIN r.starting /\ stake \in Nat /\ q \in Int /\ q < n
      /\ h \in Nat /\ h <= h
  BY BookPlaces DEF Book, Sound, RecordsOK, Stakes, Placed
<1>2. /\ Backed(open, D, h, K, T)
      /\ Book(open, D, h) /\ Solvent(open, D, h, K)
      /\ \A e \in D : Due(open, e, h).sum = Due(r, e, h).sum + K[e] * gain
  BY <1>1, OpenSolvent
<1>3. /\ open.current = 0 /\ open.period = n + 1 /\ open.starting = r.starting
      /\ open.slashes = r.slashes /\ open.paid = r.paid
      /\ Historical(open, n).refs = 1
  BY OpenValues DEF Opened
<1>4. s = [DecrementReferenceCount(PayOut(checked, rewards), q)
             EXCEPT !.starting = Restrict(@, DOMAIN @ \ {d})]
  BY DEF SettleDelegation
<1>5. Sound(s) /\ Settled(s, r, D, d)
  BY <1>1, SettleSound, SettleExact
<1> HIDE DEF open, n
<1>6. Sound(open) /\ open.period - 1 = n
  BY <1>1, <1>2, <1>3 DEF Book
<1>7. RewardWalk(open, d, n, h) = Due(open, d, h)
  BY <1>6 DEF Due
<1>8. Due(open, d, h).stake = stake /\ Due(open, d, h).sum >= 0 /\ Due(open, d, h).sum \in Int
      /\ Due(open, d, h).sum <= Free(open)
      /\ Due(open, d, h).sum = Due(r, d, h).sum + stake * gain
  <2>1. D \subseteq DOMAIN open.starting
    BY <1>2, BookPlaces
  <2>2. Due(open, d, h).sum \in Int
    BY <1>6, <2>1, DuesType
  <2> QED
    BY <1>2, <2>2, SolventOwes DEF Solvent
<1>9. checked = open
  <2>1. ~StakeTooLarge(open, d, n, stake, h)
    BY <1>1, <1>7, <1>8 DEF StakeTooLarge
  <2> QED
    BY <1>6, <2>1, CheckPasses
<1>10. s = [freed EXCEPT !.starting = Restrict(@, DOMAIN @ \ {d})]
  BY <1>4, <1>9
<1> HIDE DEF checked
<1>11. /\ open.outstanding \in Int /\ open.commission \in Int /\ open.commission >= 0
       /\ open.pool \in Int /\ open.pool >= 0 /\ open.paid \in Int /\ open.paid >= 0
       /\ open.panics = 0 /\ Free(open) = open.outstanding - open.commission
  BY <1>2, <1>3, <1>6 DEF Solvent, Safe, Sound, RecordsOK, Free
<1>12. raw = IF r.starting[d].height = h THEN 0 ELSE Due(open, d, h).sum
  BY <1>3, <1>7 DEF CalculateDelegationRewards
<1>13. raw \in Nat /\ raw <= Due(open, d, h).sum /\ rewards = raw
  <2> HIDE DEF raw
  <2> QED
    BY <1>8, <1>11, <1>12
<1>14. Coins(rewards) \in 0 .. rewards
  BY <1>13, CoinsBounds
<1> HIDE DEF raw, rewards
<1>15. Sound(paid) /\ SameMaps(paid, open)
  BY <1>6, <1>13, PayOutSound, PayOutMaps
<1>16. /\ paid.outstanding = open.outstanding - rewards
       /\ paid.paid = open.paid + Coins(rewards)
       /\ paid.pool = open.pool + rewards - Coins(rewards)
       /\ paid.current = open.current /\ paid.commission = open.commission
       /\ paid.panics = open.panics
  BY <1>6, PayOutValues
<1> HIDE DEF paid
<1>17. Book(paid, D, h) /\ \A p : Historical(paid, p) = Historical(open, p)
  BY <1>2, <1>15, SameMapsDues
<1>18. Historical(paid, q).refs > 0
  <2>1. paid.starting[d].period = q
    BY <1>3, <1>15 DEF SameMaps
  <2>2. q \in DOMAIN paid.historical
    BY <1>17, <2>1, Referenced DEF Book
  <2> QED
    BY <1>17, <2>2, Referenced DEF Book
<1>19. /\ SameNumbers(freed, paid)
       /\ \A p : p # q => Historical(freed, p) = Historical(paid, p)
       /\ \A p \in DOMAIN freed.historical : Ratio(freed, p) = Ratio(paid, p)
  BY <1>1, <1>15, <1>18, DecrementValues
<1>20. Sound(freed) /\ SameAmounts(freed, paid)
  BY <1>1, <1>15, DecrementSound
<1> HIDE DEF freed, q
<1>21. freed.starting = r.starting
  BY <1>3, <1>15, <1>20 DEF SameAmounts, SameMaps
<1> DEFINE st == Restrict(r.starting, DOMAIN r.starting \ {d})
<1>22. s = [freed EXCEPT !.starting = st]
  BY <1>10, <1>21
<1> HIDE DEF st
<1>23. /\ s.historical = freed.historical /\ SameNumbers(s, freed) /\ s.period = freed.period
       /\ s.slashes = freed.slashes /\ s.starting = st
  BY <1>20, <1>22 DEF Sound, RecordsOK, SameNumbers
<1>24. s.period = n + 1 /\ s.slashes = r.slashes
  BY <1>3, <1>15, <1>20, <1>23 DEF SameAmounts, SameMaps
<1>25. \A e \in E : e \in DOMAIN st /\ st[e] = r.starting[e] /\ r.starting[e].height <= h
  <2>1. D \subseteq DOMAIN r.starting
    BY BookPlaces
  <2>2. \A e \in E : r.starting[e].height <= h
    BY <1>2, <1>3 DEF Book
  <2> QED
    BY <2>1, <2>2 DEF st, Restrict
<1>26. Book(s, E, h)
  <2>1. IsFiniteSet(E) /\ Exact(s, E)
    BY <1>1, <1>5, FS_Subset DEF Settled
  <2>2. \A e \in E : s.starting[e].height <= h
    BY <1>23, <1>25
  <2>3. \A e \in s.slashes : e.height <= h
    BY <1>2, <1>3, <1>24 DEF Book
  <2> QED
    BY <1>5, <2>1, <2>2, <2>3 DEF Book
<1>27. \A p \in DOMAIN s.historical : Ratio(s, p) = Ratio(open, p)
  <2> TAKE p \in DOMAIN s.historical
  <2>1. Ratio(s, p) = Ratio(freed, p) /\ p \in DOMAIN freed.historical
    BY <1>23 DEF Ratio, Historical
  <2>2. Ratio(freed, p) = Ratio(paid, p)
    BY <1>19, <2>1
  <2>3. Ratio(paid, p) = Ratio(open, p)
    BY <1>17 DEF Ratio
  <2> QED
    BY <2>1, <2>2, <2>3
<1>28. Historical(s, n) = Historical(open, n) /\ s.period - 1 = n
  <2>1. n # q
    BY <1>1 DEF q
  <2>2. Historical(s, n) = Historical(freed, n)
    BY <1>23 DEF Historical
  <2> QED
    BY <1>1, <1>17, <1>19, <1>24, <2>1, <2>2
<1>29. Stays(s, open, E, h)
  <2> SUFFICES ASSUME NEW e \in E
               PROVE  /\ Placed(s, e, h) /\ s.starting[e] = open.starting[e]
                      /\ RatiosKept(s, open, e)
    BY DEF Stays
  <2>1. Placed(s, e, h)
    BY <1>26, BookPlaces
  <2>2. s.starting[e] = open.starting[e] /\ s.slashes = open.slashes
    BY <1>3, <1>23, <1>24, <1>25
  <2>3. KeepsRatios(s, open)
    BY <1>27 DEF KeepsRatios
  <2>4. e \in D /\ open.slashes \subseteq s.slashes
    BY <2>2
  <2>5. RatiosKept(s, open, e)
    BY <1>2, <1>26, <2>2, <2>3, <2>4, KeptRatios
  <2> QED
    BY <2>1, <2>2, <2>5
<1>30. \A e \in E : /\ Due(s, e, h).stake = K[e] /\ Due(s, e, h).sum >= 0
                     /\ Due(s, e, h).sum = Due(open, e, h).sum + K[e] * 0
  <2>1. Ratio(s, n) = Ratio(open, n) /\ Ratio(open, n) \in Int
    BY <1>2, <1>28, BookPlaces DEF Ratio
  <2>2. s.slashes = open.slashes /\ s.period = open.period /\ E \subseteq D /\ T \in Int
    BY <1>3, <1>24
  <2>3. Earns(s, open, 0)
    BY <1>5, <1>6, <1>28, <2>1, <2>2 DEF Earns
  <2> QED
    BY <1>2, <1>29, <2>2, <2>3, DuesMove
<1>31. \A e \in E : Due(s, e, h).sum = Due(open, e, h).sum /\ e \in Delegators /\ e \in D
                     /\ Due(open, e, h).sum \in Int
  <2> TAKE e \in E
  <2>1. e \in D /\ e \in Delegators /\ e \in DOMAIN open.starting
    BY <1>2, BookPlaces
  <2>2. K[e] \in Nat /\ Due(open, e, h).sum \in Int
    BY <1>6, <1>1, <2>1, DueType DEF Stakes, Due
  <2>3. K[e] * 0 = 0
    BY <2>2
  <2> QED
    BY <1>30, <2>1, <2>2, <2>3
<1>32. Covered(Dues(s, E, h), Free(s))
  <2> DEFINE a == Dues(open, D, h)
             b == Dues(s, E, h)
             c == [a EXCEPT ![d] = 0]
             m == Free(open) + 0 - a[d]
  <2>1. a \in Amounts /\ b \in Amounts /\ Free(open) \in Int /\ a[d] = Due(open, d, h).sum
        /\ \A e \in E : a[e] = Due(open, e, h).sum
    <3>1. D \subseteq DOMAIN open.starting /\ E \subseteq DOMAIN s.starting
      BY <1>2, <1>26, BookPlaces
    <3>2. a \in Amounts /\ b \in Amounts /\ Free(open) \in Int
      BY <1>5, <1>6, <3>1, DuesType
    <3>3. \A e \in D : a[e] = Due(open, e, h).sum
      BY <1>6, <3>1, DuesType
    <3> QED
      BY <3>2, <3>3
  <2>2. \A e \in E : b[e] = Due(s, e, h).sum
    BY <1>31 DEF Dues
  <2>3. \A e \in Delegators \ E : b[e] = 0
    BY DEF Dues
  <2>4. \A e \in Delegators \ D : a[e] = 0
    BY DEF Dues
  <2>5. Covered(a, Free(open))
    BY <1>2 DEF Solvent
  <2> HIDE DEF a, b
  <2>6. Covered(c, m)
    BY <1>1, <2>1, <2>5, CoveredChange
  <2>7. \A e \in Delegators : c[e] = IF e = d THEN 0 ELSE a[e]
    BY <2>1 DEF Amounts
  <2>8. c \in Amounts
    <3>1. \A e \in Delegators : a[e] \in Int /\ c[e] \in Int
      BY <2>1, <2>7 DEF Amounts
    <3>2. c = [e \in Delegators |-> c[e]]
      BY <2>1 DEF Amounts
    <3> HIDE DEF c
    <3> QED
      BY <3>1, <3>2 DEF Amounts
  <2> HIDE DEF c
  <2>9. \A e \in Delegators : b[e] <= c[e]
    <3> TAKE e \in Delegators
    <3>1. CASE e \in E
      BY <1>31, <2>1, <2>2, <2>7, <3>1
    <3>2. CASE e \notin E
      <4>1. c[e] = 0
        BY <2>4, <2>7, <3>2
      <4> QED
        BY <2>3, <3>2, <4>1
    <3> QED
      BY <3>1, <3>2
  <2>10. m \in Int /\ Free(s) \in Int /\ m <= Free(s)
    <3>1. Free(s) = open.outstanding - rewards - open.commission
      BY <1>3, <1>11, <1>13, <1>16, <1>19, <1>23 DEF SameNumbers, Free
    <3> QED
      BY <1>8, <1>11, <1>13, <2>1, <3>1
  <2> HIDE DEF m
  <2>11. Covered(b, Free(s))
    BY <2>1, <2>6, <2>8, <2>9, <2>10, CoveredLess
  <2> QED
    BY <2>11 DEF b
<1>33. Safe(s) /\ s.current = 0 /\ s.paid = open.paid + Coins(rewards)
  BY <1>3, <1>11, <1>13, <1>14, <1>16, <1>19, <1>23 DEF SameNumbers, Safe
<1>34. Solvent(s, E, h, K)
  BY <1>30, <1>32, <1>33 DEF Solvent
<1>35. rewards = Owed(r, d, T, stake, h)
  <2>1. CASE r.starting[d].height = h
    BY <1>12, <1>13, <2>1 DEF Owed
  <2>2. CASE r.starting[d].height # h
    <3>1. rewards = Due(r, d, h).sum + stake * gain
      BY <1>8, <1>12, <1>13, <2>2
    <3> QED
      BY <2>2, <3>1 DEF Owed
  <2> QED
    BY <2>1, <2>2
<1>36. \A e \in E : /\ s.starting[e] = r.starting[e]
                    /\ Due(s, e, h).sum = Due(r, e, h).sum + K[e] * gain
  BY <1>2, <1>23, <1>25, <1>31
<1> QED
  BY <1>3, <1>26, <1>28, <1>33, <1>34, <1>35, <1>36 DEF n, Backed, Pays

LEMMA SolventSame ==
  ASSUME NEW r, NEW D, NEW h, NEW K, Solvent(r, D, h, K), NEW L, \A d \in D : L[d] = K[d]
  PROVE  Solvent(r, D, h, L)
BY DEF Solvent

(* A withdrawal leaves the others what they were due.                      *)
LEMMA WithdrawSolvent ==
  ASSUME NEW r, NEW D, NEW h, NEW K, NEW T, Backed(r, D, h, K, T), NEW d \in D, NEW stake, stake = K[d],
         NEW s, s = WithdrawDelegationRewards(r, d, T, stake, h)
  PROVE  Backed(s, D, h, K, T) /\ Pays(s, r, d, D \ {d}, T, h, K)
<1>b. /\ Book(r, D, h) /\ K \in Stakes /\ T \in Nat /\ Covered(K, T)
      /\ Solvent(r, D, h, K)
  BY DEF Backed
<1> USE <1>b
<1> DEFINE out == SettleDelegation(r, d, T, stake, h)
           E == D \ {d}
           x == [period |-> out.period - 1, stake |-> stake, height |-> h]
<1>1. d \in Delegators /\ d \in DOMAIN r.starting /\ D \subseteq DOMAIN r.starting
  BY BookPlaces
<1>2. out = SettleDelegation(r, d, T, stake, h) /\ s = InitializeDelegation(out, d, stake, h)
  BY <1>1 DEF WithdrawDelegationRewards
<1> HIDE DEF out
<1>3. /\ Backed(out, E, h, K, T) /\ Historical(out, out.period - 1).refs = 1
      /\ Pays(out, r, d, E, T, h, K)
  BY <1>2, SettleSolvent
<1>4. Enters(d, stake, K, K, E)
  BY <1>1 DEF Enters
<1>5. E \cup {d} = D /\ Historical(out, out.period - 1).refs <= 2 /\ d \notin E
  BY <1>3
<1> HIDE DEF E
<1>6. E \subseteq DOMAIN out.starting
  BY <1>3, BookPlaces DEF Backed
<1>7. /\ Book(s, E \cup {d}, h) /\ Solvent(s, E \cup {d}, h, K)
      /\ s.current = out.current /\ s.paid = out.paid
      /\ s.starting = Put(out.starting, d, x)
      /\ \A e \in E : Due(s, e, h).sum = Due(out, e, h).sum
  BY <1>2, <1>3, <1>4, <1>5, StartSolvent
<1> HIDE DEF x
<1>8. \A e \in E : s.starting[e] = out.starting[e]
  BY <1>5, <1>6, <1>7 DEF Put
<1>9. Pays(s, r, d, E, T, h, K)
  BY <1>3, <1>7, <1>8 DEF Pays
<1> QED
  BY <1>5, <1>7, <1>9 DEF E, Backed

(* A slash takes its part of every stake, not of what was earned before.   *)
LEMMA SlashSolvent ==
  ASSUME NEW r, NEW D, NEW h, NEW K, NEW T, Backed(r, D, h, K, T), NEW k \in Nat, h <= k, NEW keep \in {0, 1},
         NEW L, \A d \in D : L[d] = (K[d] * keep) \div 2
  PROVE  LET s == RecordSlash(r, T, k, keep) IN
         Book(s, D, k) /\ Solvent(s, D, k, L)
<1>b. /\ Book(r, D, h) /\ K \in Stakes /\ T \in Nat /\ Covered(K, T)
      /\ Solvent(r, D, h, K)
  BY DEF Backed
<1> USE <1>b
<1> DEFINE open == IncrementValidatorPeriod(r, T)
           n == r.period
           inc == IncrementReferenceCount(open, n)
           e == [height |-> k, period |-> n, keep |-> keep]
           events == r.slashes \cup {e}
           s == RecordSlash(r, T, k, keep)
           gain == Quo(r.current, T)
<1>1. /\ Sound(r) /\ IsFiniteSet(D) /\ Exact(r, D) /\ n \in Int /\ T \in Int
      /\ r.current \in Nat /\ h \in Nat
      /\ \A d \in D : r.starting[d].height <= h
      /\ \A f \in r.slashes : f.height <= h
  BY DEF Book, Solvent, Safe, Sound, RecordsOK
<1>2. /\ Book(open, D, k) /\ Solvent(open, D, k, K)
      /\ Free(r) + T * gain <= Free(open)
  BY OpenSolvent
<1>3. /\ open.period = n + 1 /\ open.starting = r.starting /\ open.slashes = r.slashes
      /\ Historical(open, n).refs = 1
      /\ Ratio(open, n) = Ratio(r, r.period - 1) + gain
      /\ \A p \in DOMAIN open.historical : p # n => p \in DOMAIN r.historical /\ Ratio(open, p) = Ratio(r, p)
  <2>1. Opened(open, r, T)
    BY <1>1, OpenValues
  <2> HIDE DEF open
  <2> QED
    BY <2>1 DEF Opened
<1>4. Exact(s, D) /\ s.starting = r.starting /\ s.slashes = events
  BY <1>1, SlashExact
<1>5. Sound(s)
  BY <1>1, SlashSound
<1>6. e.height = k /\ e.period = n /\ e.keep = keep
  OBVIOUS
<1>7. Sound(open)
  BY <1>2 DEF Book
<1> HIDE DEF open, n
<1>8. SameNumbers(inc, open) /\ \A q : Ratio(inc, q) = Ratio(open, q)
  BY <1>1, <1>3, <1>7, IncrementValues
<1>9. Sound(inc) /\ SameAmounts(inc, open)
  BY <1>1, <1>7, IncrementSound
<1> HIDE DEF e
<1>10. s = [inc EXCEPT !.slashes = events]
  BY <1>3, <1>9 DEF RecordSlash, SameAmounts, open, n, e
<1> HIDE DEF inc, events, s, gain
<1>11. SameNumbers(s, open) /\ s.historical = inc.historical /\ s.period = n + 1
  BY <1>3, <1>8, <1>9, <1>10 DEF SameNumbers, SameAmounts, Sound, RecordsOK
<1>12. Book(s, D, k)
  <2>1. \A d \in D : s.starting[d].height <= k /\ r.starting[d].height \in Nat
    <3>1. D \subseteq DOMAIN r.starting
      BY BookPlaces
    <3> QED
      BY <1>1, <1>4, <3>1 DEF Sound, RecordsOK
  <2>2. \A f \in s.slashes : f.height <= k
    <3>1. \A f \in r.slashes : f.height \in Nat
      BY <1>1 DEF Sound, RecordsOK
    <3> QED
      BY <1>1, <1>4, <1>6, <3>1 DEF events
  <2> QED
    BY <1>1, <1>4, <1>5, <2>1, <2>2 DEF Book
<1>13. \A p : Ratio(s, p) = Ratio(open, p)
  BY <1>8, <1>11 DEF Ratio, Historical
<1>14. KeepsRatios(s, r)
  <2> SUFFICES ASSUME NEW p \in DOMAIN s.historical, p < r.period
               PROVE  Ratio(s, p) = Ratio(r, p)
    BY DEF KeepsRatios
  <2>1. p # n /\ p \in Int
    BY <1>1, <1>5 DEF n, Sound, RecordsOK
  <2>2. p \in DOMAIN open.historical
    <3>1. p \in DOMAIN inc.historical
      BY <1>11
    <3>2. CASE p \in DOMAIN open.historical
      BY <3>2
    <3>3. CASE p \notin DOMAIN open.historical
      <4>1. Historical(open, n).refs = 1 /\ ~(Historical(open, n).refs > 2)
        BY <1>3
      <4> DEFINE z == [ratio |-> Historical(open, n).ratio, refs |-> Historical(open, n).refs + 1]
                 set == SetHistorical(open, n, z)
      <4>2. inc = CheckFor(set, Historical(open, n).refs > 2)
        BY DEF inc, IncrementReferenceCount
      <4>3. z \in [ratio : Int, refs : Nat \ {0}]
        BY <1>7, <4>1, HistoricalType DEF Sound
      <4>4. DOMAIN set.historical = DOMAIN open.historical \cup {n}
        <5> HIDE DEF z
        <5> QED
          BY <1>1, <1>7, SetHistoricalValues
      <4>5. Sound(set)
        <5> HIDE DEF z
        <5> QED
          BY <1>1, <1>7, <4>3, SetHistoricalSound
      <4> HIDE DEF set
      <4>6. inc = set
        BY <4>1, <4>2, <4>5, CheckPasses
      <4> QED
        BY <2>1, <3>1, <4>4, <4>6
    <3> QED
      BY <3>2, <3>3
  <2> QED
    BY <1>3, <1>13, <2>1, <2>2
<1>16. gain \in Nat
  BY <1>1, QuoNat DEF gain
<1>15. ASSUME NEW d \in D
       PROVE  /\ Due(s, d, k).stake = L[d]
              /\ Due(s, d, k).sum = Due(r, d, h).sum + K[d] * gain
  <2>1. Placed(r, d, h) /\ Placed(s, d, k) /\ Ratio(r, r.period - 1) \in Int
    BY <1>12, BookPlaces
  <2>2. RatiosKept(s, r, d)
    BY <1>4, <1>12, <1>14, KeptRatios DEF events
  <2>3. /\ Due(s, d, k).stake = (Due(r, d, h).stake * e.keep) \div 2
        /\ Due(s, d, k).sum = Due(r, d, h).sum
             + Due(r, d, h).stake * (Ratio(s, s.period - 1) - Ratio(r, r.period - 1))
    <3>1. /\ s.starting[d] = r.starting[d] /\ s.period = r.period + 1
          /\ s.slashes = r.slashes \cup {e} /\ e.period = r.period /\ e.height = k
      BY <1>4, <1>6, <1>11 DEF n, events
    <3> QED
      BY <2>1, <2>2, <3>1, DueSlashed
  <2>4. Ratio(s, s.period - 1) - Ratio(r, r.period - 1) = gain
    <3>1. s.period - 1 = n /\ gain \in Int
      BY <1>1, <1>11, <1>16
    <3> QED
      BY <1>3, <1>13, <2>1, <3>1
  <2>5. Due(r, d, h).stake = K[d]
    BY DEF Solvent
  <2> QED
    BY <1>6, <2>3, <2>4, <2>5
<1>17. D \subseteq D /\ D \subseteq DOMAIN s.starting
  BY <1>12, BookPlaces
<1>18. /\ Covered(Dues(s, D, k), Free(r) + T * gain)
       /\ \A d \in D : Due(s, d, k).sum >= 0
  <2>1. Gains(s, k, r, h, D, K, gain)
    BY <1>5, <1>15, <1>16, <1>17 DEF Gains
  <2> QED
    BY <1>1, <1>17, <2>1, DuesCovered
<1>19. Free(s) = Free(open) /\ Free(open) \in Int /\ Free(r) + T * gain \in Int /\ Safe(s)
  <2>1. Free(s) = Free(open) /\ Free(open) \in Int
    BY <1>7, <1>11 DEF SameNumbers, Free, Sound, RecordsOK
  <2>2. Free(r) + T * gain \in Int
    BY <1>1, <1>16 DEF Free, Sound, RecordsOK
  <2>3. Safe(s)
    BY <1>2, <1>11 DEF SameNumbers, Solvent, Safe
  <2> QED
    BY <2>1, <2>2, <2>3
<1>20. Covered(Dues(s, D, k), Free(s))
  <2>1. Dues(s, D, k) \in Amounts /\ \A d \in Delegators : Dues(s, D, k)[d] <= Dues(s, D, k)[d]
    <3>1. Dues(s, D, k) \in Amounts
      BY <1>5, <1>17, DuesType
    <3> QED
      BY <3>1 DEF Amounts
  <2>2. Free(r) + T * gain <= Free(s)
    BY <1>2, <1>19 DEF gain
  <2> QED
    BY <1>18, <1>19, <2>1, <2>2, CoveredLess
<1> QED
  BY <1>12, <1>15, <1>18, <1>19, <1>20 DEF Solvent, s

(* Nothing is due to a validator's delegators before any of them is back.  *)
LEMMA AfreshSolvent ==
  ASSUME NEW r, Sound(r), Safe(r), r.outstanding >= 0, DOMAIN r.historical = {}, r.slashes = {},
         NEW K
  PROVE  LET s == Reinitialized(r) IN
         Book(s, {}, 0) /\ Solvent(s, {}, 0, K)
<1> DEFINE pooled == r.pool + r.outstanding
           donated == [r EXCEPT !.pool = pooled]
           first == [ratio |-> 0, refs |-> 1]
           set == SetHistorical(donated, 0, first)
           s == Reinitialized(r)
<1>1. Sound(s) /\ Exact(s, {}) /\ s.slashes = {}
  BY DonatedSound, ReinitializedRenewed DEF Reinitialized, Renewed
<1>2. pooled \in Int /\ pooled >= 0 /\ r.paid >= 0 /\ r.panics = 0
  BY DEF Sound, RecordsOK, Safe
<1>3. donated = DonateOutstanding(r)
  BY DEF DonateOutstanding, Sound, RecordsOK
<1> HIDE DEF pooled
<1>4. RecordsOK(donated) /\ donated.pool = pooled /\ donated.paid = r.paid /\ donated.panics = r.panics
  <2>1. RecordsOK(donated)
    BY <1>3, DonatedFields
  <2>2. donated.pool = pooled /\ donated.paid = r.paid /\ donated.panics = r.panics
    BY DEF Sound, RecordsOK
  <2> QED
    BY <2>1, <2>2
<1>5. s = [set EXCEPT !.current = 0, !.period = 1, !.commission = 0, !.outstanding = 0]
  BY <1>3 DEF Reinitialized, InitializeValidator
<1> HIDE DEF donated
<1>6. first \in [ratio : Int, refs : Nat \ {0}]
  OBVIOUS
<1> HIDE DEF first
<1>7. RecordsOK(set) /\ SameAmounts(set, donated)
  BY <1>4, <1>6, SetHistoricalOK
<1>8. set.panics = donated.panics
  <2> DEFINE f == Put(donated.historical, 0, first)
  <2>1. set = [donated EXCEPT !.historical = f]
    BY <1>4 DEF SetHistorical, RecordsOK
  <2> HIDE DEF f, set
  <2> QED
    BY <1>4, <2>1 DEF RecordsOK
<1> HIDE DEF set, s
<1>9. s = [current |-> 0, period |-> 1, historical |-> set.historical,
           starting |-> set.starting, outstanding |-> 0, commission |-> 0,
           slashes |-> set.slashes, pool |-> set.pool, paid |-> set.paid,
           received |-> set.received, panics |-> set.panics]
  BY <1>5, <1>7 DEF RecordsOK
<1>10. Safe(s) /\ Free(s) = 0
  BY <1>2, <1>4, <1>7, <1>8, <1>9 DEF Safe, Free, SameAmounts
<1>11. Book(s, {}, 0)
  BY <1>1, FS_EmptySet DEF Book
<1>12. Covered(Dues(s, {}, 0), Free(s))
  <2>1. Dues(s, {}, 0) = [d \in Delegators |-> 0]
    BY DEF Dues
  <2> QED
    BY <1>10, <2>1, NothingCovered
<1> QED
  BY <1>10, <1>11, <1>12 DEF Solvent, s

LEMMA ClearedSafe ==
  ASSUME NEW r, Sound(r), Safe(r)
  PROVE  Safe(Cleared(r)) /\ Cleared(r).outstanding = r.outstanding
<1> DEFINE h == [p \in {} |-> 0]
<1>1. Cleared(r) = [r EXCEPT !.slashes = {}, !.historical = h]
  BY DEF Cleared
<1> HIDE DEF h
<1> QED
  BY <1>1 DEF Sound, RecordsOK, Safe

(* The operator is the first delegator.                                    *)
LEMMA GenesisSolvent ==
  ASSUME NEW v \in Validators, NEW K \in Stakes, K[v] = SelfStake
  PROVE  Book(GenesisRecord(v), {v}, 0) /\ Solvent(GenesisRecord(v), {v}, 0, K)
<1> DEFINE empty == [current |-> 0, period |-> 0, historical |-> [p \in {} |-> 0],
                     starting |-> [d \in {} |-> 0], outstanding |-> 0, commission |-> 0,
                     slashes |-> {}, pool |-> 0, paid |-> 0, received |-> 0, panics |-> 0]
           one == InitializeValidator(empty)
           none == [d \in Delegators |-> 0]
           set == SetHistorical(empty, 0, [ratio |-> 0, refs |-> 1])
<1>1. RecordsOK(empty) /\ empty.received = empty.paid + empty.pool
  BY DEF RecordsOK
<1>2. DOMAIN empty.historical = {} /\ empty.slashes = {}
  OBVIOUS
<1>3. GenesisRecord(v) = InitializeDelegation(IncrementValidatorPeriod(one, SelfStake), v, SelfStake, 0)
  BY DEF GenesisRecord
<1>4. /\ one.current = 0 /\ one.commission = 0 /\ one.outstanding = 0
      /\ one.pool = 0 /\ one.paid = 0 /\ one.panics = 0
  BY DEF InitializeValidator, SetHistorical
<1> HIDE DEF empty
<1>5. Sound(one)
  BY <1>1, ReinitializedSound
<1>6. Renewed(one, {})
  BY <1>1, <1>2, InitializedRenewed
<1> HIDE DEF one
<1>7. Book(one, {}, 0)
  BY <1>5, <1>6, FS_EmptySet DEF Renewed, Book
<1>8. Solvent(one, {}, 0, none)
  <2>1. Dues(one, {}, 0) = [d \in Delegators |-> 0]
    BY DEF Dues
  <2>2. Free(one) = 0 /\ Safe(one)
    BY <1>4 DEF Free, Safe
  <2> QED
    BY <2>1, <2>2, NothingCovered DEF Solvent
<1>9. none \in Stakes /\ SelfStake \in Nat /\ Covered(none, SelfStake)
  BY SizesAssumption, NothingCovered DEF Stakes
<1>10. Enters(v, SelfStake, none, K, {})
  BY SelfIsDelegator DEF Enters
<1> HIDE DEF none
<1>11. Backed(one, {}, 0, none, SelfStake)
  BY <1>7, <1>8, <1>9 DEF Backed
<1>12. 0 \in Nat /\ 0 <= 0 /\ {} \cup {v} = {v}
  OBVIOUS
<1> QED
  BY <1>3, <1>10, <1>11, <1>12, JoinSolvent

(***************************************************************************)
(* Stakes that halve evenly                                                *)
(***************************************************************************)

(* Tokens t and shares s, T together, in units of M tokens with the same   *)
(* number of shares for every token.                                       *)
InUnits(s, t, T, M, D, u, k) ==
  /\ D \in Nat \ {0} /\ u \in Nat /\ k \in Stakes
  /\ t = M * u /\ T = D * t /\ \A d \in Delegators : s[d] = D * (M * k[d])

Grained(s, t, T, M) == t > 0 => \E D, u, k : InUnits(s, t, T, M, D, u, k)

(* The tokens behind each delegation.                                      *)
StakesOf(s, t, T) == [d \in Delegators |-> Quo(s[d] * t, T)]

StakesAre(K, M, k) == \A d \in Delegators : K[d] = M * k[d]

LEMMA QuoExact ==
  ASSUME NEW a \in Int, NEW b \in Nat, b > 0
  PROVE  Quo(a * b, b) = a
<1> DEFINE q == (a * b) \div b
<1>1. a * b \in Int
  OBVIOUS
<1>2. q \in Int /\ q * b <= a * b /\ a * b < (q + 1) * b
  <2> DEFINE m == a * b
  <2>1. m \in Int
    BY <1>1
  <2> HIDE DEF m
  <2>2. LET p == m \div b IN p \in Int /\ p * b <= m /\ m < (p + 1) * b
    BY <2>1, Quotient
  <2> QED
    BY <2>2 DEF m
<1> HIDE DEF q
<1>3. a < q + 1
  BY <1>2, TimesMonotone
<1>4. q < a + 1
  <2>1. a * b < (a + 1) * b
    OBVIOUS
  <2>2. q * b < (a + 1) * b
    <3>1. q * b \in Int /\ (a + 1) * b \in Int
      BY <1>2
    <3> DEFINE x == q * b
               y == a * b
               z == (a + 1) * b
    <3>2. x \in Int /\ y \in Int /\ z \in Int /\ x <= y /\ y < z
      BY <1>1, <1>2, <2>1, <3>1
    <3> HIDE DEF x, y, z
    <3>3. x < z
      BY <3>2
    <3> QED
      BY <3>3 DEF x, z
  <2> QED
    BY <1>2, <2>2, TimesMonotone
<1> QED
  BY <1>2, <1>3, <1>4 DEF Quo, q

LEMMA UnitStakes ==
  ASSUME NEW s, NEW t \in Nat, t > 0, NEW T, NEW M \in Nat, NEW D, NEW u, NEW k,
         InUnits(s, t, T, M, D, u, k)
  PROVE  /\ StakesAre(StakesOf(s, t, T), M, k)
         /\ StakesOf(s, t, T) \in Stakes
         /\ T \in Nat /\ T > 0 /\ M > 0
<1>1. D \in Nat /\ D > 0 /\ u \in Nat /\ t = M * u /\ T = D * t
  BY DEF InUnits
<1>2. T \in Nat /\ T > 0
  BY <1>1
<1>3. ASSUME NEW d \in Delegators PROVE Quo(s[d] * t, T) = M * k[d] /\ M * k[d] \in Nat
  <2> DEFINE x == M * k[d]
  <2>1. k[d] \in Nat /\ s[d] = D * x
    BY DEF InUnits, Stakes
  <2>2. x \in Nat
    BY <2>1
  <2> HIDE DEF x
  <2>3. s[d] * t = x * T
    BY <1>1, <2>1, <2>2
  <2>4. x \in Int /\ Quo(x * T, T) = x
    BY <1>2, <2>2, QuoExact
  <2>5. Quo(s[d] * t, T) = x
    BY <2>3, <2>4
  <2> QED
    BY <2>2, <2>5 DEF x
<1>4. M > 0
  <2>1. CASE M = 0
    BY <1>1, <2>1
  <2> QED
    BY <2>1
<1> QED
  BY <1>2, <1>3, <1>4 DEF StakesOf, Stakes, StakesAre

LEMMA NoTokensNoStakes ==
  ASSUME NEW s \in [Delegators -> Int], NEW T \in Nat, T > 0
  PROVE  StakesOf(s, 0, T) = [d \in Delegators |-> 0]
<1>1. ASSUME NEW d \in Delegators PROVE Quo(s[d] * 0, T) = 0
  <2>1. s[d] * 0 = 0 * T
    OBVIOUS
  <2> QED
    BY <2>1, QuoExact
<1> QED
  BY <1>1 DEF StakesOf

(* In such units the stakes are the tokens.                                *)
LEMMA GrainCovered ==
  ASSUME NEW s \in [Delegators -> Int], NEW t \in Nat, NEW T \in Nat, T > 0, NEW M \in Nat,
         SumsTo(s, T), Grained(s, t, T, M)
  PROVE  StakesOf(s, t, T) \in Stakes /\ Covered(StakesOf(s, t, T), t)
<1>1. CASE t = 0
  <2>1. StakesOf(s, t, T) = [d \in Delegators |-> 0]
    BY <1>1, NoTokensNoStakes
  <2> QED
    BY <1>1, <2>1, NothingCovered DEF Stakes
<1>2. CASE t # 0
  <2>1. PICK D, u, k : InUnits(s, t, T, M, D, u, k)
    BY <1>2 DEF Grained
  <2>0. StakesOf(s, t, T) \in Stakes /\ \A d \in Delegators : StakesOf(s, t, T)[d] = M * k[d]
    <3>1. t > 0
      BY <1>2
    <3>2. StakesAre(StakesOf(s, t, T), M, k) /\ StakesOf(s, t, T) \in Stakes
      BY <2>1, <3>1, UnitStakes
    <3> QED
      BY <3>2 DEF StakesAre
  <2> DEFINE K == StakesOf(s, t, T)
  <2>2. K \in Stakes /\ \A d \in Delegators : K[d] = M * k[d]
    BY <2>0
  <2> HIDE DEF K
  <2>3. D \in Nat /\ D > 0 /\ T = D * t /\ \A d \in Delegators : s[d] = D * K[d] /\ K[d] \in Nat
    <3>1. D \in Nat /\ D > 0 /\ T = D * t /\ \A d \in Delegators : s[d] = D * (M * k[d])
      BY <2>1 DEF InUnits
    <3> QED
      BY <2>2, <3>1 DEF Stakes
  <2>4. PICK f : RunningSum(f, s) /\ f[NumDelegators] = T
    BY DEF SumsTo
  <2> DEFINE g == [i \in 0 .. NumDelegators |-> f[i] \div D]
  <2>5. /\ NumDelegators \in 0 .. NumDelegators /\ 0 \in 0 .. NumDelegators
        /\ \A d \in Delegators : d \in 0 .. NumDelegators /\ d - 1 \in 0 .. NumDelegators
    BY NumDelegatorsNat
  <2>6. /\ \A i \in 0 .. NumDelegators : f[i] \in Int
        /\ f[0] = 0 /\ \A d \in Delegators : f[d] = f[d - 1] + s[d]
        /\ \A i, j \in 0 .. NumDelegators : i <= j => f[i] <= f[j]
    BY <2>4 DEF RunningSum
  <2>7. \A i \in 0 .. NumDelegators :
          g[i] \in Int /\ g[i] * D <= f[i] /\ f[i] < (g[i] + 1) * D
    <3> TAKE i \in 0 .. NumDelegators
    <3>1. f[i] \in Int
      BY <2>6
    <3>2. g[i] = f[i] \div D
      OBVIOUS
    <3> DEFINE m == f[i]
    <3>3. LET q == m \div D IN q \in Int /\ q * D <= m /\ m < (q + 1) * D
      <4> HIDE DEF m
      <4>1. m \in Int
        BY <3>1 DEF m
      <4> QED
        BY <2>3, <4>1, Quotient
    <3> QED
      BY <3>2, <3>3
  <2>8. g \in [0 .. NumDelegators -> Int]
    BY <2>7
  <2> HIDE DEF g
  <2>9. g[0] = 0
    <3>1. g[0] \in Int /\ g[0] * D <= 0 * D /\ 0 * D < (g[0] + 1) * D
      BY <2>3, <2>5, <2>6, <2>7
    <3>2. 0 < g[0] + 1
      BY <2>3, <3>1, TimesMonotone
    <3>3. g[0] * D < 1 * D
      BY <2>3, <3>1
    <3>4. g[0] < 1
      BY <2>3, <3>1, <3>3, TimesMonotone
    <3> QED
      BY <3>1, <3>2, <3>4
  <2>10. \A d \in Delegators : g[d - 1] + K[d] <= g[d]
    <3> TAKE d \in Delegators
    <3> DEFINE x == g[d - 1]
               y == g[d]
               z == K[d]
    <3>1. /\ x \in Int /\ y \in Int /\ z \in Nat /\ x * D <= f[d - 1] /\ f[d] < (y + 1) * D
          /\ f[d] = f[d - 1] + D * z /\ f[d] \in Int /\ f[d - 1] \in Int
      BY <2>3, <2>5, <2>6, <2>7
    <3> HIDE DEF x, y, z
    <3>2. (x + z) * D = x * D + D * z /\ x * D \in Int /\ D * z \in Int /\ (y + 1) * D \in Int
      BY <2>3, <3>1
    <3>3. (x + z) * D < (y + 1) * D
      <4> DEFINE a == x * D
                 b == D * z
                 c == (y + 1) * D
                 e == (x + z) * D
      <4>1. a \in Int /\ b \in Int /\ c \in Int /\ e = a + b /\ a <= f[d - 1] /\ f[d] < c
            /\ f[d] = f[d - 1] + b
        BY <3>1, <3>2
      <4> HIDE DEF a, b, c, e
      <4>2. e < c
        BY <3>1, <4>1
      <4> QED
        BY <4>2 DEF c, e
    <3>4. x + z < y + 1
      BY <2>3, <3>1, <3>3, TimesMonotone
    <3>5. x + z <= y
      BY <3>1, <3>4
    <3> QED
      BY <3>5 DEF x, y, z
  <2>11. \A i, j \in 0 .. NumDelegators : i <= j => g[i] <= g[j]
    <3> SUFFICES ASSUME NEW i \in 0 .. NumDelegators, NEW j \in 0 .. NumDelegators, i <= j
                 PROVE  g[i] <= g[j]
      OBVIOUS
    <3> DEFINE x == g[i]
               y == g[j]
    <3>1. x \in Int /\ y \in Int /\ x * D <= f[i] /\ f[i] <= f[j] /\ f[j] < (y + 1) * D
          /\ f[i] \in Int /\ f[j] \in Int
      BY <2>6, <2>7
    <3> HIDE DEF x, y
    <3>2. x * D < (y + 1) * D
      <4> DEFINE a == x * D
                 c == (y + 1) * D
      <4>1. a \in Int /\ c \in Int /\ a <= f[i] /\ f[j] < c
        BY <2>3, <3>1
      <4> HIDE DEF a, c
      <4>2. a < c
        BY <3>1, <4>1
      <4> QED
        BY <4>2 DEF a, c
    <3>3. x < y + 1
      BY <2>3, <3>1, <3>2, TimesMonotone
    <3>4. x <= y
      BY <3>1, <3>3
    <3> QED
      BY <3>4 DEF x, y
  <2>12. g[NumDelegators] <= t
    <3> DEFINE x == g[NumDelegators]
    <3>1. x \in Int /\ x * D <= T
      BY <2>4, <2>5, <2>7
    <3> HIDE DEF x
    <3>2. T = t * D /\ t * D < (t + 1) * D /\ x * D \in Int
      BY <2>3, <3>1
    <3>3. x * D < (t + 1) * D
      <4> DEFINE a == x * D
                 b == t * D
                 c == (t + 1) * D
      <4>1. a \in Int /\ b \in Int /\ c \in Int /\ a <= b /\ b < c
        BY <2>3, <3>1, <3>2
      <4> HIDE DEF a, b, c
      <4>2. a < c
        BY <4>1
      <4> QED
        BY <4>2 DEF a, c
    <3>4. x < t + 1
      BY <2>3, <3>1, <3>3, TimesMonotone
    <3>5. x <= t
      BY <3>1, <3>4
    <3> QED
      BY <3>5 DEF x
  <2>13. SumBound(g, K)
    BY <2>8, <2>9, <2>10, <2>11 DEF SumBound
  <2>14. Covered(K, t)
    BY <2>12, <2>13 DEF Covered
  <2> QED
    BY <2>2, <2>14 DEF K
<1> QED
  BY <1>1, <1>2

(* Smaller units do as well.                                               *)
LEMMA GrainFiner ==
  ASSUME NEW s, NEW t, NEW T, NEW M, NEW N \in Nat, NEW c \in Nat, M = c * N,
         Grained(s, t, T, M)
  PROVE  Grained(s, t, T, N)
<1> SUFFICES ASSUME t > 0 PROVE \E D, u, k : InUnits(s, t, T, N, D, u, k)
  BY DEF Grained
<1>1. PICK D, u, k : InUnits(s, t, T, M, D, u, k)
  BY DEF Grained
<1> DEFINE x == c * u
           l == [d \in Delegators |-> c * k[d]]
<1>2. D \in Nat \ {0} /\ u \in Nat /\ k \in Stakes /\ t = M * u /\ T = D * t
      /\ \A d \in Delegators : s[d] = D * (M * k[d]) /\ k[d] \in Nat
  BY <1>1 DEF InUnits, Stakes
<1>3. x \in Nat /\ N * x = M * u
  <2>1. x \in Nat
    BY <1>2
  <2>2. N * (c * u) = (c * N) * u
    BY <1>2
  <2> QED
    BY <2>1, <2>2
<1>4. l \in Stakes /\ \A d \in Delegators : l[d] = c * k[d] /\ N * l[d] = M * k[d]
  <2>1. ASSUME NEW d \in Delegators PROVE l[d] = c * k[d] /\ l[d] \in Nat /\ N * l[d] = M * k[d]
    <3>1. k[d] \in Nat /\ l[d] = c * k[d]
      BY <1>2
    <3>2. c * k[d] \in Nat /\ N * (c * k[d]) = (c * N) * k[d]
      BY <3>1
    <3> QED
      BY <3>1, <3>2
  <2> QED
    BY <2>1 DEF Stakes
<1> HIDE DEF x, l
<1>5. InUnits(s, t, T, N, D, x, l)
  BY <1>2, <1>3, <1>4 DEF InUnits
<1> QED
  BY <1>5

(* Arithmetic of one unit more, one unit less and half a unit.             *)
LEMMA UnitsAdded ==
  ASSUME NEW M \in Nat, NEW D \in Nat, NEW u \in Nat, NEW c \in Nat
  PROVE  /\ M * u + M * c = M * (u + c)
         /\ D * (M * u) + D * (M * c) = D * (M * (u + c))
<1>1. M * u + M * c = M * (u + c)
  OBVIOUS
<1> DEFINE x == M * u
           y == M * c
           z == M * (u + c)
<1>2. x \in Nat /\ y \in Nat /\ z = x + y
  BY <1>1
<1> HIDE DEF x, y, z
<1>3. D * x + D * y = D * z
  BY <1>2
<1> QED
  BY <1>1, <1>3 DEF x, y, z

LEMMA UnitsTaken ==
  ASSUME NEW M \in Nat, NEW u \in Nat, NEW x \in Nat
  PROVE  M * u - M * x = M * (u - x)
  OBVIOUS

(* The stakes L are K but for d; all of K, or none, is halved.             *)
Changes(L, K, d, stake) == \A e \in Delegators : L[e] = IF e = d THEN stake ELSE K[e]
Halves(L, K, keep) == \A e \in Delegators : L[e] = (K[e] * keep) \div 2

MultipleOf(S, M) == \E c \in Nat : S = M * c

(* A delegation of a whole number of units buys shares at par.             *)
LEMMA GrainJoin ==
  ASSUME NEW s \in [Delegators -> Int], NEW d \in Delegators,
         NEW t \in Nat, t > 0, NEW T, NEW M \in Nat, NEW S \in Nat, MultipleOf(S, M),
         Grained(s, t, T, M),
         NEW n, n = Quo(S * T, t), NEW s2, s2 = [s EXCEPT ![d] = n],
         NEW t2, t2 = t + S, NEW T2, T2 = T + n
  PROVE  /\ n \in Int /\ T \in Nat /\ T > 0
         /\ Grained(s2, t2, T2, M)
         /\ Changes(StakesOf(s2, t2, T2), StakesOf(s, t, T), d, S)
<1>c. PICK c \in Nat : S = M * c
  BY DEF MultipleOf
<1>1. PICK D, u, k : InUnits(s, t, T, M, D, u, k)
  BY DEF Grained
<1>2. D \in Nat /\ D > 0 /\ u \in Nat /\ k \in Stakes /\ t = M * u /\ T = D * t
      /\ \A e \in Delegators : s[e] = D * (M * k[e])
  BY <1>1 DEF InUnits
<1>3. n = D * S /\ n \in Nat
  <2>1. S * T = (D * S) * t
    BY <1>2
  <2> DEFINE x == D * S
  <2>2. x \in Int /\ x \in Nat
    BY <1>2
  <2>3. S * T = x * t
    BY <2>1
  <2> HIDE DEF x
  <2>4. Quo(x * t, t) = x
    BY <2>2, QuoExact
  <2>5. n = x
    BY <2>3, <2>4
  <2> QED
    BY <2>2, <2>5 DEF x
<1> DEFINE l == [k EXCEPT ![d] = c]
<1>4. l \in Stakes /\ l[d] = c /\ \A e \in Delegators : e # d => l[e] = k[e]
  BY <1>2 DEF Stakes
<1> HIDE DEF l
<1>5. u + c \in Nat /\ t + S = M * (u + c)
  BY <1>c, <1>2, UnitsAdded
<1>6. T + n = D * (t + S)
  BY <1>2, <1>3
<1>7. \A e \in Delegators : s2[e] = D * (M * l[e])
  <2>1. s2[d] = n /\ \A e \in Delegators : e # d => s2[e] = s[e]
    OBVIOUS
  <2>2. s2[d] = D * (M * l[d])
    BY <1>c, <1>3, <1>4, <2>1
  <2>3. \A e \in Delegators : e # d => s2[e] = D * (M * l[e])
    BY <1>2, <1>4, <2>1
  <2> QED
    BY <2>2, <2>3
<1>8. InUnits(s2, t + S, T + n, M, D, u + c, l)
  BY <1>2, <1>4, <1>5, <1>6, <1>7 DEF InUnits
<1>9. Grained(s2, t + S, T + n, M)
  BY <1>8 DEF Grained
<1>10. T \in Nat /\ T > 0 /\ \A e \in Delegators : StakesOf(s, t, T)[e] = M * k[e]
  <2>1. T \in Nat /\ T > 0 /\ StakesAre(StakesOf(s, t, T), M, k)
    BY <1>1, UnitStakes
  <2> QED
    BY <2>1 DEF StakesAre
<1>11. \A e \in Delegators : StakesOf(s2, t + S, T + n)[e] = M * l[e]
  <2>1. t + S \in Nat /\ t + S > 0
    OBVIOUS
  <2>2. StakesAre(StakesOf(s2, t + S, T + n), M, l)
    BY <1>8, <2>1, UnitStakes
  <2> QED
    BY <2>2 DEF StakesAre
<1>12. ASSUME NEW e \in Delegators
       PROVE  StakesOf(s2, t + S, T + n)[e] = IF e = d THEN S ELSE StakesOf(s, t, T)[e]
  <2>1. CASE e = d
    BY <1>c, <1>4, <1>11, <2>1
  <2>2. CASE e # d
    BY <1>4, <1>10, <1>11, <2>2
  <2> QED
    BY <2>1, <2>2
<1>13. n \in Int /\ T \in Nat /\ T > 0
  BY <1>3, <1>10
<1>14. Changes(StakesOf(s2, t + S, T + n), StakesOf(s, t, T), d, S)
  BY <1>12 DEF Changes
<1> QED
  BY <1>9, <1>13, <1>14

(* Who leaves takes his units along and nobody else's.                     *)
LEMMA GrainLeave ==
  ASSUME NEW s \in [Delegators -> Int], NEW d \in Delegators,
         NEW t \in Nat, NEW T \in Nat, T > 0, NEW M \in Nat, Grained(s, t, T, M),
         T - s[d] > 0,
         NEW g, g = StakesOf(s, t, T)[d], NEW s2, s2 = [s EXCEPT ![d] = 0],
         NEW t2, t2 = t - g, NEW T2, T2 = T - s[d]
  PROVE  /\ g \in Nat /\ t2 \in Nat
         /\ Grained(s2, t2, T2, M)
         /\ Changes(StakesOf(s2, t2, T2), StakesOf(s, t, T), d, 0)
<1>0. s[d] \in Int /\ T - s[d] \in Nat /\ s2 \in [Delegators -> Int]
  OBVIOUS
<1>1. CASE t = 0
  <2>1. StakesOf(s, t, T) = [e \in Delegators |-> 0] /\ g = 0
    BY <1>1, NoTokensNoStakes
  <2>2. t - g = 0
    BY <1>1, <2>1
  <2> DEFINE r == T - s[d]
  <2>3. r \in Nat /\ r > 0
    BY <1>0
  <2> HIDE DEF r
  <2>4. StakesOf(s2, 0, r) = [e \in Delegators |-> 0]
    BY <1>0, <2>3, NoTokensNoStakes
  <2>5. StakesOf(s2, t - g, r) = [e \in Delegators |-> 0]
    BY <2>2, <2>4
  <2>6. Grained(s2, t - g, r, M)
    BY <2>2 DEF Grained
  <2>7. g \in Nat /\ t - g \in Nat
    BY <2>1, <2>2
  <2>8. \A e \in Delegators : StakesOf(s2, t - g, r)[e] = IF e = d THEN 0 ELSE StakesOf(s, t, T)[e]
    BY <2>1, <2>5
  <2>9. Changes(StakesOf(s2, t - g, r), StakesOf(s, t, T), d, 0)
    BY <2>8 DEF Changes
  <2> QED
    BY <2>6, <2>7, <2>9 DEF r
<1>2. CASE t # 0
  <2>0. t > 0
    BY <1>2
  <2>1. PICK D, u, k : InUnits(s, t, T, M, D, u, k)
    BY <2>0 DEF Grained
  <2>2. D \in Nat /\ D > 0 /\ u \in Nat /\ k \in Stakes /\ k[d] \in Nat /\ t = M * u /\ T = D * t
        /\ \A e \in Delegators : s[e] = D * (M * k[e])
    <3>1. D \in Nat \ {0} /\ u \in Nat /\ k \in Stakes /\ t = M * u /\ T = D * t
          /\ \A e \in Delegators : s[e] = D * (M * k[e])
      BY <2>1 DEF InUnits
    <3>2. k[d] \in Nat
      BY <3>1 DEF Stakes
    <3> QED
      BY <3>1, <3>2
  <2>3. M > 0 /\ \A e \in Delegators : StakesOf(s, t, T)[e] = M * k[e]
    <3>1. M > 0 /\ StakesAre(StakesOf(s, t, T), M, k)
      BY <2>0, <2>1, UnitStakes
    <3> QED
      BY <3>1 DEF StakesAre
  <2>4. g = M * k[d] /\ g \in Nat /\ s[d] = D * g
    BY <2>2, <2>3
  <2> DEFINE m == t - g
             r == T - s[d]
             w == u - k[d]
             l == [k EXCEPT ![d] = 0]
  <2>5. r = D * m /\ m \in Int /\ r > 0
    <3>1. D * (t - g) = D * t - D * g
      BY <2>2, <2>4
    <3> QED
      BY <1>0, <2>2, <2>4, <3>1
  <2>6. m > 0
    <3> HIDE DEF m, r
    <3>1. m * D > 0 * D
      BY <2>2, <2>5
    <3> QED
      BY <2>2, <2>5, <3>1, TimesMonotone
  <2>7. m = M * w /\ w \in Int
    <3>1. w \in Int
      BY <2>2
    <3>2. M * u - M * k[d] = M * w
      BY <2>2, UnitsTaken
    <3> QED
      BY <2>2, <2>4, <3>1, <3>2
  <2>8. w \in Nat
    <3> HIDE DEF m, w
    <3>1. 0 * M < w * M
      BY <2>6, <2>7
    <3>2. 0 < w
      BY <2>3, <2>7, <3>1, TimesMonotone
    <3> QED
      BY <2>7, <3>2
  <2>9. l \in Stakes /\ l[d] = 0 /\ \A e \in Delegators : e # d => l[e] = k[e]
    BY <2>2 DEF Stakes
  <2> HIDE DEF l
  <2>10. \A e \in Delegators : s2[e] = D * (M * l[e])
    <3>1. s2[d] = 0 /\ \A e \in Delegators : e # d => s2[e] = s[e]
      OBVIOUS
    <3>2. s2[d] = D * (M * l[d])
      <4>1. D * (M * 0) = 0
        BY <2>2
      <4> QED
        BY <2>9, <3>1, <4>1
    <3>3. \A e \in Delegators : e # d => s2[e] = D * (M * l[e])
      BY <2>2, <2>9, <3>1
    <3> QED
      BY <3>2, <3>3
  <2> HIDE DEF m, r, w
  <2>11. InUnits(s2, m, r, M, D, w, l)
    BY <2>2, <2>5, <2>7, <2>8, <2>9, <2>10 DEF InUnits
  <2>12. Grained(s2, m, r, M)
    BY <2>11 DEF Grained
  <2>13. m \in Nat
    BY <2>5, <2>6
  <2>14. \A e \in Delegators : StakesOf(s2, m, r)[e] = M * l[e]
    <3>1. StakesAre(StakesOf(s2, m, r), M, l)
      BY <2>6, <2>11, <2>13, UnitStakes
    <3> QED
      BY <3>1 DEF StakesAre
  <2>15. ASSUME NEW e \in Delegators
         PROVE  StakesOf(s2, m, r)[e] = IF e = d THEN 0 ELSE StakesOf(s, t, T)[e]
    <3>1. CASE e = d
      <4>1. M * 0 = 0
        OBVIOUS
      <4> QED
        BY <2>9, <2>14, <3>1, <4>1
    <3>2. CASE e # d
      BY <2>3, <2>9, <2>14, <3>2
    <3> QED
      BY <3>1, <3>2
  <2>16. Changes(StakesOf(s2, m, r), StakesOf(s, t, T), d, 0)
    BY <2>15 DEF Changes
  <2> QED
    BY <2>4, <2>12, <2>13, <2>16 DEF m, r
<1> QED
  BY <1>1, <1>2

LEMMA HalfOfTwice ==
  ASSUME NEW n \in Int
  PROVE  (2 * n) \div 2 = n /\ (2 * n * 1) \div 2 = n
  OBVIOUS

LEMMA HalfOfNone ==
  ASSUME NEW n \in Int
  PROVE  (n * 0) \div 2 = 0
  OBVIOUS

(* A slash halves every stake, or leaves none.                             *)
LEMMA GrainSlash ==
  ASSUME NEW s \in [Delegators -> Int], NEW t \in Nat, t > 0, NEW T,
         NEW M \in Nat, Grained(s, t, T, 2 * M),
         NEW keep \in {0, 1}, NEW t2, t2 = (t * keep) \div 2
  PROVE  /\ t2 \in Nat /\ t2 <= t
         /\ Grained(s, t2, T, M)
         /\ Halves(StakesOf(s, t2, T), StakesOf(s, t, T), keep)
<1>1. PICK D, u, k : InUnits(s, t, T, 2 * M, D, u, k)
  BY DEF Grained
<1>2. 2 * M \in Nat
  OBVIOUS
<1>3. D \in Nat /\ D > 0 /\ u \in Nat /\ k \in Stakes /\ t = (2 * M) * u /\ T = D * t
      /\ \A e \in Delegators : s[e] = D * ((2 * M) * k[e]) /\ k[e] \in Nat
  BY <1>1 DEF InUnits, Stakes
<1>4. T \in Nat /\ T > 0 /\ \A e \in Delegators : StakesOf(s, t, T)[e] = (2 * M) * k[e]
  <2> DEFINE N == 2 * M
  <2>1. N \in Nat
    BY <1>2
  <2>2. InUnits(s, t, T, N, D, u, k)
    BY <1>1
  <2> HIDE DEF N
  <2>3. T \in Nat /\ T > 0 /\ \A e \in Delegators : StakesOf(s, t, T)[e] = N * k[e]
    <3>1. T \in Nat /\ T > 0 /\ StakesAre(StakesOf(s, t, T), N, k)
      BY <2>1, <2>2, UnitStakes
    <3> QED
      BY <3>1 DEF StakesAre
  <2> QED
    BY <2>3 DEF N
<1>5. CASE keep = 0
  <2>1. t2 = 0
    BY <1>5, HalfOfNone
  <2>2. StakesOf(s, t2, T) = [e \in Delegators |-> 0]
    BY <1>4, <2>1, NoTokensNoStakes
  <2>3. \A e \in Delegators : (StakesOf(s, t, T)[e] * keep) \div 2 = 0
    <3> TAKE e \in Delegators
    <3>1. StakesOf(s, t, T)[e] \in Int
      <4>1. (2 * M) * k[e] \in Int
        BY <1>3
      <4> QED
        BY <1>4, <4>1
    <3> QED
      BY <1>5, <3>1, HalfOfNone
  <2>4. Grained(s, t2, T, M)
    BY <2>1 DEF Grained
  <2>5. Halves(StakesOf(s, t2, T), StakesOf(s, t, T), keep)
    BY <2>2, <2>3 DEF Halves
  <2> QED
    BY <2>1, <2>4, <2>5
<1>6. CASE keep = 1
  <2> DEFINE m == M * u
             E == 2 * D
  <2>1. m \in Nat /\ t = 2 * m
    <3>1. m \in Nat /\ (2 * M) * u = 2 * (M * u)
      BY <1>3
    <3> QED
      BY <1>3, <3>1
  <2>2. t2 = m
    BY <1>6, <2>1, HalfOfTwice
  <2>3. m > 0 /\ m <= t
    <3> HIDE DEF m
    <3> QED
      BY <2>1
  <2>4. E \in Nat \ {0} /\ T = E * m
    <3>1. D * (2 * m) = (2 * D) * m
      BY <1>3, <2>1
    <3> QED
      BY <1>3, <2>1, <3>1
  <2>5. \A e \in Delegators : s[e] = E * (M * k[e])
    <3> TAKE e \in Delegators
    <3>1. s[e] = D * ((2 * M) * k[e]) /\ k[e] \in Nat
      BY <1>3
    <3> DEFINE y == M * k[e]
    <3>2. y \in Nat /\ (2 * M) * k[e] = 2 * y
      BY <3>1
    <3> HIDE DEF y
    <3>3. D * (2 * y) = (2 * D) * y
      BY <1>3, <3>2
    <3> QED
      BY <3>1, <3>2, <3>3 DEF y
  <2>6. m = M * u
    OBVIOUS
  <2> HIDE DEF m, E
  <2>7. InUnits(s, m, T, M, E, u, k)
    BY <1>3, <2>4, <2>5, <2>6 DEF InUnits
  <2>8. Grained(s, m, T, M)
    BY <2>7 DEF Grained
  <2>9. \A e \in Delegators : StakesOf(s, m, T)[e] = M * k[e]
    <3>1. StakesAre(StakesOf(s, m, T), M, k)
      BY <2>1, <2>3, <2>7, UnitStakes
    <3> QED
      BY <3>1 DEF StakesAre
  <2>10. \A e \in Delegators : (StakesOf(s, t, T)[e] * keep) \div 2 = M * k[e]
    <3> TAKE e \in Delegators
    <3> DEFINE y == M * k[e]
    <3>1. y \in Int /\ (2 * M) * k[e] = 2 * y
      BY <1>3
    <3>2. StakesOf(s, t, T)[e] = 2 * y
      BY <1>4, <3>1
    <3>3. y = M * k[e]
      OBVIOUS
    <3> HIDE DEF y
    <3>4. (2 * y * keep) \div 2 = y
      BY <1>6, <3>1, HalfOfTwice
    <3>5. (StakesOf(s, t, T)[e] * keep) \div 2 = y
      BY <3>2, <3>4
    <3> QED
      BY <3>3, <3>5
  <2>11. Halves(StakesOf(s, m, T), StakesOf(s, t, T), keep)
    BY <2>9, <2>10 DEF Halves
  <2> QED
    BY <2>1, <2>2, <2>3, <2>8, <2>11
<1> QED
  BY <1>5, <1>6

(***************************************************************************)
(* What a block does to one validator                                      *)
(***************************************************************************)

HoldersOf(sh) == {d \in Delegators : sh[d] > 0}

(* Records, shares, tokens and total shares of a validator, together.      *)
StakesAt(p) == StakesOf(p.shares, p.tokens, p.total)
GrainedAt(p, M) == Grained(p.shares, p.tokens, p.total, M)
SolventAt(p, h) == Solvent(p.rec, HoldersOf(p.shares), h, StakesAt(p))
BackedAt(p, h) == Backed(p.rec, HoldersOf(p.shares), h, StakesAt(p), p.tokens)

Sized(p, h) ==
  /\ h \in Nat /\ Sound(p.rec) /\ Tracks(p.rec, HoldersOf(p.shares), h)
  /\ p.shares \in [Delegators -> Int] /\ p.tokens \in Nat
  /\ p.total \in Nat /\ p.total > 0 /\ SumsTo(p.shares, p.total)

LEMMA TrackedBook ==
  ASSUME NEW r, Sound(r), NEW H, NEW h \in Nat, Tracks(r, H, h)
  PROVE  Book(r, H, h)
<1>1. IsFiniteSet(H)
  BY StartsFinite
<1> QED
  BY <1>1 DEF Tracks, Reached, Book, Exact

LEMMA PositionBacked ==
  ASSUME NEW p, NEW h, Sized(p, h), NEW M \in Nat, GrainedAt(p, M), SolventAt(p, h)
  PROVE  BackedAt(p, h)
<1> DEFINE sh == p.shares
           t == p.tokens
           T == p.total
           r == p.rec
<1>1. /\ h \in Nat /\ Sound(r) /\ Tracks(r, HoldersOf(sh), h)
      /\ sh \in [Delegators -> Int] /\ t \in Nat /\ T \in Nat /\ T > 0 /\ SumsTo(sh, T)
  BY DEF Sized
<1>2. Grained(sh, t, T, M) /\ Solvent(r, HoldersOf(sh), h, StakesOf(sh, t, T))
  BY DEF GrainedAt, SolventAt, StakesAt
<1>3. BackedAt(p, h) <=> Backed(r, HoldersOf(sh), h, StakesOf(sh, t, T), t)
  BY DEF BackedAt, StakesAt
<1> HIDE DEF sh, t, T, r
<1>4. Book(r, HoldersOf(sh), h)
  BY <1>1, TrackedBook
<1>5. StakesOf(sh, t, T) \in Stakes /\ Covered(StakesOf(sh, t, T), t)
  BY <1>1, <1>2, GrainCovered
<1>6. Backed(r, HoldersOf(sh), h, StakesOf(sh, t, T), t)
  BY <1>1, <1>2, <1>4, <1>5 DEF Backed
<1> QED
  BY <1>3, <1>6

(* A block without an operation on the stakes of the validator.            *)
Rests(q, p) ==
  /\ q.shares = p.shares /\ q.tokens = p.tokens /\ q.total = p.total
  /\ q.rec = p.rec \/ q.rec = AllocateTokensToValidator(p.rec, Reward)

LEMMA RestHealthy ==
  ASSUME NEW p, NEW h, Sized(p, h), NEW M \in Nat, GrainedAt(p, M), SolventAt(p, h),
         NEW k \in Nat, h <= k, NEW q, Rests(q, p)
  PROVE  SolventAt(q, k) /\ GrainedAt(q, M)
<1> DEFINE H == HoldersOf(p.shares)
           K == StakesAt(p)
           r == p.rec
           t == p.tokens
<1>1. Backed(r, H, h, K, t)
  BY PositionBacked DEF BackedAt
<1>2. /\ HoldersOf(q.shares) = H /\ StakesAt(q) = K
      /\ q.rec = r \/ q.rec = AllocateTokensToValidator(r, Reward)
      /\ GrainedAt(q, M)
  BY DEF Rests, StakesAt, GrainedAt
<1> HIDE DEF H, K, r, t
<1>3. Backed(r, H, k, K, t)
  BY <1>1, SolventLater
<1>4. Book(r, H, k) /\ Solvent(r, H, k, K)
  BY <1>3 DEF Backed
<1>5. Solvent(AllocateTokensToValidator(r, Reward), H, k, K)
  BY <1>4, AllocateSolvent, SizesAssumption
<1>6. Solvent(q.rec, H, k, K)
  BY <1>2, <1>4, <1>5
<1> QED
  BY <1>2, <1>6 DEF SolventAt

(* A delegation of SelfStake tokens.                                       *)
Joins(q, p, d, k) ==
  /\ d \in Delegators /\ p.shares[d] = 0 /\ p.tokens > 0
  /\ \E n : /\ n = Quo(SelfStake * p.total, p.tokens) /\ n > 0
            /\ q.shares = [p.shares EXCEPT ![d] = n]
            /\ q.total = p.total + n
  /\ q.tokens = p.tokens + SelfStake
  /\ q.rec = InitializeDelegation(IncrementValidatorPeriod(p.rec, p.tokens), d, SelfStake, k)

LEMMA JoinHealthy ==
  ASSUME NEW p, NEW h, Sized(p, h), NEW M \in Nat, GrainedAt(p, M), SolventAt(p, h),
         NEW k \in Nat, h <= k, MultipleOf(SelfStake, M),
         NEW q, NEW d, Joins(q, p, d, k)
  PROVE  SolventAt(q, k) /\ GrainedAt(q, M)
<1> DEFINE sh == p.shares
           t == p.tokens
           T == p.total
           r == p.rec
           H == HoldersOf(sh)
           K == StakesOf(sh, t, T)
<1>1. Backed(r, H, h, K, t)
  BY PositionBacked DEF BackedAt, StakesAt
<1>2. PICK n : /\ n = Quo(SelfStake * T, t) /\ n > 0
               /\ q.shares = [sh EXCEPT ![d] = n] /\ q.total = T + n
  BY DEF Joins
<1>3. /\ d \in Delegators /\ sh[d] = 0 /\ t > 0 /\ q.tokens = t + SelfStake
      /\ q.rec = InitializeDelegation(IncrementValidatorPeriod(r, t), d, SelfStake, k)
  BY DEF Joins
<1>4. sh \in [Delegators -> Int] /\ t \in Nat /\ Grained(sh, t, T, M) /\ SelfStake \in Nat
  BY SizesAssumption DEF Sized, GrainedAt
<1>5. H = HoldersOf(sh) /\ K = StakesOf(sh, t, T) /\ K \in Stakes
  BY <1>1 DEF Backed
<1> DEFINE s2 == q.shares
           t2 == q.tokens
           T2 == q.total
           L == StakesOf(s2, t2, T2)
<1>6. /\ SolventAt(q, k) <=> Solvent(q.rec, HoldersOf(s2), k, L)
      /\ GrainedAt(q, M) <=> Grained(s2, t2, T2, M)
  BY DEF SolventAt, GrainedAt, StakesAt
<1>7. s2 = [sh EXCEPT ![d] = n] /\ t2 = t + SelfStake /\ T2 = T + n
  BY <1>2, <1>3
<1> HIDE DEF sh, t, T, r, H, K, s2, t2, T2
<1>8. /\ Grained(s2, t2, T2, M)
      /\ \A e \in Delegators : L[e] = IF e = d THEN SelfStake ELSE K[e]
  <2>1. n = Quo(SelfStake * T, t)
    BY <1>2
  <2>2. Grained(s2, t2, T2, M) /\ Changes(StakesOf(s2, t2, T2), StakesOf(sh, t, T), d, SelfStake)
    BY <1>3, <1>4, <1>7, <2>1, GrainJoin
  <2> QED
    BY <1>5, <2>2 DEF Changes
<1>9. L = [e \in Delegators |-> L[e]]
  BY DEF StakesOf
<1> HIDE DEF L
<1>10. L \in Stakes /\ L[d] = SelfStake /\ \A e \in H : L[e] = K[e]
  <2>1. \A e \in Delegators : L[e] \in Nat
    BY <1>4, <1>5, <1>8 DEF Stakes
  <2>2. L \in Stakes
    BY <1>9, <2>1 DEF Stakes
  <2>3. d \notin H /\ H \subseteq Delegators
    BY <1>3, <1>5 DEF HoldersOf
  <2> QED
    BY <1>3, <1>8, <2>2, <2>3
<1>11. Enters(d, SelfStake, K, L, H)
  BY <1>3, <1>5, <1>10 DEF Enters, HoldersOf
<1>12. Solvent(q.rec, H \cup {d}, k, L)
  BY <1>1, <1>3, <1>11, JoinSolvent
<1>13. HoldersOf(s2) = H \cup {d}
  BY <1>2, <1>3, <1>4, <1>5, <1>7 DEF HoldersOf
<1> QED
  BY <1>6, <1>8, <1>12, <1>13

(* A delegation is settled and leaves.                                     *)
Parts(q, p, d, k) ==
  /\ d \in Delegators /\ p.shares[d] > 0 /\ p.total - p.shares[d] > 0
  /\ q.shares = [p.shares EXCEPT ![d] = 0] /\ q.total = p.total - p.shares[d]
  /\ q.tokens = p.tokens - StakesAt(p)[d]
  /\ q.rec = SettleDelegation(p.rec, d, p.tokens, StakesAt(p)[d], k)

LEMMA PartHealthy ==
  ASSUME NEW p, NEW h, Sized(p, h), NEW M \in Nat, GrainedAt(p, M), SolventAt(p, h),
         NEW k \in Nat, h <= k, NEW q, NEW d, Parts(q, p, d, k)
  PROVE  SolventAt(q, k) /\ GrainedAt(q, M)
<1> DEFINE sh == p.shares
           t == p.tokens
           T == p.total
           r == p.rec
           H == HoldersOf(sh)
           K == StakesOf(sh, t, T)
           g == K[d]
           s2 == q.shares
           t2 == q.tokens
           T2 == q.total
           L == StakesOf(s2, t2, T2)
<1>1. Backed(r, H, h, K, t)
  BY PositionBacked DEF BackedAt, StakesAt
<1>2. /\ d \in Delegators /\ sh[d] > 0 /\ T - sh[d] > 0
      /\ s2 = [sh EXCEPT ![d] = 0] /\ T2 = T - sh[d] /\ t2 = t - g
      /\ q.rec = SettleDelegation(r, d, t, g, k)
  BY DEF Parts, StakesAt
<1>3. /\ sh \in [Delegators -> Int] /\ t \in Nat /\ T \in Nat /\ T > 0 /\ Grained(sh, t, T, M)
  BY DEF Sized, GrainedAt
<1>4. /\ SolventAt(q, k) <=> Solvent(q.rec, HoldersOf(s2), k, L)
      /\ GrainedAt(q, M) <=> Grained(s2, t2, T2, M)
  BY DEF SolventAt, GrainedAt, StakesAt
<1>5. H = HoldersOf(sh) /\ K = StakesOf(sh, t, T) /\ g = K[d]
  OBVIOUS
<1> HIDE DEF sh, t, T, r, H, K, s2, g, t2, T2
<1>6. /\ Grained(s2, t2, T2, M)
      /\ \A e \in Delegators : L[e] = IF e = d THEN 0 ELSE K[e]
  <2>1. g = StakesOf(sh, t, T)[d]
    BY <1>5
  <2>2. Grained(s2, t2, T2, M) /\ Changes(StakesOf(s2, t2, T2), StakesOf(sh, t, T), d, 0)
    BY <1>2, <1>3, <2>1, GrainLeave
  <2> QED
    BY <1>5, <2>2 DEF Changes
<1> HIDE DEF L
<1>7. Backed(r, H, k, K, t)
  BY <1>1, SolventLater
<1>8. d \in H /\ HoldersOf(s2) = H \ {d}
  BY <1>2, <1>3, <1>5 DEF HoldersOf
<1>9. Backed(q.rec, H \ {d}, k, K, t)
  <2> DEFINE x == q.rec
  <2>1. x = SettleDelegation(r, d, t, g, k) /\ d \in H /\ g = K[d]
    BY <1>2, <1>5, <1>8
  <2> HIDE DEF x
  <2>2. Backed(x, H \ {d}, k, K, t)
    BY <1>7, <2>1, SettleSolvent
  <2> QED
    BY <2>2 DEF x
<1>10. Solvent(q.rec, H \ {d}, k, K)
  BY <1>9 DEF Backed
<1>11. \A e \in H \ {d} : L[e] = K[e]
  BY <1>5, <1>6 DEF HoldersOf
<1>12. Solvent(q.rec, H \ {d}, k, L)
  BY <1>10, <1>11, SolventSame
<1> QED
  BY <1>4, <1>6, <1>8, <1>12

(* A slash.                                                                *)
Slashes(q, p, keep, k) ==
  /\ keep \in {0, 1} /\ p.tokens > 0
  /\ q.shares = p.shares /\ q.total = p.total /\ q.tokens = (p.tokens * keep) \div 2
  /\ q.rec = RecordSlash(p.rec, p.tokens, k, keep)

LEMMA SlashHealthy ==
  ASSUME NEW p, NEW h, Sized(p, h), NEW M \in Nat, GrainedAt(p, 2 * M), SolventAt(p, h),
         NEW k \in Nat, h <= k, NEW q, NEW keep, Slashes(q, p, keep, k)
  PROVE  SolventAt(q, k) /\ GrainedAt(q, M)
<1> DEFINE sh == p.shares
           t == p.tokens
           T == p.total
           r == p.rec
           H == HoldersOf(sh)
           K == StakesOf(sh, t, T)
           u == q.tokens
           L == StakesOf(sh, u, T)
<1>0. 2 * M \in Nat
  OBVIOUS
<1>1. Backed(r, H, h, K, t)
  BY <1>0, PositionBacked DEF BackedAt, StakesAt
<1>2. /\ keep \in {0, 1} /\ t > 0 /\ u = (t * keep) \div 2
      /\ q.rec = RecordSlash(r, t, k, keep)
  BY DEF Slashes
<1>3. sh \in [Delegators -> Int] /\ t \in Nat /\ Grained(sh, t, T, 2 * M)
  BY DEF Sized, GrainedAt
<1>4. /\ SolventAt(q, k) <=> Solvent(q.rec, H, k, L)
      /\ GrainedAt(q, M) <=> Grained(sh, u, T, M)
  BY DEF Slashes, SolventAt, GrainedAt, StakesAt
<1>5. H = HoldersOf(sh) /\ K = StakesOf(sh, t, T)
  OBVIOUS
<1> HIDE DEF sh, t, T, r, H, K, u
<1>6. /\ Grained(sh, u, T, M)
      /\ \A e \in Delegators : L[e] = (K[e] * keep) \div 2
  <2>1. Grained(sh, u, T, M) /\ Halves(StakesOf(sh, u, T), StakesOf(sh, t, T), keep)
    BY <1>2, <1>3, GrainSlash
  <2> QED
    BY <1>5, <2>1 DEF Halves
<1> HIDE DEF L
<1>7. \A e \in H : L[e] = (K[e] * keep) \div 2
  BY <1>5, <1>6 DEF HoldersOf
<1>8. Solvent(q.rec, H, k, L)
  BY <1>1, <1>2, <1>7, SlashSolvent
<1> QED
  BY <1>4, <1>6, <1>8

(***************************************************************************)
(* The slashes that are left, and the blocks                               *)
(***************************************************************************)

At(v) == [rec |-> dist[v], shares |-> shares[v], tokens |-> val[v].tokens,
          total |-> val[v].total]

(* A slash needs a bonded validator and leaves a jailed one: there is at   *)
(* most one in every two blocks.                                           *)
Exposed(v) == val[v].bonded \/ ~val[v].jailed
SlashesLeft(v) == (MaxBlocks - blocks + IF Exposed(v) THEN 1 ELSE 0) \div 2

GrainInv ==
  /\ blocks <= MaxBlocks
  /\ \A v \in Validators : GrainedAt(At(v), Two[SlashesLeft(v)])

Most == (MaxBlocks + 1) \div 2

LEMMA Halving ==
  ASSUME NEW x \in Nat
  PROVE  /\ x \div 2 \in Nat /\ (x + 1) \div 2 \in Nat
         /\ x \div 2 <= (x + 1) \div 2
         /\ (x + 2) \div 2 = x \div 2 + 1
         /\ \A y \in Nat : y <= x => y \div 2 <= x \div 2
  OBVIOUS

LEMMA SlashesLeftNat ==
  ASSUME blocks \in Nat, blocks <= MaxBlocks, NEW v
  PROVE  SlashesLeft(v) \in Nat /\ SlashesLeft(v) <= Most
<1> DEFINE x == MaxBlocks - blocks
<1>1. x \in Nat /\ x <= MaxBlocks /\ MaxBlocks \in Nat
  BY SizesAssumption
<1>2. SlashesLeft(v) = x \div 2 \/ SlashesLeft(v) = (x + 1) \div 2
  <2>1. CASE Exposed(v)
    BY <2>1 DEF SlashesLeft
  <2>2. CASE ~Exposed(v)
    <3>1. MaxBlocks - blocks + 0 = x
      BY <1>1
    <3>2. SlashesLeft(v) = (MaxBlocks - blocks + 0) \div 2
      BY <2>2 DEF SlashesLeft
    <3> QED
      BY <3>1, <3>2
  <2> QED
    BY <2>1, <2>2
<1> HIDE DEF x
<1>3. /\ x \div 2 \in Nat /\ (x + 1) \div 2 \in Nat /\ x \div 2 <= (x + 1) \div 2
      /\ x + 1 \in Nat /\ MaxBlocks + 1 \in Nat /\ x + 1 <= MaxBlocks + 1
  BY <1>1, Halving
<1>4. (x + 1) \div 2 <= Most /\ Most \in Nat
  <2> DEFINE a == x + 1
             b == MaxBlocks + 1
  <2>1. a \in Nat /\ b \in Nat /\ a <= b
    BY <1>3
  <2> HIDE DEF a, b
  <2>2. a \div 2 <= b \div 2 /\ b \div 2 \in Nat
    BY <2>1, Halving
  <2> QED
    BY <2>2 DEF a, b, Most
<1> QED
  BY <1>2, <1>3, <1>4

(* A block leaves no more of them, a slash one less.                       *)
LEMMA BlockCounts ==
  ASSUME blocks \in Nat, blocks < MaxBlocks, blocks' = blocks + 1, NEW v
  PROVE  /\ SlashesLeft(v) \in Nat /\ SlashesLeft(v)' \in Nat
         /\ SlashesLeft(v)' <= SlashesLeft(v)
         /\ Exposed(v) /\ ~Exposed(v)' => SlashesLeft(v) = SlashesLeft(v)' + 1
<1> DEFINE y == MaxBlocks - blocks - 1
           a == y \div 2
           b == (y + 1) \div 2
           c == (y + 2) \div 2
<1>1. y \in Nat /\ MaxBlocks - blocks = y + 1 /\ MaxBlocks - blocks' = y
  BY SizesAssumption
<1>2. SlashesLeft(v) = IF Exposed(v) THEN c ELSE b
  <2>1. CASE Exposed(v)
    <3>1. MaxBlocks - blocks + 1 = y + 2
      BY <1>1
    <3>2. SlashesLeft(v) = (MaxBlocks - blocks + 1) \div 2
      BY <2>1 DEF SlashesLeft
    <3> QED
      BY <2>1, <3>1, <3>2
  <2>2. CASE ~Exposed(v)
    <3>1. MaxBlocks - blocks + 0 = y + 1
      BY <1>1
    <3>2. SlashesLeft(v) = (MaxBlocks - blocks + 0) \div 2
      BY <2>2 DEF SlashesLeft
    <3> QED
      BY <2>2, <3>1, <3>2
  <2> QED
    BY <2>1, <2>2
<1>3. SlashesLeft(v)' = IF Exposed(v)' THEN b ELSE a
  <2>0. SlashesLeft(v)' = (MaxBlocks - blocks' + IF Exposed(v)' THEN 1 ELSE 0) \div 2
    BY DEF SlashesLeft
  <2>1. CASE Exposed(v)'
    <3>1. MaxBlocks - blocks' + 1 = y + 1
      BY <1>1
    <3>2. SlashesLeft(v)' = (MaxBlocks - blocks' + 1) \div 2
      BY <2>0, <2>1
    <3> QED
      BY <2>1, <3>1, <3>2
  <2>2. CASE ~Exposed(v)'
    <3>1. MaxBlocks - blocks' + 0 = y
      BY <1>1
    <3>2. SlashesLeft(v)' = (MaxBlocks - blocks' + 0) \div 2
      BY <2>0, <2>2
    <3> QED
      BY <2>2, <3>1, <3>2
  <2> QED
    BY <2>1, <2>2
<1> HIDE DEF y
<1>4. a \in Nat /\ b \in Nat /\ a <= b /\ c = a + 1 /\ b <= c
  <2>1. a \in Nat /\ b \in Nat /\ a <= b /\ c = a + 1
    BY <1>1, Halving
  <2>2. b <= c
    <3> DEFINE m == y + 1
               n == y + 2
    <3>1. m \in Nat /\ n \in Nat /\ m <= n
      BY <1>1
    <3> HIDE DEF m, n
    <3>2. m \div 2 <= n \div 2
      BY <3>1, Halving
    <3> QED
      BY <3>2 DEF m, n
  <2> QED
    BY <2>1, <2>2
<1> HIDE DEF a, b, c
<1>5. SlashesLeft(v) \in Nat /\ SlashesLeft(v)' \in Nat
  BY <1>2, <1>3, <1>4
<1>6. SlashesLeft(v)' <= SlashesLeft(v)
  BY <1>2, <1>3, <1>4
<1> QED
  BY <1>2, <1>3, <1>4, <1>5, <1>6

LEMMA DividedStake ==
  ASSUME SlashesDivide, NEW n \in Nat, n <= Most
  PROVE  MultipleOf(SelfStake, Two[n]) /\ Two[n] \in Nat
<1>1. Most \in Nat
  <2> DEFINE b == MaxBlocks
  <2>1. b \in Nat
    BY SizesAssumption
  <2> HIDE DEF b
  <2>2. (b + 1) \div 2 \in Nat
    BY <2>1, Halving
  <2> QED
    BY <2>2 DEF b, Most
<1>2. PICK c \in Nat : c > 0 /\ Two[Most] = c * Two[n]
  BY <1>1, TwoDivides
<1>3. Two[n] \in Nat /\ Two[Most] \in Nat
  BY <1>1, TwoIs
<1>4. \E e \in Nat : SelfStake = Two[Most] * e
  <2> DEFINE m == Two[Most]
  <2>1. SelfStake % m = 0 /\ SelfStake \in Nat /\ m \in Nat /\ m > 0
    <3>1. SelfStake % m = 0 /\ SelfStake \in Nat
      BY SizesAssumption DEF SlashesDivide, Most
    <3>2. m > 0
      <4>1. PICK e \in Nat : e > 0 /\ Two[Most] = e * Two[0]
        BY <1>1, TwoDivides
      <4> QED
        BY <4>1, TwoIs
    <3> QED
      BY <1>3, <3>1, <3>2
  <2> HIDE DEF m
  <2>2. SelfStake = m * (SelfStake \div m) /\ SelfStake \div m \in Nat
    BY <2>1
  <2> QED
    BY <2>2 DEF m
<1>5. PICK e \in Nat : SelfStake = Two[Most] * e
  BY <1>4
<1>6. c * e \in Nat /\ SelfStake = Two[n] * (c * e)
  <2> DEFINE x == Two[n]
             y == Two[Most]
  <2>1. x \in Nat /\ y = c * x /\ SelfStake = y * e
    BY <1>2, <1>3, <1>5
  <2> HIDE DEF x, y
  <2>2. (c * x) * e = x * (c * e) /\ c * e \in Nat
    BY <2>1
  <2> QED
    BY <2>1, <2>2 DEF x
<1> QED
  BY <1>3, <1>6 DEF MultipleOf

LEMMA GrainDown ==
  ASSUME NEW p, NEW m \in Nat, NEW n \in Nat, n <= m, GrainedAt(p, Two[m])
  PROVE  GrainedAt(p, Two[n])
<1>1. PICK c \in Nat : Two[m] = c * Two[n]
  BY TwoDivides
<1>2. Two[n] \in Nat
  BY TwoIs
<1>3. Grained(p.shares, p.tokens, p.total, Two[m])
  BY DEF GrainedAt
<1>4. Grained(p.shares, p.tokens, p.total, Two[n])
  BY <1>1, <1>2, <1>3, GrainFiner
<1> QED
  BY <1>4 DEF GrainedAt

Affected(q, p, k) ==
  \/ Rests(q, p) \/ \E d : Joins(q, p, d, k) \/ Parts(q, p, d, k)

(* Another state of a validator, after a block or in it.                   *)
LEMMA CommitAt ==
  ASSUME Inv, NEW vs \in [Validators -> ValidatorRecords], NEW index, CommitBlock(vs, index),
         NEW v \in Validators
  PROVE  /\ At(v)'.rec = dist'[v] /\ At(v)'.shares = shares'[v]
         /\ At(v)'.tokens = vs[v].tokens /\ At(v)'.total = vs[v].total
         /\ vs[v].jailed => ~Exposed(v)'
<1>1. val' = UpdateValidators(vs, index, height + 1) /\ height + 1 \in Nat
      /\ ~UpdateFails(vs, index)
  BY InvParts DEF CommitBlock
<1>2. /\ val'[v].tokens = vs[v].tokens /\ val'[v].total = vs[v].total
      /\ val'[v].jailed = vs[v].jailed /\ (val'[v].bonded <=> v \in BondedAfter(vs, index))
  BY <1>1, UpdateFacts
<1>3. vs[v].jailed => ~Exposed(v)'
  BY <1>1, <1>2 DEF UpdateFails, BondedAfter, Exposed
<1> QED
  BY <1>2, <1>3 DEF At

LEMMA BlockEffect ==
  ASSUME Inv, LedgerInv, Block, NEW z \in Validators
  PROVE  \/ Affected(At(z)', At(z), height + 1)
         \/ /\ \E keep : Slashes(At(z)', At(z), keep, height + 1)
            /\ Exposed(z) /\ ~Exposed(z)'
<1> USE InvParts
<1>a. /\ At(z).rec = dist[z] /\ At(z).shares = shares[z]
      /\ At(z).tokens = val[z].tokens /\ At(z).total = val[z].total
  BY DEF At
<1>s. \A d \in Delegators : StakesAt(At(z))[d] = Stake(z, d)
  BY <1>a DEF StakesAt, StakesOf, Stake
<1> DEFINE p == At(z)
           q == At(z)'
           Goal == \/ Affected(q, p, height + 1)
                   \/ /\ \E keep : Slashes(q, p, keep, height + 1)
                      /\ Exposed(z) /\ ~Exposed(z)'
<1>r. ASSUME q.rec = p.rec, q.shares = p.shares, q.tokens = p.tokens, q.total = p.total
      PROVE  Goal
  BY <1>r DEF Rests, Affected
<1>1. ASSUME NEW v \in Validators, BlockReward(v) PROVE Goal
  <2>1. /\ dist' = [dist EXCEPT ![v] = AllocateTokensToValidator(dist[v], Reward)]
        /\ shares' = shares /\ CommitBlock(val, powerIndex)
    BY <1>1 DEF BlockReward
  <2>2. q.rec = dist'[z] /\ q.shares = shares'[z] /\ q.tokens = val[z].tokens /\ q.total = val[z].total
    BY <2>1, CommitAt
  <2>3. dist'[z] = dist[z] \/ dist'[z] = AllocateTokensToValidator(dist[z], Reward)
    BY <2>1 DEF Records
  <2> HIDE DEF p, q
  <2>4. Rests(q, p)
    BY <1>a, <2>1, <2>2, <2>3 DEF Rests, p
  <2> QED
    BY <2>4 DEF Affected
<1>2. ASSUME NEW v \in Validators, BlockUnjail(v) PROVE Goal
  <2> DEFINE vs == [val EXCEPT ![v].jailed = FALSE]
  <2>1. dist' = dist /\ shares' = shares /\ CommitBlock(vs, powerIndex \cup {v})
    BY <1>2 DEF BlockUnjail
  <2>2. /\ vs \in [Validators -> ValidatorRecords]
        /\ vs[z].tokens = val[z].tokens /\ vs[z].total = val[z].total
    BY DEF ValidatorRecords
  <2> HIDE DEF vs
  <2>3. q.rec = dist'[z] /\ q.shares = shares'[z] /\ q.tokens = vs[z].tokens /\ q.total = vs[z].total
    BY <2>1, <2>2, CommitAt
  <2> QED
    BY <1>a, <1>r, <2>1, <2>2, <2>3
<1>3. ASSUME NEW v \in Validators, NEW keep \in {0, 1}, BlockSlash(v, keep) PROVE Goal
  <2> DEFINE t == (val[v].tokens * keep) \div 2
             vs == [val EXCEPT ![v].tokens = t, ![v].jailed = TRUE]
             x == RecordSlash(dist[v], val[v].tokens, height + 1, keep)
  <2>0. [val EXCEPT ![v].tokens = (@ * keep) \div 2, ![v].jailed = TRUE] = vs
    OBVIOUS
  <2>1. /\ CommitBlock(vs, powerIndex \ {v}) /\ shares' = shares /\ val[v].bonded
        /\ val[v].tokens > 0 /\ dist' = [dist EXCEPT ![v] = x]
    BY <1>3, <2>0 DEF BlockSlash
  <2>2. t \in Int
    <3>1. val[v].tokens \in Nat
      BY SelfIsDelegator, LedgerFacts
    <3> QED
      BY <3>1
  <2>3. t = (val[v].tokens * keep) \div 2
    OBVIOUS
  <2> HIDE DEF t
  <2>4. vs \in [Validators -> ValidatorRecords]
    BY <2>2 DEF ValidatorRecords
  <2>5. /\ vs[z].tokens = IF z = v THEN t ELSE val[z].tokens
        /\ vs[z].total = val[z].total /\ (z = v => vs[z].jailed)
    BY DEF ValidatorRecords
  <2> HIDE DEF vs
  <2>6. /\ q.rec = dist'[z] /\ q.shares = shares'[z] /\ q.tokens = vs[z].tokens
        /\ q.total = vs[z].total /\ (vs[z].jailed => ~Exposed(z)')
    BY <2>1, <2>4, CommitAt
  <2>7. x = RecordSlash(dist[v], val[v].tokens, height + 1, keep)
    OBVIOUS
  <2> HIDE DEF x
  <2>8. dist'[z] = IF z = v THEN x ELSE dist[z]
    BY <2>1 DEF Records
  <2>9. CASE z = v
    <3>1. Exposed(z) /\ ~Exposed(z)'
      BY <2>1, <2>5, <2>6, <2>9 DEF Exposed
    <3>2. /\ q.shares = shares[z] /\ q.total = val[z].total
          /\ q.tokens = (val[z].tokens * keep) \div 2
          /\ q.rec = RecordSlash(dist[z], val[z].tokens, height + 1, keep) /\ val[z].tokens > 0
      BY <2>1, <2>3, <2>5, <2>6, <2>7, <2>8, <2>9
    <3> HIDE DEF p, q
    <3>3. Slashes(q, p, keep, height + 1)
      BY <1>a, <3>2 DEF Slashes, p
    <3> QED
      BY <3>1, <3>3
  <2>10. CASE z # v
    BY <1>a, <1>r, <2>1, <2>5, <2>6, <2>8, <2>10
  <2> QED
    BY <2>9, <2>10
<1>4. ASSUME NEW v \in Validators, NEW d \in Delegators, BlockDelegate(d, v) PROVE Goal
  <2> DEFINE x == InitializeDelegation(IncrementValidatorPeriod(dist[v], val[v].tokens), d,
                                       SelfStake, height + 1)
             n == SharesFor(v)
  <2>1. /\ CommitBlock(Joined(v), powerIndex) /\ val[v].tokens > 0 /\ shares[v][d] = 0
        /\ shares' = [shares EXCEPT ![v][d] = n] /\ dist' = [dist EXCEPT ![v] = x]
    BY <1>4 DEF BlockDelegate, AddDelegation
  <2>2. n > 0 /\ n = Quo(SelfStake * val[v].total, val[v].tokens)
    BY <2>1, LedgerFacts, SizesAssumption DEF SharesFor
  <2>3. Joined(v) \in [Validators -> ValidatorRecords]
    BY JoinedLeftTypes
  <2>4. /\ Joined(v)[z].tokens = IF z = v THEN val[z].tokens + SelfStake ELSE val[z].tokens
        /\ Joined(v)[z].total = IF z = v THEN val[z].total + n ELSE val[z].total
    BY JoinedLeftFields
  <2>5. /\ q.rec = dist'[z] /\ q.shares = shares'[z] /\ q.tokens = Joined(v)[z].tokens
        /\ q.total = Joined(v)[z].total
    BY <2>1, <2>3, CommitAt
  <2>6. x = InitializeDelegation(IncrementValidatorPeriod(dist[v], val[v].tokens), d,
                                 SelfStake, height + 1)
    OBVIOUS
  <2> HIDE DEF x, n
  <2>7. /\ dist'[z] = IF z = v THEN x ELSE dist[z]
        /\ shares'[z] = IF z = v THEN [shares[z] EXCEPT ![d] = n] ELSE shares[z]
    BY <2>1 DEF Records
  <2>8. CASE z = v
    <3>1. /\ q.shares = [shares[z] EXCEPT ![d] = n] /\ q.total = val[z].total + n
          /\ q.tokens = val[z].tokens + SelfStake /\ q.rec = x
      BY <2>4, <2>5, <2>7, <2>8
    <3> HIDE DEF p, q
    <3>2. Joins(q, p, d, height + 1)
      BY <1>a, <2>1, <2>2, <2>6, <2>8, <3>1 DEF Joins, p
    <3> QED
      BY <3>2 DEF Affected
  <2>9. CASE z # v
    BY <1>a, <1>r, <2>4, <2>5, <2>7, <2>9
  <2> QED
    BY <2>8, <2>9
<1>5. ASSUME NEW v \in Validators, NEW d \in Delegators, BlockUndelegate(d, v) PROVE Goal
  <2> DEFINE x == SettleDelegation(dist[v], d, val[v].tokens, Stake(v, d), height + 1)
  <2>1. /\ CommitBlock(Left(val, d, v), powerIndex) /\ d # v /\ shares[v][d] > 0
        /\ shares' = [shares EXCEPT ![v][d] = 0] /\ dist' = [dist EXCEPT ![v] = x]
    BY <1>5 DEF BlockUndelegate, Leaves
  <2>2. val[v].total - shares[v][d] > 0
    BY <2>1, LedgerFacts
  <2>3. Left(val, d, v) \in [Validators -> ValidatorRecords]
    BY JoinedLeftTypes
  <2>4. /\ Left(val, d, v)[z].tokens
             = IF z = v THEN val[z].tokens - Stake(v, d) ELSE val[z].tokens
        /\ Left(val, d, v)[z].total
             = IF z = v THEN val[z].total - shares[v][d] ELSE val[z].total
    BY JoinedLeftFields
  <2>5. /\ q.rec = dist'[z] /\ q.shares = shares'[z] /\ q.tokens = Left(val, d, v)[z].tokens
        /\ q.total = Left(val, d, v)[z].total
    BY <2>1, <2>3, CommitAt
  <2>6. x = SettleDelegation(dist[v], d, val[v].tokens, Stake(v, d), height + 1)
    OBVIOUS
  <2> HIDE DEF x
  <2>7. /\ dist'[z] = IF z = v THEN x ELSE dist[z]
        /\ shares'[z] = IF z = v THEN [shares[z] EXCEPT ![d] = 0] ELSE shares[z]
    BY <2>1 DEF Records
  <2>8. CASE z = v
    <3>1. /\ q.shares = [shares[z] EXCEPT ![d] = 0] /\ q.total = val[z].total - shares[z][d]
          /\ q.tokens = val[z].tokens - StakesAt(p)[d]
          /\ q.rec = SettleDelegation(dist[z], d, val[z].tokens, StakesAt(p)[d], height + 1)
      BY <1>s, <2>4, <2>5, <2>6, <2>7, <2>8
    <3> HIDE DEF p, q
    <3>2. Parts(q, p, d, height + 1)
      BY <1>a, <2>1, <2>2, <2>8, <3>1 DEF Parts, p
    <3> QED
      BY <3>2 DEF Affected
  <2>9. CASE z # v
    BY <1>a, <1>r, <2>4, <2>5, <2>7, <2>9
  <2> QED
    BY <2>8, <2>9
<1>6. ASSUME NEW v \in Validators, NEW w \in Validators, NEW d \in Delegators,
             BlockRedelegate(d, v, w)
      PROVE  Goal
  <2> DEFINE vs == Left(Joined(w), d, v)
             x == SettleDelegation(dist[v], d, val[v].tokens, Stake(v, d), height + 1)
             y == InitializeDelegation(IncrementValidatorPeriod(dist[w], val[w].tokens), d,
                                       SelfStake, height + 1)
  <2>1. /\ CommitBlock(vs, powerIndex) /\ d # v /\ v # w /\ shares[v][d] > 0
        /\ shares[w][d] = 0 /\ val[w].tokens = val[w].total
        /\ shares' = [shares EXCEPT ![v][d] = 0, ![w][d] = SelfStake]
    BY <1>6 DEF BlockRedelegate, Leaves
  <2>2. dist' = [dist EXCEPT ![v] = x, ![w] = y]
    BY <1>6, <2>1 DEF BlockRedelegate, Records
  <2>3. /\ val[v].total - shares[v][d] > 0
        /\ val[w].total \in Nat \ {0} /\ SharesFor(w) = SelfStake /\ SelfStake \in Nat \ {0}
    BY <2>1, LedgerFacts, SizesAssumption
  <2>4. vs \in [Validators -> ValidatorRecords] /\ Joined(w) \in [Validators -> ValidatorRecords]
    BY JoinedLeftTypes
  <2>5. /\ Joined(w)[z].tokens = IF z = w THEN val[z].tokens + SelfStake ELSE val[z].tokens
        /\ Joined(w)[z].total = IF z = w THEN val[z].total + SelfStake ELSE val[z].total
    BY <2>3, JoinedLeftFields
  <2>6. /\ vs[z].tokens = IF z = v THEN Joined(w)[z].tokens - Stake(v, d) ELSE Joined(w)[z].tokens
        /\ vs[z].total = IF z = v THEN Joined(w)[z].total - shares[v][d] ELSE Joined(w)[z].total
    BY <2>4, JoinedLeftFields
  <2> HIDE DEF vs
  <2>7. /\ q.rec = dist'[z] /\ q.shares = shares'[z] /\ q.tokens = vs[z].tokens
        /\ q.total = vs[z].total
    BY <2>1, <2>4, CommitAt
  <2>8. /\ x = SettleDelegation(dist[v], d, val[v].tokens, Stake(v, d), height + 1)
        /\ y = InitializeDelegation(IncrementValidatorPeriod(dist[w], val[w].tokens), d,
                                    SelfStake, height + 1)
    OBVIOUS
  <2> HIDE DEF x, y
  <2>9. /\ dist'[z] = IF z = v THEN x ELSE IF z = w THEN y ELSE dist[z]
        /\ shares'[z] = IF z = v THEN [shares[z] EXCEPT ![d] = 0]
                        ELSE IF z = w THEN [shares[z] EXCEPT ![d] = SelfStake] ELSE shares[z]
    BY <2>1, <2>2 DEF Records
  <2>10. CASE z = v
    <3>1. /\ q.shares = [shares[z] EXCEPT ![d] = 0] /\ q.total = val[z].total - shares[z][d]
          /\ q.tokens = val[z].tokens - StakesAt(p)[d]
          /\ q.rec = SettleDelegation(dist[z], d, val[z].tokens, StakesAt(p)[d], height + 1)
      BY <1>s, <2>1, <2>5, <2>6, <2>7, <2>8, <2>9, <2>10
    <3> HIDE DEF p, q
    <3>2. Parts(q, p, d, height + 1)
      BY <1>a, <2>1, <2>3, <2>10, <3>1 DEF Parts, p
    <3> QED
      BY <3>2 DEF Affected
  <2>11. CASE z = w
    <3>1. /\ q.shares = [shares[z] EXCEPT ![d] = SelfStake] /\ q.total = val[z].total + SelfStake
          /\ q.tokens = val[z].tokens + SelfStake /\ q.rec = y
      BY <2>1, <2>5, <2>6, <2>7, <2>9, <2>11
    <3>2. SelfStake = Quo(SelfStake * val[z].total, val[z].tokens) /\ val[z].tokens > 0
      BY <2>1, <2>3, <2>11 DEF SharesFor
    <3> HIDE DEF p, q
    <3>3. /\ p.shares = shares[z] /\ p.tokens = val[z].tokens /\ p.total = val[z].total
          /\ p.rec = dist[z]
      BY <1>a DEF p
    <3>4. \E n : /\ n = Quo(SelfStake * p.total, p.tokens) /\ n > 0
                 /\ q.shares = [p.shares EXCEPT ![d] = n] /\ q.total = p.total + n
      <4>1. SelfStake > 0
        BY <2>3
      <4>2. SelfStake = Quo(SelfStake * p.total, p.tokens)
        BY <3>2, <3>3
      <4>3. q.shares = [p.shares EXCEPT ![d] = SelfStake] /\ q.total = p.total + SelfStake
        BY <3>1, <3>3
      <4> QED
        BY <4>1, <4>2, <4>3
    <3>5. Joins(q, p, d, height + 1)
      <4>1. /\ d \in Delegators /\ p.shares[d] = 0 /\ p.tokens > 0
            /\ q.tokens = p.tokens + SelfStake
        BY <2>1, <2>11, <3>1, <3>2, <3>3
      <4>2. q.rec = InitializeDelegation(IncrementValidatorPeriod(p.rec, p.tokens), d,
                                         SelfStake, height + 1)
        BY <2>8, <2>11, <3>1, <3>3
      <4> QED
        BY <3>4, <4>1, <4>2 DEF Joins
    <3> QED
      BY <3>5 DEF Affected
  <2>12. CASE z # v /\ z # w
    BY <1>a, <1>r, <2>5, <2>6, <2>7, <2>9, <2>12
  <2> QED
    BY <2>10, <2>11, <2>12
<1> QED
  BY <1>1, <1>2, <1>3, <1>4, <1>5, <1>6 DEF Block

(***************************************************************************)
(* Solvent records, through the blocks                                     *)
(***************************************************************************)

(* The tokens behind the delegations of validator v.                       *)
Weights(v) == StakesOf(shares[v], val[v].tokens, val[v].total)
SolventFor(v, D, h) == Solvent(dist[v], D, h, Weights(v))
SolventNow == \A v \in Validators : SolventFor(v, Holders(v), height)

(* What the records can pay, phase by phase.                               *)
SolvInv ==
  /\ \A v \in Validators : Safe(dist[v]) /\ dist[v].outstanding >= 0
  /\ phase \in {"chain", "commission", "rewards"} \/ AtHeight => SolventNow
  /\ phase = "validators" => \A v \in Validators \ todo : SolventFor(v, {}, 0)
  /\ phase = "delegations" =>
       \A v \in Validators : SolventFor(v, {d \in Holders(v) : <<d, v>> \notin todo}, 0)
  /\ phase \in {"jail", "signing"} \/ AtZero =>
       \A v \in Validators : SolventFor(v, Holders(v), 0)

LEMMA AtFields ==
  ASSUME NEW v
  PROVE  /\ At(v).rec = dist[v] /\ At(v).shares = shares[v]
         /\ At(v).tokens = val[v].tokens /\ At(v).total = val[v].total
         /\ HoldersOf(At(v).shares) = Holders(v) /\ StakesAt(At(v)) = Weights(v)
         /\ \A h : SolventAt(At(v), h) <=> SolventFor(v, Holders(v), h)
<1>1. /\ At(v).rec = dist[v] /\ At(v).shares = shares[v]
      /\ At(v).tokens = val[v].tokens /\ At(v).total = val[v].total
  BY DEF At
<1>2. HoldersOf(At(v).shares) = Holders(v) /\ StakesAt(At(v)) = Weights(v)
  BY <1>1 DEF HoldersOf, Holders, StakesAt, Weights
<1>3. \A h : SolventAt(At(v), h) <=> SolventFor(v, Holders(v), h)
  BY <1>1, <1>2 DEF SolventAt, SolventFor
<1> QED
  BY <1>1, <1>2, <1>3

LEMMA LedgerTypes ==
  ASSUME Inv, LedgerInv, NEW v \in Validators
  PROVE  /\ Sound(dist[v]) /\ shares[v] \in [Delegators -> Int] /\ val[v].tokens \in Nat
         /\ val[v].total \in Nat /\ val[v].total > 0 /\ SumsTo(shares[v], val[v].total)
<1>1. Sound(dist[v]) /\ shares[v] \in [Delegators -> Int]
  BY InvParts DEF Records
<1>2. val[v].total \in Nat \ {0} /\ val[v].tokens \in 0 .. val[v].total
  BY SelfIsDelegator, LedgerFacts
<1>3. SumsTo(shares[v], val[v].total)
  BY DEF LedgerInv, Ledger
<1> QED
  BY <1>1, <1>2, <1>3

LEMMA AtSized ==
  ASSUME Inv, LedgerInv, NEW v \in Validators, Tracks(dist[v], Holders(v), height)
  PROVE  Sized(At(v), height)
<1>1. /\ Sound(dist[v]) /\ shares[v] \in [Delegators -> Int] /\ val[v].tokens \in Nat
      /\ val[v].total \in Nat /\ val[v].total > 0 /\ SumsTo(shares[v], val[v].total)
      /\ height \in Nat
  BY LedgerTypes, InvParts
<1> QED
  BY <1>1, AtFields DEF Sized

LEMMA WeightsCovered ==
  ASSUME Inv, LedgerInv, GrainInv, NEW v \in Validators
  PROVE  /\ Weights(v) \in Stakes /\ val[v].tokens \in Nat /\ Covered(Weights(v), val[v].tokens)
         /\ \A d \in Delegators : Weights(v)[d] = Stake(v, d)
<1> DEFINE sh == shares[v]
           t == val[v].tokens
           T == val[v].total
           M == Two[SlashesLeft(v)]
<1>1. sh \in [Delegators -> Int] /\ t \in Nat /\ T \in Nat /\ T > 0 /\ SumsTo(sh, T)
  BY LedgerTypes
<1>2. SlashesLeft(v) \in Nat
  BY SlashesLeftNat, InvParts DEF GrainInv, Inv, TypeOK
<1>3. M \in Nat
  BY <1>2, TwoIs
<1>4. Grained(sh, t, T, M)
  <2>1. GrainedAt(At(v), M)
    BY DEF GrainInv
  <2> HIDE DEF M
  <2> QED
    BY <2>1, AtFields DEF GrainedAt
<1>5. Weights(v) = StakesOf(sh, t, T)
  BY DEF Weights
<1>6. \A d \in Delegators : Weights(v)[d] = Stake(v, d)
  BY DEF Weights, StakesOf, Stake
<1> HIDE DEF sh, T, M
<1>7. StakesOf(sh, t, T) \in Stakes /\ Covered(StakesOf(sh, t, T), t)
  BY <1>1, <1>3, <1>4, GrainCovered
<1> QED
  BY <1>1, <1>5, <1>6, <1>7

LEMMA BackedBook ==
  ASSUME Inv, LedgerInv, GrainInv, NEW v \in Validators, NEW D, NEW h,
         Book(dist[v], D, h), SolventFor(v, D, h)
  PROVE  Backed(dist[v], D, h, Weights(v), val[v].tokens)
BY WeightsCovered DEF SolventFor, Backed

LEMMA RecordedBook ==
  ASSUME Inv, RecInv, NEW v \in Validators, phase \in {"chain", "commission", "rewards"} \/ AtHeight
  PROVE  Book(dist[v], Holders(v), height)
<1>1. Tracks(dist[v], Holders(v), height)
  BY DEF RecInv, Recorded
<1>2. Sound(dist[v]) /\ height \in Nat
  BY InvParts DEF Records
<1> QED
  BY <1>1, <1>2, TrackedBook

(* Solvent records owe nothing that they do not hold.                      *)
LEMMA SolventSafe ==
  ASSUME NEW r, NEW D, NEW h, NEW K, Book(r, D, h), Solvent(r, D, h, K)
  PROVE  Safe(r) /\ r.outstanding >= 0
BY SolventOwes DEF Solvent

LEMMA AffectedHealthy ==
  ASSUME SlashesDivide, NEW p, NEW h, Sized(p, h), SolventAt(p, h), NEW k \in Nat, h <= k,
         NEW m \in Nat, NEW n \in Nat, n <= m, m <= Most, GrainedAt(p, Two[m]),
         NEW q, Affected(q, p, k)
  PROVE  SolventAt(q, k) /\ GrainedAt(q, Two[n])
<1> DEFINE M == Two[n]
<1>1. Most \in Nat
  <2> DEFINE b == MaxBlocks
  <2>1. b \in Nat
    BY SizesAssumption
  <2> HIDE DEF b
  <2>2. (b + 1) \div 2 \in Nat
    BY <2>1, Halving
  <2> QED
    BY <2>2 DEF b, Most
<1>2. n <= Most
  BY <1>1
<1>3. MultipleOf(SelfStake, M) /\ M \in Nat
  BY <1>2, DividedStake
<1>4. GrainedAt(p, M)
  BY GrainDown
<1> HIDE DEF M
<1>5. CASE Rests(q, p)
  BY <1>3, <1>4, <1>5, RestHealthy DEF M
<1>6. ASSUME NEW d, Joins(q, p, d, k) PROVE SolventAt(q, k) /\ GrainedAt(q, M)
  BY <1>3, <1>4, <1>6, JoinHealthy
<1>7. ASSUME NEW d, Parts(q, p, d, k) PROVE SolventAt(q, k) /\ GrainedAt(q, M)
  BY <1>3, <1>4, <1>7, PartHealthy
<1> QED
  BY <1>5, <1>6, <1>7 DEF Affected, M

LEMMA SlashedHealthy ==
  ASSUME NEW p, NEW h, Sized(p, h), SolventAt(p, h), NEW k \in Nat, h <= k,
         NEW n \in Nat, GrainedAt(p, Two[n + 1]), NEW q, NEW keep, Slashes(q, p, keep, k)
  PROVE  SolventAt(q, k) /\ GrainedAt(q, Two[n])
<1> DEFINE M == Two[n]
<1>1. M \in Nat /\ Two[n + 1] = 2 * M
  BY TwoIs
<1>2. GrainedAt(p, 2 * M)
  BY <1>1
<1> HIDE DEF M
<1>3. SolventAt(q, k) /\ GrainedAt(q, M)
  BY <1>1, <1>2, SlashHealthy
<1> QED
  BY <1>3 DEF M

LEMMA BlockSolvent ==
  ASSUME SlashesDivide, Inv, LedgerInv, RecInv, GrainInv, SolvInv, Block
  PROVE  GrainInv' /\ SolvInv'
<1> USE InvParts
<1>1. /\ phase = "chain" /\ phase' = "chain" /\ height' = height + 1
      /\ blocks < MaxBlocks /\ blocks' = blocks + 1
  BY BlockFrame DEF NextBlock
<1>2. height \in Nat /\ height + 1 \in Nat /\ height <= height + 1 /\ blocks \in Nat
      /\ blocks <= MaxBlocks /\ blocks' <= MaxBlocks
  BY <1>1, SizesAssumption DEF Inv, TypeOK
<1>3. ASSUME NEW v \in Validators
      PROVE  SolventAt(At(v)', height + 1) /\ GrainedAt(At(v)', Two[SlashesLeft(v)'])
  <2> DEFINE p == At(v)
             q == At(v)'
             m == SlashesLeft(v)
             n == SlashesLeft(v)'
             k == height + 1
  <2>1. Tracks(dist[v], Holders(v), height)
    BY <1>1 DEF RecInv, Recorded
  <2>2. Sized(p, height)
    BY <2>1, AtSized
  <2>3. SolventAt(p, height)
    BY <1>1, AtFields DEF SolvInv, SolventNow
  <2>4. GrainedAt(p, Two[m])
    BY DEF GrainInv
  <2>5. m \in Nat /\ n \in Nat /\ n <= m /\ (Exposed(v) /\ ~Exposed(v)' => m = n + 1)
    BY <1>1, <1>2, BlockCounts
  <2>6. m <= Most
    BY <1>2, SlashesLeftNat
  <2>7. \/ Affected(q, p, k)
        \/ (\E keep : Slashes(q, p, keep, k)) /\ Exposed(v) /\ ~Exposed(v)'
    BY BlockEffect
  <2>8. k \in Nat /\ height <= k
    BY <1>2
  <2> HIDE DEF p, q, m, n, k
  <2>9. CASE Affected(q, p, k)
    <3>1. SolventAt(q, k) /\ GrainedAt(q, Two[n])
      BY <2>2, <2>3, <2>4, <2>5, <2>6, <2>8, <2>9, AffectedHealthy
    <3> QED
      BY <3>1 DEF q, k, n
  <2>10. CASE (\E keep : Slashes(q, p, keep, k)) /\ Exposed(v) /\ ~Exposed(v)'
    <3>1. PICK keep : Slashes(q, p, keep, k)
      BY <2>10
    <3>2. GrainedAt(p, Two[n + 1])
      BY <2>4, <2>5, <2>10
    <3>3. SolventAt(q, k) /\ GrainedAt(q, Two[n])
      BY <2>2, <2>3, <2>5, <2>8, <3>1, <3>2, SlashedHealthy
    <3> QED
      BY <3>3 DEF q, k, n
  <2> QED
    BY <2>7, <2>9, <2>10
<1>4. GrainInv'
  BY <1>2, <1>3 DEF GrainInv
<1>5. Inv' /\ RecInv'
  BY BlockInv, BlockTracks
<1>6. ASSUME NEW v \in Validators
      PROVE  SolventFor(v, Holders(v), height)' /\ Safe(dist'[v]) /\ dist'[v].outstanding >= 0
  <2>1. SolventAt(At(v)', height')
    BY <1>1, <1>3
  <2>2. At(v)'.rec = dist'[v] /\ HoldersOf(At(v)'.shares) = Holders(v)'
        /\ StakesAt(At(v)') = Weights(v)'
    BY DEF At, HoldersOf, Holders, StakesAt, Weights
  <2>3. Solvent(dist'[v], Holders(v)', height', Weights(v)')
    BY <2>1, <2>2 DEF SolventAt
  <2>4. Tracks(dist'[v], Holders(v)', height')
    BY <1>1, <1>5 DEF RecInv, Recorded
  <2>5. Sound(dist'[v])
    BY <1>5 DEF Inv, TypeOK, RewardsAccounted, Sound, Accounted
  <2>6. height' \in Nat
    BY <1>1, <1>2
  <2>7. Book(dist'[v], Holders(v)', height')
    BY <2>4, <2>5, <2>6, TrackedBook
  <2>8. Safe(dist'[v]) /\ dist'[v].outstanding >= 0
    BY <2>3, <2>7, SolventSafe
  <2> QED
    BY <2>3, <2>8 DEF SolventFor
<1>7. SolvInv'
  <2>1. SolventNow'
    BY <1>6 DEF SolventNow
  <2> HIDE DEF SolventNow, SolventFor, Holders
  <2> QED
    BY <1>1, <1>6, <2>1 DEF SolvInv, AtHeight, AtZero
<1> QED
  BY <1>4, <1>7

(***************************************************************************)
(* Solvent records, through the export and the import                      *)
(***************************************************************************)

OtherStep ==
  \/ Export \/ Import \/ ExportAtHeight
  \/ \E addrs \in SUBSET Addresses : BeginZeroHeight(addrs)
  \/ UNCHANGED vars

LEMMA OtherKeeps ==
  ASSUME Inv, OtherStep
  PROVE  /\ shares' = shares
         /\ \A v \in Validators : /\ val'[v].tokens = val[v].tokens
                                  /\ val'[v].total = val[v].total
                                  /\ Weights(v)' = Weights(v) /\ Holders(v)' = Holders(v)
                                  /\ \A d \in Delegators : Stake(v, d)' = Stake(v, d)
<1>1. /\ shares' = shares
      /\ \A v \in Validators : val'[v].tokens = val[v].tokens /\ val'[v].total = val[v].total
  BY ExportKeepsStakes DEF OtherStep
<1> QED
  BY <1>1 DEF Weights, Holders, Stake

LEMMA OtherExposes ==
  ASSUME Inv, OtherStep, NEW v \in Validators, Exposed(v)'
  PROVE  Exposed(v)
<1> USE InvParts
<1>1. CASE ResetValidator
  <2>1. PICK w \in todo : val' = [val EXCEPT ![w] = Reset(w)]
    BY <1>1 DEF ResetValidator
  <2>2. w \in Validators
    BY <1>1, <2>1 DEF ResetValidator, Inv, TypeOK
  <2>3. Reset(w).bonded = val[w].bonded /\ (val[w].jailed => Reset(w).jailed)
    <3> DEFINE j == val[w].jailed \/ (allowed # {} /\ w \notin allowed)
    <3>1. Reset(w) = [val[w] EXCEPT !.unbondingHeight = 0, !.jailed = j]
      BY <2>2 DEF Reset, ValidatorRecords
    <3>2. val[w].jailed => j
      OBVIOUS
    <3> HIDE DEF j
    <3>3. Reset(w).bonded = val[w].bonded /\ Reset(w).jailed = j
      BY <2>2, <3>1 DEF ValidatorRecords
    <3> QED
      BY <3>2, <3>3
  <2>4. val'[v] = IF v = w THEN Reset(w) ELSE val[v]
    BY <2>1, <2>2
  <2> QED
    BY <2>3, <2>4 DEF Exposed
<1>2. CASE ApplyUpdates
  <2>1. CASE UpdateFails(val, powerIndex)
    BY <1>2, <2>1 DEF ApplyUpdates, Exposed
  <2>2. CASE ~UpdateFails(val, powerIndex)
    <3>1. val' = UpdateValidators(val, powerIndex, ctxHeight)
      BY <1>2, <2>2 DEF ApplyUpdates
    <3>2. /\ val'[v].jailed = val[v].jailed
          /\ val'[v].bonded <=> v \in BondedAfter(val, powerIndex)
      BY <3>1, UpdateFacts
    <3>3. v \in BondedAfter(val, powerIndex) => ~val[v].jailed
      BY <2>2 DEF UpdateFails, BondedAfter
    <3> QED
      BY <3>2, <3>3 DEF Exposed
  <2> QED
    BY <2>1, <2>2
<1>3. CASE ~ResetValidator /\ ~ApplyUpdates
  <2>1. val' = val
    BY <1>3 DEF OtherStep, Export, Import, ExportAtHeight, BeginZeroHeight, vars, staking,
       WithdrawCommission, ListDelegations, ListDelegationsWith, WithdrawRewards, ClearRecords,
       ClearRecordsTo, ReinitializeValidator, BeginDelegations, ReinitializeDelegation,
       ResetEntries, CloseFails, ResetSigning
  <2> QED
    BY <2>1 DEF Exposed
<1> QED
  BY <1>1, <1>2, <1>3

LEMMA OtherGrain == Inv /\ GrainInv /\ OtherStep => GrainInv'
<1> SUFFICES ASSUME Inv, GrainInv, OtherStep PROVE GrainInv'
  OBVIOUS
<1>1. blocks' = blocks /\ blocks \in Nat /\ blocks <= MaxBlocks
  BY DEF OtherStep, Export, Import, ExportAtHeight, BeginZeroHeight, vars, counters,
     WithdrawCommission, ListDelegations, ListDelegationsWith, WithdrawRewards, ClearRecords,
     ClearRecordsTo, ReinitializeValidator, BeginDelegations, ReinitializeDelegation,
     ResetEntries, ResetValidator, ApplyUpdates, CloseFails, ResetSigning, GrainInv, Inv, TypeOK
<1>2. ASSUME NEW v \in Validators PROVE GrainedAt(At(v), Two[SlashesLeft(v)])'
  <2>1. SlashesLeft(v) \in Nat /\ SlashesLeft(v)' \in Nat /\ SlashesLeft(v)' <= SlashesLeft(v)
    <3> DEFINE x == MaxBlocks - blocks
    <3>1. x \in Nat /\ MaxBlocks - blocks' = x
      BY <1>1, SizesAssumption
    <3>2. SlashesLeft(v) = (x + IF Exposed(v) THEN 1 ELSE 0) \div 2
      BY DEF SlashesLeft
    <3>3. SlashesLeft(v)' = (x + IF Exposed(v)' THEN 1 ELSE 0) \div 2
      BY <3>1 DEF SlashesLeft
    <3>4. Exposed(v)' => Exposed(v)
      BY OtherExposes
    <3> HIDE DEF x
    <3>5. /\ x \div 2 \in Nat /\ (x + 1) \div 2 \in Nat /\ x \div 2 <= (x + 1) \div 2 /\ x + 0 = x
      BY <3>1, Halving
    <3>6. SlashesLeft(v) = IF Exposed(v) THEN (x + 1) \div 2 ELSE x \div 2
      BY <3>2, <3>5
    <3>7. SlashesLeft(v)' = IF Exposed(v)' THEN (x + 1) \div 2 ELSE x \div 2
      BY <3>3, <3>5
    <3> QED
      BY <3>4, <3>5, <3>6, <3>7
  <2>2. GrainedAt(At(v), Two[SlashesLeft(v)])
    BY DEF GrainInv
  <2> DEFINE m == SlashesLeft(v)
             n == SlashesLeft(v)'
             p == At(v)
             q == At(v)'
  <2>3. p.shares = q.shares /\ p.tokens = q.tokens /\ p.total = q.total
    BY OtherKeeps DEF At
  <2> HIDE DEF m, n, p, q
  <2>4. GrainedAt(p, Two[n])
    BY <2>1, <2>2, GrainDown DEF m, n, p
  <2>5. GrainedAt(q, Two[n])
    BY <2>3, <2>4 DEF GrainedAt
  <2> QED
    BY <2>5 DEF q, n
<1> QED
  BY <1>1, <1>2 DEF GrainInv

(* A step of the export that writes no distribution record.                *)
LEMMA SameSolvent ==
  ASSUME Inv, OtherStep, NEW v \in Validators, dist'[v] = dist[v], NEW D, NEW h, SolventFor(v, D, h)
  PROVE  Solvent(dist'[v], D, h, Weights(v)')
<1>1. Weights(v)' = Weights(v)
  BY OtherKeeps
<1> QED
  BY <1>1 DEF SolventFor

LEMMA ExportSolvent ==
  ASSUME Inv, LedgerInv, BondInv, RecInv, GrainInv, SolvInv, Export
  PROVE  SolvInv'
<1> USE InvParts
<1> USE DEF control, counters, staking
<1>o. OtherStep
  BY DEF OtherStep
<1>k. \A v \in Validators : /\ Weights(v)' = Weights(v) /\ Holders(v)' = Holders(v)
                            /\ \A d \in Delegators : Stake(v, d)' = Stake(v, d)
  BY <1>o, OtherKeeps
<1>e. Delegations' = Delegations
  BY <1>o, OtherKeeps DEF Delegations
<1>n. height \in Nat /\ height' = height
  BY DEF Export, WithdrawCommission, ListDelegations, ListDelegationsWith, WithdrawRewards,
     ClearRecords, ClearRecordsTo, ReinitializeValidator, BeginDelegations,
     ReinitializeDelegation, ResetEntries, ResetValidator, CloseFails, ApplyUpdates, ResetSigning
<1>0. \A v \in Validators : /\ Sound(dist[v]) /\ val[v].tokens \in Int
                            /\ Safe(dist[v]) /\ dist[v].outstanding >= 0
  BY DEF Records, ValidatorRecords, SolvInv
<1>1. CASE WithdrawCommission
  <2>1. /\ phase = "commission" /\ phase' = phase
        /\ \E v \in todo : dist' = [dist EXCEPT ![v] = WithdrawValidatorCommission(dist[v])]
    BY <1>1 DEF WithdrawCommission
  <2>2. PICK v \in todo : dist' = [dist EXCEPT ![v] = WithdrawValidatorCommission(dist[v])]
    BY <2>1
  <2> DEFINE x == WithdrawValidatorCommission(dist[v])
  <2>3. v \in Validators
    BY <2>1 DEF Inv, TypeOK
  <2>4. \A u \in Validators : SolventFor(u, Holders(u), height)
    BY <2>1 DEF SolvInv, SolventNow
  <2>5. Book(dist[v], Holders(v), height) /\ Solvent(dist[v], Holders(v), height, Weights(v))
    BY <2>1, <2>3, <2>4, RecordedBook DEF SolventFor
  <2>6. Book(x, Holders(v), height) /\ Solvent(x, Holders(v), height, Weights(v))
    BY <2>5, CommissionSolvent
  <2> HIDE DEF x
  <2>7. Safe(x) /\ x.outstanding >= 0
    BY <2>6, SolventSafe
  <2>8. \A u \in Validators : dist'[u] = IF u = v THEN x ELSE dist[u]
    BY <2>2, <2>3 DEF Records, x
  <2>9. ASSUME NEW u \in Validators
        PROVE  SolventFor(u, Holders(u), height)' /\ Safe(dist'[u]) /\ dist'[u].outstanding >= 0
    <3>1. CASE u = v
      BY <1>k, <1>n, <2>6, <2>7, <2>8, <3>1 DEF SolventFor
    <3>2. CASE u # v
      BY <1>0, <1>k, <1>n, <2>4, <2>8, <3>2 DEF SolventFor
    <3> QED
      BY <3>1, <3>2
  <2>10. SolventNow'
    BY <2>9 DEF SolventNow
  <2> HIDE DEF SolventNow, SolventFor, Holders
  <2> QED
    BY <2>1, <2>9, <2>10 DEF SolvInv, AtHeight, AtZero
<1>2. CASE ListDelegations
  <2>1. phase = "commission" /\ phase' = "rewards" /\ dist' = dist
    BY <1>2 DEF ListDelegations, ListDelegationsWith
  <2>2. SolventNow'
    BY <1>k, <1>n, <2>1 DEF SolvInv, SolventNow, SolventFor
  <2>3. \A u \in Validators : Safe(dist'[u]) /\ dist'[u].outstanding >= 0
    BY <1>0, <2>1
  <2> HIDE DEF SolventNow, SolventFor, Holders
  <2> QED
    BY <2>1, <2>2, <2>3 DEF SolvInv, AtHeight, AtZero
<1>3. CASE WithdrawRewards
  <2>1. /\ phase = "rewards" /\ phase' = phase
        /\ \E d \in Delegators, v \in Validators :
             /\ <<d, v>> \in todo
             /\ dist' = [dist EXCEPT ![v] =
                  WithdrawDelegationRewards(dist[v], d, val[v].tokens, Stake(v, d), ctxHeight)]
    BY <1>3 DEF WithdrawRewards
  <2>2. PICK d \in Delegators, v \in Validators :
             /\ <<d, v>> \in todo
             /\ dist' = [dist EXCEPT ![v] =
                  WithdrawDelegationRewards(dist[v], d, val[v].tokens, Stake(v, d), ctxHeight)]
    BY <2>1
  <2> DEFINE x == WithdrawDelegationRewards(dist[v], d, val[v].tokens, Stake(v, d), ctxHeight)
  <2>3. ctxHeight = height /\ todo \subseteq Delegations
    BY <2>1 DEF BondInv, ContextInv, RecInv
  <2>4. d \in Holders(v)
    BY <2>2, <2>3 DEF Delegations, Holders
  <2>5. \A u \in Validators : SolventFor(u, Holders(u), height)
    BY <2>1 DEF SolvInv, SolventNow
  <2>6. Book(dist[v], Holders(v), height)
    BY <2>1, RecordedBook
  <2>7. Backed(dist[v], Holders(v), height, Weights(v), val[v].tokens)
    BY <2>5, <2>6, BackedBook
  <2>8. x = WithdrawDelegationRewards(dist[v], d, val[v].tokens, Stake(v, d), height)
        /\ Stake(v, d) = Weights(v)[d]
    BY <2>3, WeightsCovered
  <2> HIDE DEF x
  <2>9. Backed(x, Holders(v), height, Weights(v), val[v].tokens)
    BY <2>4, <2>7, <2>8, WithdrawSolvent
  <2>10. Book(x, Holders(v), height) /\ Solvent(x, Holders(v), height, Weights(v))
    BY <2>9 DEF Backed
  <2>11. Safe(x) /\ x.outstanding >= 0
    BY <2>10, SolventSafe
  <2>12. \A u \in Validators : dist'[u] = IF u = v THEN x ELSE dist[u]
    BY <2>2 DEF Records, x
  <2>13. ASSUME NEW u \in Validators
         PROVE  SolventFor(u, Holders(u), height)' /\ Safe(dist'[u]) /\ dist'[u].outstanding >= 0
    <3>1. CASE u = v
      BY <1>k, <1>n, <2>10, <2>11, <2>12, <3>1 DEF SolventFor
    <3>2. CASE u # v
      BY <1>0, <1>k, <1>n, <2>5, <2>12, <3>2 DEF SolventFor
    <3> QED
      BY <3>1, <3>2
  <2>14. SolventNow'
    BY <2>13 DEF SolventNow
  <2> HIDE DEF SolventNow, SolventFor, Holders
  <2> QED
    BY <2>1, <2>13, <2>14 DEF SolvInv, AtHeight, AtZero
<1>4. CASE ClearRecords
  <2>1. /\ phase' = "validators" /\ todo' = Validators
        /\ dist' = [v \in Validators |-> Cleared(dist[v])]
    BY <1>4 DEF ClearRecords, ClearRecordsTo
  <2>2. ASSUME NEW u \in Validators PROVE Safe(dist'[u]) /\ dist'[u].outstanding >= 0
    <3>1. Safe(Cleared(dist[u])) /\ Cleared(dist[u]).outstanding = dist[u].outstanding
      BY <1>0, ClearedSafe
    <3> QED
      BY <1>0, <2>1, <3>1
  <2> HIDE DEF SolventNow, SolventFor, Holders
  <2> QED
    BY <2>1, <2>2 DEF SolvInv, AtHeight, AtZero
<1>5. CASE ReinitializeValidator
  <2>1. /\ phase = "validators" /\ phase' = phase
        /\ \E v \in todo : /\ dist' = [dist EXCEPT ![v] = Reinitialized(dist[v])]
                           /\ todo' = todo \ {v}
    BY <1>5 DEF ReinitializeValidator
  <2>2. PICK v \in todo : /\ dist' = [dist EXCEPT ![v] = Reinitialized(dist[v])]
                          /\ todo' = todo \ {v}
    BY <2>1
  <2> DEFINE x == Reinitialized(dist[v])
  <2>3. v \in Validators
    BY <2>1 DEF Inv, TypeOK
  <2>4. dist[v].slashes = {} /\ DOMAIN dist[v].historical = {}
    BY <2>1 DEF RecInv
  <2>5. Book(x, {}, 0) /\ Solvent(x, {}, 0, Weights(v))
    BY <1>0, <2>3, <2>4, AfreshSolvent
  <2> HIDE DEF x
  <2>6. Safe(x) /\ x.outstanding >= 0
    BY <2>5, SolventSafe
  <2>7. \A u \in Validators : dist'[u] = IF u = v THEN x ELSE dist[u]
    BY <2>2, <2>3 DEF Records, x
  <2>8. \A u \in Validators : Safe(dist'[u]) /\ dist'[u].outstanding >= 0
    BY <1>0, <2>6, <2>7
  <2>9. ASSUME NEW u \in Validators \ todo' PROVE SolventFor(u, {}, 0)'
    <3>1. CASE u = v
      BY <1>k, <2>5, <2>7, <3>1 DEF SolventFor
    <3>2. CASE u # v
      <4>1. u \in Validators \ todo
        BY <2>2, <3>2
      <4>2. SolventFor(u, {}, 0)
        BY <2>1, <4>1 DEF SolvInv
      <4> QED
        BY <1>k, <2>7, <3>2, <4>2 DEF SolventFor
    <3> QED
      BY <3>1, <3>2
  <2> HIDE DEF SolventNow, SolventFor, Holders
  <2> QED
    BY <2>1, <2>8, <2>9 DEF SolvInv, AtHeight, AtZero
<1>6. CASE BeginDelegations
  <2>1. /\ phase = "validators" /\ todo = {} /\ phase' = "delegations"
        /\ todo' = Delegations /\ dist' = dist
    BY <1>6 DEF BeginDelegations
  <2>2. \A v \in Validators : {d \in Holders(v)' : <<d, v>> \notin todo'} = {}
    BY <1>k, <2>1 DEF Delegations, Holders
  <2>3. \A v \in Validators : SolventFor(v, {}, 0)'
    BY <1>k, <2>1 DEF SolvInv, SolventFor
  <2>4. \A v \in Validators : SolventFor(v, {d \in Holders(v) : <<d, v>> \notin todo}, 0)'
    BY <2>2, <2>3
  <2>5. \A u \in Validators : Safe(dist'[u]) /\ dist'[u].outstanding >= 0
    BY <1>0, <2>1
  <2> HIDE DEF SolventNow, SolventFor, Holders
  <2> QED
    BY <2>1, <2>4, <2>5 DEF SolvInv, AtHeight, AtZero
<1>7. CASE ReinitializeDelegation
  <2>1. /\ phase = "delegations" /\ phase' = phase
        /\ \E d \in Delegators, v \in Validators :
             /\ <<d, v>> \in todo /\ todo' = todo \ {<<d, v>>}
             /\ dist' = [dist EXCEPT ![v] =
                  InitializeDelegation(IncrementValidatorPeriod(dist[v], val[v].tokens),
                                       d, Stake(v, d), ctxHeight)]
    BY <1>7 DEF ReinitializeDelegation
  <2>2. PICK d \in Delegators, v \in Validators :
             /\ <<d, v>> \in todo /\ todo' = todo \ {<<d, v>>}
             /\ dist' = [dist EXCEPT ![v] =
                  InitializeDelegation(IncrementValidatorPeriod(dist[v], val[v].tokens),
                                       d, Stake(v, d), ctxHeight)]
    BY <2>1
  <2> DEFINE x == InitializeDelegation(IncrementValidatorPeriod(dist[v], val[v].tokens),
                                       d, Stake(v, d), ctxHeight)
             Back(u) == {e \in Holders(u) : <<e, u>> \notin todo}
  <2>3. ctxHeight = 0 /\ todo \subseteq Delegations
    BY <2>1 DEF BondInv, ContextInv, RecInv
  <2>4. d \in Holders(v) /\ d \notin Back(v)
    BY <2>2, <2>3 DEF Delegations, Holders
  <2>5. \A u \in Validators : Restarted(u, Back(u)) /\ SolventFor(u, Back(u), 0)
    BY <2>1 DEF RecInv, SolvInv
  <2>6. IsFiniteSet(Back(v))
    <3>1. Back(v) \in SUBSET Delegators
      BY DEF Holders
    <3> QED
      BY <3>1, FiniteDelegators, FS_Subset
  <2>7. \A u \in Validators : {e \in Holders(u)' : <<e, u>> \notin todo'}
                                = IF u = v THEN Back(u) \cup {d} ELSE Back(u)
    BY <1>k, <2>2, <2>4
  <2> HIDE DEF Back
  <2>8. Book(dist[v], Back(v), 0)
    <3>1. /\ Exact(dist[v], Back(v)) /\ dist[v].slashes = {} /\ Sound(dist[v])
          /\ \A e \in Back(v) : dist[v].starting[e].height = 0
      BY <1>0, <2>5 DEF Restarted, Renewed
    <3> QED
      BY <2>6, <3>1 DEF Book
  <2>9. Backed(dist[v], Back(v), 0, Weights(v), val[v].tokens)
    BY <2>5, <2>8, BackedBook
  <2>10. Enters(d, Stake(v, d), Weights(v), Weights(v), Back(v))
    BY <2>4, WeightsCovered DEF Enters
  <2>11. x = InitializeDelegation(IncrementValidatorPeriod(dist[v], val[v].tokens), d, Stake(v, d), 0)
    BY <2>3
  <2>12. Book(x, Back(v) \cup {d}, 0) /\ Solvent(x, Back(v) \cup {d}, 0, Weights(v))
    <3> HIDE DEF x
    <3>1. 0 \in Nat /\ 0 <= 0
      OBVIOUS
    <3> QED
      BY <2>9, <2>10, <2>11, <3>1, JoinSolvent
  <2> HIDE DEF x
  <2>13. Safe(x) /\ x.outstanding >= 0
    BY <2>12, SolventSafe
  <2>14. \A u \in Validators : dist'[u] = IF u = v THEN x ELSE dist[u]
    BY <2>2 DEF Records, x
  <2>15. \A u \in Validators : Safe(dist'[u]) /\ dist'[u].outstanding >= 0
    BY <1>0, <2>13, <2>14
  <2>16. ASSUME NEW u \in Validators
         PROVE  SolventFor(u, {e \in Holders(u) : <<e, u>> \notin todo}, 0)'
    <3>1. CASE u = v
      BY <1>k, <2>7, <2>12, <2>14, <3>1 DEF SolventFor
    <3>2. CASE u # v
      BY <1>k, <2>5, <2>7, <2>14, <3>2 DEF SolventFor
    <3> QED
      BY <3>1, <3>2
  <2> HIDE DEF SolventNow, SolventFor, Holders
  <2> QED
    BY <2>1, <2>15, <2>16 DEF SolvInv, AtHeight, AtZero
<1>8. CASE ResetEntries
  <2>1. phase = "delegations" /\ todo = {} /\ phase' = "jail" /\ dist' = dist
    BY <1>8 DEF ResetEntries
  <2>2. \A v \in Validators : SolventFor(v, Holders(v), 0)
    <3>1. \A v \in Validators : {d \in Holders(v) : <<d, v>> \notin todo} = Holders(v)
      BY <2>1
    <3> QED
      BY <2>1, <3>1 DEF SolvInv
  <2>3. \A v \in Validators : SolventFor(v, Holders(v), 0)'
    BY <1>k, <2>1, <2>2 DEF SolventFor
  <2>4. \A u \in Validators : Safe(dist'[u]) /\ dist'[u].outstanding >= 0
    BY <1>0, <2>1
  <2> HIDE DEF SolventNow, SolventFor, Holders
  <2> QED
    BY <2>1, <2>3, <2>4 DEF SolvInv, AtHeight, AtZero
<1>9. CASE ResetValidator \/ CloseFails \/ ApplyUpdates \/ ResetSigning
  <2>1. /\ phase \in {"jail", "signing"} /\ dist' = dist
        /\ phase' \in {"jail", "signing", "done", "panicked"} /\ exportHeight' = exportHeight
    BY <1>9 DEF ResetValidator, CloseFails, ApplyUpdates, ResetSigning
  <2>2. exportHeight = 0
    BY <2>1 DEF BondInv, JailInv, Running
  <2>3. \A v \in Validators : SolventFor(v, Holders(v), 0)'
    BY <1>k, <2>1 DEF SolvInv, SolventFor
  <2>4. \A u \in Validators : Safe(dist'[u]) /\ dist'[u].outstanding >= 0
    BY <1>0, <2>1
  <2> HIDE DEF SolventNow, SolventFor, Holders
  <2> QED
    BY <2>1, <2>2, <2>3, <2>4 DEF SolvInv, AtHeight, AtZero
<1> QED
  BY <1>1, <1>2, <1>3, <1>4, <1>5, <1>6, <1>7, <1>8, <1>9 DEF Export

LEMMA NextSolvent ==
  SlashesDivide /\ Inv /\ LedgerInv /\ BondInv /\ RecInv /\ GrainInv /\ SolvInv /\ [Next]_vars
    => GrainInv' /\ SolvInv'
<1> SUFFICES ASSUME SlashesDivide, Inv, LedgerInv, BondInv, RecInv, GrainInv, SolvInv, [Next]_vars
             PROVE  GrainInv' /\ SolvInv'
  OBVIOUS
<1> USE DEF control, counters, staking
<1>1. CASE Block
  BY <1>1, BlockSolvent
<1>o. Block \/ OtherStep
  BY DEF Next, OtherStep
<1>2. CASE Export
  <2>1. OtherStep
    BY <1>2 DEF OtherStep
  <2> QED
    BY <1>2, <2>1, OtherGrain, ExportSolvent
<1>k. ASSUME OtherStep, dist' = dist
      PROVE  \A v \in Validators :
               /\ Holders(v)' = Holders(v) /\ Weights(v)' = Weights(v)
               /\ Safe(dist'[v]) /\ dist'[v].outstanding >= 0
               /\ \A D, h : SolventFor(v, D, h) => Solvent(dist'[v], D, h, Weights(v)')
  <2>1. \A v \in Validators : Holders(v)' = Holders(v) /\ Weights(v)' = Weights(v)
    BY <1>k, OtherKeeps
  <2> QED
    BY <1>k, <2>1 DEF SolvInv, SolventFor
<1>3. CASE ExportAtHeight
  <2>1. /\ phase = "chain" /\ phase' = "done" /\ exportHeight' = height + 1
        /\ dist' = dist /\ height' = height /\ height \in Nat
    BY <1>3, InvParts DEF ExportAtHeight
  <2>2. OtherStep
    BY <1>3 DEF OtherStep
  <2>3. SolventNow'
    BY <1>k, <2>1, <2>2 DEF SolvInv, SolventNow, SolventFor
  <2>4. \A v \in Validators : Safe(dist'[v]) /\ dist'[v].outstanding >= 0
    BY <1>k, <2>1, <2>2
  <2>5. exportHeight' # 0
    BY <2>1
  <2> HIDE DEF SolventNow, SolventFor, Holders
  <2>6. SolvInv'
    BY <2>1, <2>3, <2>4, <2>5 DEF SolvInv, AtHeight, AtZero
  <2> QED
    BY <2>2, <2>6, OtherGrain
<1>4. ASSUME NEW addrs \in SUBSET Addresses, BeginZeroHeight(addrs)
      PROVE  GrainInv' /\ SolvInv'
  <2>1. /\ phase = "chain" /\ phase' \in {"commission", "panicked"}
        /\ dist' = dist /\ height' = height
    BY <1>4 DEF BeginZeroHeight
  <2>2. OtherStep
    BY <1>4 DEF OtherStep
  <2>3. SolventNow'
    BY <1>k, <2>1, <2>2 DEF SolvInv, SolventNow, SolventFor
  <2>4. \A v \in Validators : Safe(dist'[v]) /\ dist'[v].outstanding >= 0
    BY <1>k, <2>1, <2>2
  <2> HIDE DEF SolventNow, SolventFor, Holders
  <2>5. SolvInv'
    BY <2>1, <2>3, <2>4 DEF SolvInv, AtHeight, AtZero
  <2> QED
    BY <2>2, <2>5, OtherGrain
<1>5. CASE Import
  <2>1. /\ phase = "done" /\ phase' = "chain"
        /\ height' = IF exportHeight = 0 THEN 0 ELSE exportHeight - 1
        /\ dist' = dist /\ height \in Nat
    BY <1>5, InvParts DEF Import
  <2>2. OtherStep
    BY <1>5 DEF OtherStep
  <2>3. SolventNow'
    <3>1. CASE exportHeight # 0
      <4>1. exportHeight = height + 1 /\ SolventNow
        BY <2>1, <3>1 DEF BondInv, JailInv, SolvInv, AtHeight
      <4>2. height' = height
        BY <2>1, <3>1, <4>1
      <4> QED
        BY <1>k, <2>1, <2>2, <4>1, <4>2 DEF SolventNow, SolventFor
    <3>2. CASE exportHeight = 0
      <4>1. \A v \in Validators : SolventFor(v, Holders(v), 0)
        BY <2>1, <3>2 DEF SolvInv, AtZero
      <4> QED
        BY <1>k, <2>1, <2>2, <3>2, <4>1 DEF SolventNow, SolventFor
    <3> QED
      BY <3>1, <3>2
  <2>4. \A v \in Validators : Safe(dist'[v]) /\ dist'[v].outstanding >= 0
    BY <1>k, <2>1, <2>2
  <2> HIDE DEF SolventNow, SolventFor, Holders
  <2>5. SolvInv'
    BY <2>1, <2>3, <2>4 DEF SolvInv, AtHeight, AtZero
  <2> QED
    BY <2>2, <2>5, OtherGrain
<1>6. CASE UNCHANGED vars
  <2>1. /\ phase' = phase /\ todo' = todo /\ dist' = dist /\ height' = height
        /\ exportHeight' = exportHeight
    BY <1>6 DEF vars
  <2>2. OtherStep
    BY <1>6 DEF OtherStep
  <2>3. \A v \in Validators : /\ Holders(v)' = Holders(v) /\ Weights(v)' = Weights(v)
                              /\ Safe(dist'[v]) /\ dist'[v].outstanding >= 0
    BY <1>k, <2>1, <2>2
  <2>4. /\ SolventNow' <=> SolventNow
        /\ \A v \in Validators : SolventFor(v, {}, 0)' <=> SolventFor(v, {}, 0)
        /\ \A v \in Validators : SolventFor(v, Holders(v), 0)' <=> SolventFor(v, Holders(v), 0)
        /\ \A v \in Validators : SolventFor(v, {d \in Holders(v) : <<d, v>> \notin todo}, 0)'
                                   <=> SolventFor(v, {d \in Holders(v) : <<d, v>> \notin todo}, 0)
    BY <2>1, <2>3 DEF SolventNow, SolventFor
  <2> HIDE DEF SolventNow, SolventFor, Holders
  <2>5. SolvInv'
    BY <2>1, <2>3, <2>4 DEF SolvInv, AtHeight, AtZero
  <2> QED
    BY <2>2, <2>5, OtherGrain
<1> QED
  BY <1>1, <1>2, <1>3, <1>4, <1>5, <1>6 DEF Next

LEMMA InitGrain == SlashesDivide /\ Init => GrainInv
<1> SUFFICES ASSUME SlashesDivide, Init PROVE GrainInv
  OBVIOUS
<1>1. blocks = 0 /\ blocks \in Nat /\ blocks <= MaxBlocks
  BY SizesAssumption DEF Init
<1>2. ASSUME NEW v \in Validators PROVE GrainedAt(At(v), Two[SlashesLeft(v)])
  <2> DEFINE M == Two[SlashesLeft(v)]
             sh == shares[v]
  <2>1. SlashesLeft(v) \in Nat /\ SlashesLeft(v) <= Most
    BY <1>1, SlashesLeftNat
  <2>2. MultipleOf(SelfStake, M) /\ M \in Nat
    BY <2>1, DividedStake
  <2>3. /\ sh = [d \in Delegators |-> IF d = v THEN SelfStake ELSE 0]
        /\ val[v].tokens = SelfStake /\ val[v].total = SelfStake /\ v \in Delegators
    BY SelfIsDelegator DEF Init
  <2> HIDE DEF M, sh
  <2>4. PICK c \in Nat : SelfStake = M * c
    BY <2>2 DEF MultipleOf
  <2> DEFINE k == [d \in Delegators |-> IF d = v THEN c ELSE 0]
  <2>5. k \in Stakes /\ k[v] = c /\ \A d \in Delegators : d # v => k[d] = 0
    BY <2>3 DEF Stakes
  <2> HIDE DEF k
  <2>6. \A d \in Delegators : sh[d] = 1 * (M * k[d])
    <3> TAKE d \in Delegators
    <3>1. CASE d = v
      <4>1. sh[d] = SelfStake /\ k[d] = c
        BY <2>3, <2>5, <3>1
      <4>2. SelfStake \in Nat
        BY SizesAssumption
      <4> QED
        BY <2>2, <2>4, <4>1, <4>2
    <3>2. CASE d # v
      <4>1. sh[d] = 0 /\ k[d] = 0
        BY <2>3, <2>5, <3>2
      <4>2. 1 * (M * 0) = 0
        BY <2>2
      <4> QED
        BY <4>1, <4>2
    <3> QED
      BY <3>1, <3>2
  <2>7. InUnits(sh, SelfStake, SelfStake, M, 1, c, k)
    <3>1. SelfStake = 1 * SelfStake /\ 1 \in Nat \ {0}
      BY SizesAssumption
    <3> QED
      BY <2>4, <2>5, <2>6, <3>1 DEF InUnits
  <2>8. Grained(sh, SelfStake, SelfStake, M)
    BY <2>7 DEF Grained
  <2>9. GrainedAt(At(v), M)
    BY <2>3, <2>8, AtFields DEF GrainedAt, sh
  <2> QED
    BY <2>9 DEF M
<1> QED
  BY <1>1, <1>2 DEF GrainInv

LEMMA InitSolvent == SlashesDivide /\ Init => SolvInv
<1> SUFFICES ASSUME SlashesDivide, Init PROVE SolvInv
  OBVIOUS
<1>1. Inv /\ LedgerInv /\ GrainInv
  BY InitInv, InitLedger, InitGrain
<1>2. phase = "chain" /\ height = 0
  BY DEF Init
<1>3. ASSUME NEW v \in Validators
      PROVE  SolventFor(v, Holders(v), 0) /\ Safe(dist[v]) /\ dist[v].outstanding >= 0
  <2>1. Holders(v) = {v} /\ v \in Delegators
    BY SizesAssumption, SelfIsDelegator DEF Init, Holders
  <2>2. dist[v] = GenesisRecord(v) /\ shares[v][v] = SelfStake
        /\ val[v].tokens = SelfStake /\ val[v].total = SelfStake
    BY <2>1 DEF Init
  <2>3. Weights(v) \in Stakes /\ Weights(v)[v] = Stake(v, v)
    BY <1>1, <2>1, WeightsCovered
  <2>4. Stake(v, v) = SelfStake
    <3>1. Quo(SelfStake * SelfStake, SelfStake) = SelfStake
      BY QuoExact, SizesAssumption
    <3> QED
      BY <2>2, <3>1 DEF Stake
  <2>5. Book(GenesisRecord(v), {v}, 0) /\ Solvent(GenesisRecord(v), {v}, 0, Weights(v))
    BY <2>3, <2>4, GenesisSolvent
  <2>6. Safe(GenesisRecord(v)) /\ GenesisRecord(v).outstanding >= 0
    BY <2>5, SolventSafe
  <2> QED
    BY <2>1, <2>2, <2>5, <2>6 DEF SolventFor
<1>4. SolventNow
  BY <1>2, <1>3 DEF SolventNow
<1> HIDE DEF SolventNow, SolventFor, Holders
<1> QED
  BY <1>2, <1>3, <1>4 DEF SolvInv, AtHeight, AtZero

(***************************************************************************)
(* What was pending is what is paid                                        *)
(***************************************************************************)

(* What a withdrawal would pay now.                                        *)
Claim(d, v) == Coins(Owed(dist[v], d, val[v].tokens, Stake(v, d), height))

PendInv ==
  /\ phase = "commission" =>
       \A d \in Delegators, v \in Validators :
         <<d, v>> \in Delegations => committed.pending[<<d, v>>] = Claim(d, v)
  /\ phase = "rewards" =>
       \A d \in Delegators, v \in Validators :
         <<d, v>> \in todo => committed.pending[<<d, v>>] = Claim(d, v)

LEMMA QuoNone ==
  ASSUME NEW b \in Nat
  PROVE  Quo(0, b) = 0
<1>1. CASE b > 0
  <2>1. Quo(0 * b, b) = 0 /\ 0 * b = 0
    BY <1>1, QuoExact
  <2> QED
    BY <2>1
<1>2. CASE ~(b > 0)
  BY <1>2 DEF Quo
<1> QED
  BY <1>1, <1>2

LEMMA OwedInt ==
  ASSUME NEW r, Sound(r), NEW d \in DOMAIN r.starting, NEW T \in Nat, NEW stake \in Int, NEW h
  PROVE  Owed(r, d, T, stake, h) \in Int
<1>1. Due(r, d, h).sum \in Int
  <2>1. r.period - 1 \in Int
    BY DEF Sound, RecordsOK
  <2> QED
    BY <2>1, DueType DEF Due
<1>2. Quo(r.current, T) \in Int
  <2>1. r.current \in Int /\ T \in Int
    BY DEF Sound, RecordsOK
  <2> QED
    BY <2>1, QuoInt
<1> DEFINE g == Quo(r.current, T)
<1>3. g \in Int
  BY <1>2
<1> HIDE DEF g
<1>4. stake * g \in Int
  BY <1>3
<1>5. Due(r, d, h).sum + stake * g \in Int
  BY <1>1, <1>4
<1> QED
  BY <1>5 DEF Owed, g

(* The snapshot records the claims.                                        *)
LEMMA SnapshotClaims ==
  ASSUME Inv, LedgerInv, GrainInv, RecInv, SolvInv, phase = "chain",
         NEW d \in Delegators, NEW v \in Validators, <<d, v>> \in Delegations
  PROVE  Snapshot.pending[<<d, v>>] = Claim(d, v)
<1>1. d \in Holders(v)
  BY DEF Delegations, Holders
<1>2. Book(dist[v], Holders(v), height)
  BY RecordedBook
<1>3. SolventFor(v, Holders(v), height)
  BY DEF SolvInv, SolventNow
<1>4. Backed(dist[v], Holders(v), height, Weights(v), val[v].tokens)
  BY <1>2, <1>3, BackedBook
<1>5. Stake(v, d) = Weights(v)[d] /\ Weights(v)[d] \in Nat /\ val[v].tokens \in Nat
  BY WeightsCovered DEF Stakes
<1> DEFINE s == SettleDelegation(dist[v], d, val[v].tokens, Stake(v, d), height)
<1>6. s = SettleDelegation(dist[v], d, val[v].tokens, Stake(v, d), height)
  OBVIOUS
<1>7. Snapshot.pending[<<d, v>>] = s.paid - dist[v].paid
  BY DEF Snapshot, Pending
<1> HIDE DEF s
<1>8. Pays(s, dist[v], d, Holders(v) \ {d}, val[v].tokens, height, Weights(v))
  BY <1>1, <1>4, <1>5, <1>6, SettleSolvent
<1>9. s.paid = dist[v].paid + Claim(d, v)
  BY <1>5, <1>8 DEF Pays, Claim
<1>10. dist[v].paid \in Int /\ Claim(d, v) \in Int
  <2>1. Sound(dist[v]) /\ d \in DOMAIN dist[v].starting
    BY <1>1, InvParts DEF Records, RecInv
  <2>2. Owed(dist[v], d, val[v].tokens, Stake(v, d), height) \in Int
    BY <1>5, <2>1, OwedInt
  <2>3. Claim(d, v) \in Int
    BY <2>2, CoinsInt DEF Claim
  <2> QED
    BY <2>1, <2>3 DEF Sound, RecordsOK
<1> QED
  BY <1>7, <1>9, <1>10

(* A withdrawal pays the claim and leaves the claims of the others.        *)
LEMMA WithdrawClaims ==
  ASSUME Inv, LedgerInv, BondInv, GrainInv, RecInv, SolvInv, WithdrawRewards
  PROVE  \E d \in Delegators, v \in Validators :
           /\ <<d, v>> \in todo /\ todo' = todo \ {<<d, v>>}
           /\ dist'[v].paid - dist[v].paid = Claim(d, v)
           /\ \A e \in Delegators, w \in Validators :
                <<e, w>> \in todo' => Claim(e, w)' = Claim(e, w)
<1> USE InvParts
<1>1. /\ phase = "rewards" /\ height' = height
      /\ \E d \in Delegators, v \in Validators :
           /\ <<d, v>> \in todo /\ todo' = todo \ {<<d, v>>}
           /\ dist' = [dist EXCEPT ![v] =
                WithdrawDelegationRewards(dist[v], d, val[v].tokens, Stake(v, d), ctxHeight)]
  BY DEF WithdrawRewards, counters
<1>2. PICK d \in Delegators, v \in Validators :
           /\ <<d, v>> \in todo /\ todo' = todo \ {<<d, v>>}
           /\ dist' = [dist EXCEPT ![v] =
                WithdrawDelegationRewards(dist[v], d, val[v].tokens, Stake(v, d), ctxHeight)]
  BY <1>1
<1> DEFINE x == WithdrawDelegationRewards(dist[v], d, val[v].tokens, Stake(v, d), ctxHeight)
<1>3. ctxHeight = height /\ todo \subseteq Delegations
  BY <1>1 DEF BondInv, ContextInv, RecInv
<1>4. d \in Holders(v)
  BY <1>2, <1>3 DEF Delegations, Holders
<1>5. Book(dist[v], Holders(v), height) /\ SolventFor(v, Holders(v), height)
  BY <1>1, RecordedBook DEF SolvInv, SolventNow
<1>6. Backed(dist[v], Holders(v), height, Weights(v), val[v].tokens)
  BY <1>5, BackedBook
<1>7. /\ x = WithdrawDelegationRewards(dist[v], d, val[v].tokens, Stake(v, d), height)
      /\ \A e \in Delegators : Stake(v, e) = Weights(v)[e] /\ Weights(v)[e] \in Nat
      /\ val[v].tokens \in Nat
  BY <1>3, WeightsCovered DEF Stakes
<1> HIDE DEF x
<1>8. Pays(x, dist[v], d, Holders(v) \ {d}, val[v].tokens, height, Weights(v))
  BY <1>4, <1>6, <1>7, WithdrawSolvent
<1>9. \A u \in Validators : dist'[u] = IF u = v THEN x ELSE dist[u]
  BY <1>2 DEF Records, x
<1>10. dist'[v].paid - dist[v].paid = Claim(d, v)
  <2>1. x.paid = dist[v].paid + Claim(d, v)
    BY <1>7, <1>8 DEF Pays, Claim
  <2>2. Sound(dist[v]) /\ d \in DOMAIN dist[v].starting
    BY <1>4 DEF Records, RecInv
  <2>3. Owed(dist[v], d, val[v].tokens, Stake(v, d), height) \in Int
    BY <1>7, <2>2, OwedInt
  <2>4. Claim(d, v) \in Int /\ dist[v].paid \in Int
    BY <2>2, <2>3, CoinsInt DEF Claim, Sound, RecordsOK
  <2> QED
    BY <1>9, <2>1, <2>4
<1>k. \A w \in Validators : /\ val'[w].tokens = val[w].tokens
                            /\ \A e \in Delegators : Stake(w, e)' = Stake(w, e)
  BY OtherKeeps DEF OtherStep, Export
<1>11. ASSUME NEW e \in Delegators, NEW w \in Validators, <<e, w>> \in todo'
       PROVE  Claim(e, w)' = Claim(e, w)
  <2>1. CASE w # v
    BY <1>1, <1>9, <1>k, <2>1 DEF Claim
  <2>2. CASE w = v
    <3>1. e \in Holders(v) \ {d}
      BY <1>2, <1>3, <1>11, <2>2 DEF Delegations, Holders
    <3> DEFINE r == dist[v]
               T == val[v].tokens
               K == Weights(v)
               g == Quo(r.current, T)
    <3>2. /\ x.current = 0 /\ x.starting[e] = r.starting[e]
          /\ Due(x, e, height).sum = Due(r, e, height).sum + K[e] * g
      BY <1>8, <3>1 DEF Pays
    <3>3. Sound(r) /\ e \in DOMAIN r.starting /\ r.period - 1 \in Int /\ r.current \in Int
      <4>1. Sound(r) /\ e \in DOMAIN r.starting
        BY <3>1 DEF Records, RecInv
      <4> QED
        BY <4>1 DEF Sound, RecordsOK
    <3>4. Due(r, e, height).sum \in Int
      BY <3>3, DueType DEF Due
    <3>5. g \in Int /\ Quo(0, T) = 0 /\ K[e] \in Nat /\ Stake(v, e) = K[e]
      <4>1. T \in Nat /\ T \in Int /\ r.current \in Int
        BY <1>7, <3>3
      <4>2. g \in Int
        <5> HIDE DEF r, T
        <5> QED
          BY <4>1, QuoInt
      <4>3. Quo(0, T) = 0
        <5> HIDE DEF r, T
        <5> QED
          BY <4>1, QuoNone
      <4> QED
        BY <1>7, <4>2, <4>3
    <3> HIDE DEF r, T, K, g
    <3>6. Owed(x, e, T, K[e], height) = Owed(r, e, T, K[e], height)
      <4> DEFINE m == K[e]
                 a == Due(r, e, height).sum
                 y == Due(x, e, height).sum
      <4>1. m \in Nat /\ g \in Int /\ a \in Int /\ y = a + m * g
        BY <3>2, <3>4, <3>5
      <4>2. Owed(r, e, T, m, height) = IF r.starting[e].height = height THEN 0 ELSE a + m * g
        BY DEF Owed, g
      <4>3. Owed(x, e, T, m, height) = IF r.starting[e].height = height THEN 0 ELSE y + m * 0
        BY <3>2, <3>5 DEF Owed
      <4> HIDE DEF m, a, y
      <4>4. y + m * 0 = y
        <5> DEFINE z == m * g
        <5>1. z \in Int
          BY <4>1
        <5>2. y = a + z
          BY <4>1
        <5> HIDE DEF z
        <5>3. y \in Int
          BY <4>1, <5>1, <5>2
        <5> QED
          BY <4>1, <5>3
      <4>5. Owed(x, e, T, m, height) = Owed(r, e, T, m, height)
        BY <4>1, <4>2, <4>3, <4>4
      <4> QED
        BY <4>5 DEF m
    <3>7. Claim(e, v) = Coins(Owed(r, e, T, K[e], height))
      BY <3>5 DEF Claim, r, T
    <3>8. Claim(e, v)' = Coins(Owed(x, e, T, K[e], height))
      <4>1. Claim(e, v)' = Coins(Owed(dist'[v], e, val'[v].tokens, Stake(v, e)', height'))
        BY DEF Claim
      <4> QED
        BY <1>1, <1>9, <1>k, <3>5, <4>1 DEF T
    <3> QED
      BY <2>2, <3>6, <3>7, <3>8
  <2> QED
    BY <2>1, <2>2
<1> QED
  BY <1>2, <1>10, <1>11

(* Nothing but the begin of an export and its three withdrawing steps ends *)
(* in a phase that withdraws.                                              *)
LEMMA OtherPhases ==
  ASSUME Next, ~ (WithdrawCommission \/ ListDelegations \/ WithdrawRewards),
         ~ (\E addrs \in SUBSET Addresses : BeginZeroHeight(addrs))
  PROVE  phase' \notin {"commission", "rewards"}
<1>1. Block => phase' \notin {"commission", "rewards"}
  BY BlockFrame DEF NextBlock
<1>2. ExportAtHeight => phase' \notin {"commission", "rewards"}
  BY DEF ExportAtHeight
<1>3. ClearRecords => phase' \notin {"commission", "rewards"}
  BY DEF ClearRecords, ClearRecordsTo
<1>4. (ReinitializeValidator \/ BeginDelegations \/ ReinitializeDelegation) => phase' \notin {"commission", "rewards"}
  BY DEF ReinitializeValidator, BeginDelegations, ReinitializeDelegation
<1>5. (ResetEntries \/ ResetValidator \/ CloseFails) => phase' \notin {"commission", "rewards"}
  BY DEF ResetEntries, ResetValidator, CloseFails
<1>6. (ApplyUpdates \/ ResetSigning \/ Import) => phase' \notin {"commission", "rewards"}
  BY DEF ApplyUpdates, ResetSigning, Import
<1> QED
  BY <1>1, <1>2, <1>3, <1>4, <1>5, <1>6 DEF Next, Export

LEMMA NextPending ==
  ASSUME Inv, LedgerInv, BondInv, GrainInv, RecInv, SolvInv, PendInv, [Next]_vars
  PROVE  PendInv'
<1> USE InvParts
<1> USE DEF control, counters, staking
<1>1. CASE WithdrawCommission
  <2>1. /\ phase = "commission" /\ phase' = phase /\ height' = height /\ committed' = committed
        /\ \E v \in todo : dist' = [dist EXCEPT ![v] = WithdrawValidatorCommission(dist[v])]
    BY <1>1 DEF WithdrawCommission
  <2>2. PICK v \in todo : dist' = [dist EXCEPT ![v] = WithdrawValidatorCommission(dist[v])]
    BY <2>1
  <2> DEFINE x == WithdrawValidatorCommission(dist[v])
  <2>3. v \in Validators
    BY <2>1 DEF Inv, TypeOK
  <2>4. Book(dist[v], Holders(v), height) /\ Solvent(dist[v], Holders(v), height, Weights(v))
    BY <2>1, <2>3, RecordedBook DEF SolvInv, SolventNow, SolventFor
  <2>5. /\ Book(x, Holders(v), height) /\ x.current = dist[v].current /\ SameMaps(x, dist[v])
    BY <2>4, CommissionSolvent
  <2> HIDE DEF x
  <2>6. \A d \in Holders(v) : /\ Due(x, d, height).sum = Due(dist[v], d, height).sum
                              /\ x.starting[d] = dist[v].starting[d]
    <3>1. Sound(x)
      BY <2>5 DEF Book
    <3>2. \A d \in Holders(v) : Due(x, d, height).sum = Due(dist[v], d, height).sum
      BY <2>4, <2>5, <3>1, SameMapsDues
    <3> QED
      BY <2>5, <3>2 DEF SameMaps
  <2>7. \A u \in Validators : dist'[u] = IF u = v THEN x ELSE dist[u]
    BY <2>2, <2>3 DEF Records, x
  <2>k. /\ Delegations' = Delegations
        /\ \A w \in Validators : /\ val'[w].tokens = val[w].tokens
                                 /\ \A e \in Delegators : Stake(w, e)' = Stake(w, e)
    BY <1>1 DEF WithdrawCommission, Delegations, Stake
  <2>8. ASSUME NEW d \in Delegators, NEW w \in Validators, <<d, w>> \in Delegations
        PROVE  Claim(d, w)' = Claim(d, w)
    <3>1. CASE w # v
      BY <2>1, <2>7, <2>k, <3>1 DEF Claim
    <3>2. CASE w = v
      <4>1. d \in Holders(v)
        BY <2>8, <3>2 DEF Delegations, Holders
      <4>2. Owed(x, d, val[v].tokens, Stake(v, d), height)
              = Owed(dist[v], d, val[v].tokens, Stake(v, d), height)
        BY <2>5, <2>6, <4>1 DEF Owed
      <4>3. Claim(d, v)' = Coins(Owed(dist'[v], d, val'[v].tokens, Stake(v, d)', height'))
        BY DEF Claim
      <4>4. Claim(d, v)' = Coins(Owed(x, d, val[v].tokens, Stake(v, d), height))
        BY <2>1, <2>3, <2>7, <2>k, <4>3
      <4> QED
        BY <3>2, <4>2, <4>4 DEF Claim
    <3> QED
      BY <3>1, <3>2
  <2> HIDE DEF Claim, Delegations
  <2> QED
    BY <2>1, <2>8, <2>k DEF PendInv
<1>2. CASE ListDelegations
  <2>1. /\ phase = "commission" /\ phase' = "rewards" /\ todo' = Delegations /\ dist' = dist
        /\ height' = height /\ committed' = committed /\ val' = val /\ shares' = shares
    BY <1>2 DEF ListDelegations, ListDelegationsWith
  <2>2. \A d \in Delegators, v \in Validators : Claim(d, v)' = Claim(d, v)
    BY <2>1 DEF Claim, Stake
  <2> HIDE DEF Claim, Delegations
  <2> QED
    BY <2>1, <2>2 DEF PendInv
<1>3. CASE WithdrawRewards
  <2>1. phase = "rewards" /\ phase' = phase /\ committed' = committed
    BY <1>3 DEF WithdrawRewards
  <2>2. PICK d \in Delegators, v \in Validators :
           /\ todo' = todo \ {<<d, v>>}
           /\ \A e \in Delegators, w \in Validators :
                <<e, w>> \in todo' => Claim(e, w)' = Claim(e, w)
    BY <1>3, WithdrawClaims
  <2> HIDE DEF Claim, Delegations
  <2> QED
    BY <2>1, <2>2 DEF PendInv
<1>4. ASSUME NEW addrs \in SUBSET Addresses, BeginZeroHeight(addrs)
      PROVE  PendInv'
  <2>1. /\ phase = "chain" /\ phase' \in {"commission", "panicked"}
        /\ dist' = dist /\ height' = height /\ committed' = Snapshot
        /\ val' = val /\ shares' = shares
    BY <1>4 DEF BeginZeroHeight
  <2>2. Delegations' = Delegations /\ \A d \in Delegators, v \in Validators : Claim(d, v)' = Claim(d, v)
    BY <2>1 DEF Claim, Stake, Delegations
  <2>3. \A d \in Delegators, v \in Validators :
          <<d, v>> \in Delegations => Snapshot.pending[<<d, v>>] = Claim(d, v)
    BY <2>1, SnapshotClaims
  <2> HIDE DEF Claim, Delegations
  <2> QED
    BY <2>1, <2>2, <2>3 DEF PendInv
<1>5. CASE UNCHANGED vars
  <2>1. /\ phase' = phase /\ todo' = todo /\ dist' = dist /\ height' = height
        /\ committed' = committed /\ val' = val /\ shares' = shares
    BY <1>5 DEF vars
  <2>2. Delegations' = Delegations /\ \A d \in Delegators, v \in Validators : Claim(d, v)' = Claim(d, v)
    BY <2>1 DEF Claim, Stake, Delegations
  <2> HIDE DEF Claim, Delegations
  <2> QED
    BY <2>1, <2>2 DEF PendInv
<1>6. CASE phase' \notin {"commission", "rewards"}
  BY <1>6 DEF PendInv
<1>7. CASE ~ (WithdrawCommission \/ ListDelegations \/ WithdrawRewards) /\ Next
           /\ ~ (\E addrs \in SUBSET Addresses : BeginZeroHeight(addrs))
  BY <1>6, <1>7, OtherPhases
<1> QED
  BY <1>1, <1>2, <1>3, <1>4, <1>5, <1>7

(***************************************************************************)
(* The results                                                             *)
(***************************************************************************)

SolventIInv == ExportIInv /\ GrainInv /\ SolvInv /\ PendInv

LEMMA SolventInduction ==
  SlashesDivide => /\ Init => SolventIInv
                   /\ SolventIInv /\ [Next]_vars => SolventIInv'
<1> SUFFICES ASSUME SlashesDivide
             PROVE  /\ Init => SolventIInv
                    /\ SolventIInv /\ [Next]_vars => SolventIInv'
  OBVIOUS
<1>1. Init => SolventIInv
  <2>1. Init => PendInv
    BY DEF Init, PendInv
  <2> QED
    BY <2>1, ExportInduction, InitGrain, InitSolvent DEF SolventIInv
<1>2. SolventIInv /\ [Next]_vars => SolventIInv'
  BY ExportInduction, NextSolvent, NextPending DEF SolventIInv, ExportIInv
<1> QED
  BY <1>1, <1>2

(* Where every slash halves every stake evenly, no call of the export, of  *)
(* the blocks before it or of the chain after it reaches a panic of the    *)
(* distribution module, and no amount ever becomes negative: every         *)
(* validator can always pay what its delegations are due.                  *)
THEOREM NoPanicWhenSlashesDivide == SlashesDivide => (Spec => []NoDistributionPanic)
<1>1. SolventIInv => NoDistributionPanic
  <2> SUFFICES ASSUME SolventIInv PROVE NoDistributionPanic
    OBVIOUS
  <2>0. Inv /\ LedgerInv /\ SolvInv
    BY DEF SolventIInv, ExportIInv
  <2>1. ASSUME NEW v \in Validators
        PROVE  /\ Safe(dist[v]) /\ dist[v].outstanding >= 0
               /\ val[v].tokens >= 0 /\ val[v].total > 0
    BY <2>0, LedgerTypes DEF SolvInv
  <2>2. ASSUME NEW v \in Validators, NEW d \in Delegators PROVE shares[v][d] >= 0
    <3>1. shares[v][d] \in 0 .. val[v].total /\ val[v].total \in Nat
      BY <2>0, LedgerFacts
    <3> QED
      BY <3>1
  <2> QED
    BY <2>1, <2>2 DEF NoDistributionPanic, Safe
<1> SUFFICES ASSUME SlashesDivide PROVE Spec => []NoDistributionPanic
  OBVIOUS
<1>2. (Init => SolventIInv) /\ (SolventIInv /\ [Next]_vars => SolventIInv')
  BY SolventInduction
<1> QED
  BY <1>1, <1>2, PTL DEF Spec

PaysPending ==
  phase = "rewards" =>
    \A x \in todo \ todo' : dist'[x[2]].paid - dist[x[2]].paid = committed.pending[x]

LEMMA StepPays == SolventIInv /\ [Next]_vars => PaysPending \/ UNCHANGED vars
<1> SUFFICES ASSUME SolventIInv, Next, phase = "rewards"
             PROVE  \A x \in todo \ todo' :
                      dist'[x[2]].paid - dist[x[2]].paid = committed.pending[x]
  BY DEF PaysPending
<1>1. Inv /\ LedgerInv /\ BondInv /\ GrainInv /\ RecInv /\ SolvInv /\ PendInv
  BY DEF SolventIInv, ExportIInv
<1>2. WithdrawRewards \/ todo = {}
  BY DEF Next, Block, BlockReward, BlockUnjail, BlockSlash, BlockDelegate, BlockUndelegate,
     BlockRedelegate, CommitBlock, ExportAtHeight, BeginZeroHeight, Export, WithdrawCommission,
     ListDelegations, ListDelegationsWith, ClearRecords, ClearRecordsTo, ReinitializeValidator,
     BeginDelegations, ReinitializeDelegation, ResetEntries, ResetValidator, CloseFails,
     ApplyUpdates, ResetSigning, Import
<1>3. CASE WithdrawRewards
  <2>1. PICK d \in Delegators, v \in Validators :
           /\ <<d, v>> \in todo /\ todo' = todo \ {<<d, v>>}
           /\ dist'[v].paid - dist[v].paid = Claim(d, v)
    BY <1>1, <1>3, WithdrawClaims
  <2>2. committed.pending[<<d, v>>] = Claim(d, v)
    BY <1>1, <2>1 DEF PendInv
  <2> HIDE DEF Claim
  <2> TAKE x \in todo \ todo'
  <2>3. x = <<d, v>>
    BY <2>1
  <2> QED
    BY <2>1, <2>2, <2>3
<1>4. CASE todo = {}
  BY <1>4
<1> QED
  BY <1>2, <1>3, <1>4

(* Where every slash halves every stake evenly, each withdrawal of the     *)
(* export pays exactly what the delegation could have withdrawn from the   *)
(* committed state alone, whatever was withdrawn before it.                *)
THEOREM PendingIsPaid == SlashesDivide => (Spec => PaysWhatWasPending)
<1>1. SolventIInv /\ [Next]_vars => [PaysPending]_vars
  BY StepPays
<1> SUFFICES ASSUME SlashesDivide PROVE Spec => [][PaysPending]_vars
  BY DEF PaysWhatWasPending, PaysPending
<1>2. (Init => SolventIInv) /\ (SolventIInv /\ [Next]_vars => SolventIInv')
  BY SolventInduction
<1> QED
  BY <1>1, <1>2, PTL DEF Spec

=============================================================================
