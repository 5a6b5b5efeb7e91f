------------------------- MODULE InPlaceTestnetProofs --------------------------
(***************************************************************************)
(* The in-place testnet, for any operators, keys, accounts, lists of       *)
(* accounts to fund, and any number of blocks and commands.                *)
(*                                                                         *)
(* The old chain and the new one make their next blocks for different      *)
(* reasons: Resolved and Votes say how the indexes of a chain with any     *)
(* validators fit each other, Sole what the command leaves of them.  The   *)
(* coins are counted by a sum over all accounts, so the last part needs    *)
(* what such a sum does when one account gets a coin: Accounts is finite.  *)
(***************************************************************************)
EXTENDS InPlaceTestnet, FiniteSetTheorems, WellFoundedInduction, TLAPS

(***************************************************************************)
(* Types                                                                   *)
(***************************************************************************)
Shape(st) ==
  /\ st \in [validators : {st.validators}, power : SUBSET Operators, last : SUBSET Operators,
             queue : SUBSET Operators, byCons : {st.byCons}, signing : SUBSET Keys,
             records : SUBSET Operators, supply : Nat, balance : [Accounts -> Nat], minter : Nat]
  /\ st.validators \in [DOMAIN st.validators -> [cons : Keys, bonded : BOOLEAN]]
  /\ DOMAIN st.validators \subseteq Operators
  /\ st.byCons \in [DOMAIN st.byCons -> Operators]
  /\ DOMAIN st.byCons \subseteq Keys

Typed ==
  /\ Shape(app) /\ Shape(disk)
  /\ args \in [operator : Operators, key : Keys, fund : {args.fund}]
  /\ voters \subseteq Keys
  /\ phase \in {"chain", "stores", "validator", "records", "fund", "send", "started", "exited"}
  /\ lost \in BOOLEAN /\ unsigned \in BOOLEAN
  /\ blocks \in 0 .. MaxBlocks /\ commands \in 0 .. MaxCommands

(* The mint module account holds the grant between minting and sending.    *)
Minting == disk.minter = 0 /\ app.minter = IF phase = "send" THEN 1 ELSE 0

(***************************************************************************)
(* The old chain                                                           *)
(***************************************************************************)
Resolved(st) ==
  /\ st.power \cup st.last \cup st.queue \subseteq DOMAIN st.validators
  /\ \A v \in st.last : st.validators[v].bonded /\ st.validators[v].cons \in st.signing
  /\ \A v \in DOMAIN st.validators :
       /\ st.validators[v].cons \in DOMAIN st.byCons
       /\ st.byCons[st.validators[v].cons] \in DOMAIN st.validators

Votes(st) == \A k \in voters : \E v \in st.last : k = st.validators[v].cons

(***************************************************************************)
(* The new chain                                                           *)
(***************************************************************************)
Removed(st) ==
  DOMAIN st.validators = {} /\ st.power = {} /\ st.last = {} /\ st.queue = {}

Sole(st) ==
  /\ DOMAIN st.validators = {args.operator}
  /\ st.validators[args.operator].cons = args.key /\ st.validators[args.operator].bonded
  /\ st.power = {args.operator} /\ st.last = {args.operator} /\ st.queue = {}
  /\ args.key \in DOMAIN st.byCons /\ st.byCons[args.key] = args.operator
  /\ args.operator \in st.records

(* The signing info of the new key, unless the call that sets it failed.   *)
Signed(st) == unsigned \/ args.key \in st.signing

Phases ==
  /\ phase = "chain" => Resolved(app) /\ Votes(app)
  /\ phase = "validator" => Removed(app)
  /\ phase \in {"records", "fund", "send"} => Sole(app)
  /\ phase \in {"fund", "send"} => Signed(app)
  /\ phase = "started" /\ ~lost => Sole(app) /\ Signed(app) /\ voters = {args.key}

Inv == Typed /\ Minting /\ Phases

(***************************************************************************)
(* The first block can be made.                                            *)
(***************************************************************************)
LEMMA InitInv == Init => Inv
<1> SUFFICES ASSUME Init PROVE Inv
  OBVIOUS
<1>1. PICK all \in SUBSET Operators : \E cons \in [all -> Keys], bonded \in (SUBSET all) \ {{}} :
    /\ app = [validators |-> [v \in all |-> [cons |-> cons[v], bonded |-> v \in bonded]],
              power |-> bonded, last |-> bonded, queue |-> {},
              byCons |-> [k \in Range(cons) |-> CHOOSE v \in all : cons[v] = k],
              signing |-> {cons[v] : v \in bonded}, records |-> all,
              supply |-> 0, balance |-> [a \in Accounts |-> 0], minter |-> 0]
    /\ voters = {cons[v] : v \in bonded}
  BY DEF Init
<1>2. PICK cons \in [all -> Keys], bonded \in (SUBSET all) \ {{}} :
    /\ app = [validators |-> [v \in all |-> [cons |-> cons[v], bonded |-> v \in bonded]],
              power |-> bonded, last |-> bonded, queue |-> {},
              byCons |-> [k \in Range(cons) |-> CHOOSE v \in all : cons[v] = k],
              signing |-> {cons[v] : v \in bonded}, records |-> all,
              supply |-> 0, balance |-> [a \in Accounts |-> 0], minter |-> 0]
    /\ voters = {cons[v] : v \in bonded}
  BY <1>1
<1>3. /\ disk = app /\ phase = "chain" /\ lost = FALSE /\ unsigned = FALSE /\ blocks = 0 /\ commands = 0
      /\ args = [operator |-> CHOOSE v \in Operators : TRUE, key |-> CHOOSE k \in Keys : TRUE,
                 fund |-> <<>>]
  BY DEF Init
<1>4. /\ app.validators = [v \in all |-> [cons |-> cons[v], bonded |-> v \in bonded]]
      /\ app.byCons = [k \in Range(cons) |-> CHOOSE v \in all : cons[v] = k]
      /\ app.power = bonded /\ app.last = bonded /\ app.queue = {} /\ app.records = all
      /\ app.signing = {cons[v] : v \in bonded} /\ app.minter = 0
  BY <1>2
<1>5. Range(cons) \subseteq Keys /\ \A k \in Range(cons) : \E v \in all : cons[v] = k
  BY DEF Range
<1>6. \A k \in Range(cons) : app.byCons[k] \in all
  BY <1>4, <1>5
<1>7. Shape(app)
  <2>1. app.validators \in [all -> [cons : Keys, bonded : BOOLEAN]]
    BY <1>4
  <2>2. app.byCons \in [Range(cons) -> Operators]
    BY <1>4, <1>6
  <2>3. app.signing \subseteq Keys
    BY <1>4
  <2>4. app \in [validators : {app.validators}, power : SUBSET Operators, last : SUBSET Operators,
                 queue : SUBSET Operators, byCons : {app.byCons}, signing : SUBSET Keys,
                 records : SUBSET Operators, supply : Nat, balance : [Accounts -> Nat], minter : Nat]
    BY <1>2, <1>4, <2>3
  <2>5. QED
    BY <1>5, <2>1, <2>2, <2>4 DEF Shape
<1>8. Typed
  <2>1. (CHOOSE v \in Operators : TRUE) \in Operators /\ (CHOOSE k \in Keys : TRUE) \in Keys
    <3>1. PICK v \in bonded : TRUE
      OBVIOUS
    <3>2. v \in Operators /\ cons[v] \in Keys
      BY <3>1
    <3>3. QED
      BY <3>2
  <2>2. voters \subseteq Keys
    BY <1>2
  <2>3. blocks \in 0 .. MaxBlocks /\ commands \in 0 .. MaxCommands
    BY <1>3, ArgumentsAssumption
  <2>4. args \in [operator : Operators, key : Keys, fund : {args.fund}]
    BY <1>3, <2>1
  <2>5. QED
    BY <1>3, <1>7, <2>2, <2>3, <2>4 DEF Typed
<1>9. Resolved(app)
  <2>1. \A v \in all : app.validators[v].cons = cons[v] /\ cons[v] \in Range(cons)
    BY <1>4 DEF Range
  <2>2. DOMAIN app.validators = all /\ DOMAIN app.byCons = Range(cons)
    BY <1>4
  <2>3. ASSUME NEW v \in bonded PROVE app.validators[v].bonded /\ cons[v] \in app.signing
    <3>1. app.validators[v] = [cons |-> cons[v], bonded |-> v \in bonded]
      BY <1>4, Zenon
    <3>2. app.validators[v].bonded
      <4>1. (v \in bonded) = TRUE
        OBVIOUS
      <4>2. app.validators[v] = [cons |-> cons[v], bonded |-> TRUE]
        BY <3>1, <4>1, Zenon
      <4>3. QED
        BY <4>2
    <3>3. cons[v] \in app.signing
      BY <1>4
    <3>4. QED
      BY <3>2, <3>3, Zenon
  <2>4. QED
    BY <1>4, <1>6, <2>1, <2>2, <2>3 DEF Resolved
<1>10. Votes(app)
  BY <1>2, <1>4 DEF Votes
<1>11. QED
  BY <1>3, <1>4, <1>8, <1>9, <1>10 DEF Inv, Minting, Phases

LEMMA NoHaltInOldChain == ASSUME Typed, Resolved(app), Votes(app) PROVE ~BlockHalts
BY DEF Resolved, Votes, BlockHalts, Unresolved

LEMMA NewChainResolved ==
  ASSUME Typed, Sole(app), voters = {args.key} PROVE ~Unresolved
BY DEF Sole, Unresolved

(***************************************************************************)
(* Blocks                                                                  *)
(***************************************************************************)

(* What a block writes, field by field.                                    *)
LEMMA UpdatedFields ==
  ASSUME NEW st, Shape(st), st.power \subseteq DOMAIN st.validators, NEW mature
  PROVE  LET new == Updated(st, mature) IN
         /\ Shape(new)
         /\ DOMAIN new.validators = DOMAIN st.validators
         /\ \A v \in DOMAIN st.validators :
              /\ new.validators[v].cons = st.validators[v].cons
              /\ new.validators[v].bonded = (v \in st.power)
         /\ new.power = st.power /\ new.last = st.power
         /\ new.queue = ((st.queue \cup (st.last \ st.power)) \ st.power) \ mature
         /\ new.signing = st.signing \cup {st.validators[v].cons : v \in st.power}
         /\ new.byCons = st.byCons /\ new.records = st.records /\ new.minter = st.minter
<1> DEFINE new == Updated(st, mature)
<1> DEFINE vals == [v \in DOMAIN st.validators |-> [st.validators[v] EXCEPT !.bonded = v \in st.power]]
<1>1. /\ new.validators = vals
      /\ new.power = st.power /\ new.last = st.power
      /\ new.queue = ((st.queue \cup (st.last \ st.power)) \ st.power) \ mature
      /\ new.signing = st.signing \cup {st.validators[v].cons : v \in st.power}
      /\ new.byCons = st.byCons /\ new.records = st.records /\ new.minter = st.minter
      /\ new.supply = st.supply /\ new.balance = st.balance
  BY DEF Updated, Shape
<1>2. \A v \in DOMAIN st.validators : st.validators[v] \in [cons : Keys, bonded : BOOLEAN]
  BY DEF Shape
<1>3. /\ DOMAIN vals = DOMAIN st.validators
      /\ \A v \in DOMAIN st.validators :
           /\ vals[v] \in [cons : Keys, bonded : BOOLEAN]
           /\ vals[v].cons = st.validators[v].cons
           /\ vals[v].bonded = (v \in st.power)
  <2>1. \A r \in [cons : Keys, bonded : BOOLEAN], b \in BOOLEAN :
          /\ [r EXCEPT !.bonded = b] \in [cons : Keys, bonded : BOOLEAN]
          /\ [r EXCEPT !.bonded = b].cons = r.cons /\ [r EXCEPT !.bonded = b].bonded = b
    OBVIOUS
  <2>2. DOMAIN vals = DOMAIN st.validators
    BY Zenon
  <2>3. \A v \in DOMAIN st.validators : vals[v] = [st.validators[v] EXCEPT !.bonded = v \in st.power]
    BY Zenon
  <2>4. \A v \in DOMAIN st.validators : (v \in st.power) \in BOOLEAN
    OBVIOUS
  <2>5. QED
    BY <1>2, <2>1, <2>2, <2>3, <2>4, Zenon
<1>4. vals \in [DOMAIN vals -> [cons : Keys, bonded : BOOLEAN]]
  BY <1>3
<1>5. new.signing \subseteq Keys /\ new.queue \subseteq Operators
  BY <1>1, <1>2 DEF Shape
<1>6. new \in [validators : {new.validators}, power : SUBSET Operators, last : SUBSET Operators,
               queue : SUBSET Operators, byCons : {new.byCons}, signing : SUBSET Keys,
               records : SUBSET Operators, supply : Nat, balance : [Accounts -> Nat], minter : Nat]
  <2>1. \A q, s, v : q \subseteq Operators /\ s \subseteq Keys =>
          [st EXCEPT !.validators = v, !.last = st.power, !.queue = q, !.signing = s] \in
            [validators : {v}, power : SUBSET Operators, last : SUBSET Operators,
             queue : SUBSET Operators, byCons : {st.byCons}, signing : SUBSET Keys,
             records : SUBSET Operators, supply : Nat, balance : [Accounts -> Nat], minter : Nat]
    BY DEF Shape
  <2>2. new = [st EXCEPT !.validators = new.validators, !.last = st.power, !.queue = new.queue,
                         !.signing = new.signing]
    BY <1>1 DEF Updated, Shape
  <2>3. QED
    BY <1>1, <1>5, <2>1, <2>2
<1> HIDE DEF vals
<1>7. Shape(new)
  BY <1>1, <1>3, <1>4, <1>6 DEF Shape
<1>8. QED
  BY <1>1, <1>3, <1>7

(* A block of a chain whose indexes fit leaves them fitting, and its voters*)
(* are the validators it bonds.                                            *)
LEMMA CommitKeepsOldChain ==
  ASSUME Inv, phase = "chain", NEW st, Shape(st), st.minter = 0, NEW mature, CommitBlock(st, mature),
         st.power \cup st.last \cup st.queue \subseteq DOMAIN st.validators,
         \A v \in DOMAIN st.validators :
           /\ st.validators[v].cons \in DOMAIN st.byCons
           /\ st.byCons[st.validators[v].cons] \in DOMAIN st.validators
  PROVE  Inv'
<1>1. /\ app' = Updated(st, mature) /\ disk' = app' /\ phase' = "chain"
      /\ voters' = {st.validators[v].cons : v \in st.power}
      /\ blocks < MaxBlocks /\ blocks' = blocks + 1 /\ UNCHANGED <<args, lost, unsigned, commands>>
  BY DEF CommitBlock
<1>2. /\ Shape(app') /\ app'.minter = 0
      /\ DOMAIN app'.validators = DOMAIN st.validators
      /\ \A v \in DOMAIN st.validators :
           /\ app'.validators[v].cons = st.validators[v].cons
           /\ app'.validators[v].bonded = (v \in st.power)
      /\ app'.power = st.power /\ app'.last = st.power
      /\ app'.queue \subseteq st.queue \cup st.last
      /\ app'.signing = st.signing \cup {st.validators[v].cons : v \in st.power}
      /\ app'.byCons = st.byCons
  BY <1>1, UpdatedFields
<1>3. Resolved(app')
  BY <1>2 DEF Resolved
<1>4. Votes(app)'
  BY <1>1, <1>2 DEF Votes
<1>5. voters' \subseteq Keys
  BY <1>1 DEF Shape
<1>6. blocks' \in 0 .. MaxBlocks
  <2>1. blocks \in 0 .. MaxBlocks /\ blocks < MaxBlocks /\ blocks' = blocks + 1
    BY <1>1 DEF Inv, Typed
  <2>2. QED
    BY <2>1, ArgumentsAssumption
<1>7. Typed'
  BY <1>1, <1>2, <1>5, <1>6 DEF Inv, Typed
<1>8. QED
  BY <1>1, <1>2, <1>3, <1>4, <1>7 DEF Inv, Minting, Phases

(* A block of the chain that the command left, with its one validator.     *)
LEMMA CommitKeepsNewChain ==
  ASSUME Inv, phase = "started", NEW st, Shape(st), st.minter = 0, NEW mature, CommitBlock(st, mature),
         st.power \subseteq DOMAIN st.validators,
         ~lost => Sole(st) /\ args.key \in st.signing
  PROVE  Inv'
<1>1. /\ app' = Updated(st, mature) /\ disk' = app' /\ phase' = "started"
      /\ voters' = {st.validators[v].cons : v \in st.power}
      /\ blocks < MaxBlocks /\ blocks' = blocks + 1 /\ UNCHANGED <<args, lost, unsigned, commands>>
  BY DEF CommitBlock
<1>2. /\ Shape(app') /\ app'.minter = 0
      /\ DOMAIN app'.validators = DOMAIN st.validators
      /\ \A v \in DOMAIN st.validators :
           /\ app'.validators[v].cons = st.validators[v].cons
           /\ app'.validators[v].bonded = (v \in st.power)
      /\ app'.power = st.power /\ app'.last = st.power
      /\ app'.queue \subseteq st.queue \cup (st.last \ st.power)
      /\ app'.signing = st.signing \cup {st.validators[v].cons : v \in st.power}
      /\ app'.byCons = st.byCons /\ app'.records = st.records
  BY <1>1, UpdatedFields
<1>3. ~lost => Sole(app)'
  BY <1>1, <1>2 DEF Sole
<1>4. ~lost => args'.key \in app'.signing /\ voters' = {args'.key}
  BY <1>1, <1>2 DEF Sole
<1>5. voters' \subseteq Keys
  BY <1>1 DEF Shape
<1>6. blocks' \in 0 .. MaxBlocks
  <2>1. blocks \in 0 .. MaxBlocks /\ blocks < MaxBlocks /\ blocks' = blocks + 1
    BY <1>1 DEF Inv, Typed
  <2>2. QED
    BY <2>1, ArgumentsAssumption
<1>7. Typed'
  BY <1>1, <1>2, <1>5, <1>6 DEF Inv, Typed
<1>8. QED
  BY <1>1, <1>2, <1>3, <1>4, <1>7 DEF Inv, Minting, Phases, Signed

LEMMA PowerChanged ==
  ASSUME NEW st, Shape(st), NEW power \in SUBSET Operators
  PROVE  LET new == [st EXCEPT !.power = power] IN
         /\ Shape(new) /\ new.power = power /\ new.minter = st.minter
         /\ new.validators = st.validators /\ new.last = st.last /\ new.queue = st.queue
         /\ new.byCons = st.byCons /\ new.signing = st.signing /\ new.records = st.records
<1> DEFINE new == [st EXCEPT !.power = power]
<1>1. /\ new.power = power /\ new.minter = st.minter
      /\ new.validators = st.validators /\ new.last = st.last /\ new.queue = st.queue
      /\ new.byCons = st.byCons /\ new.signing = st.signing /\ new.records = st.records
      /\ new \in [validators : {st.validators}, power : SUBSET Operators, last : SUBSET Operators,
                  queue : SUBSET Operators, byCons : {st.byCons}, signing : SUBSET Keys,
                  records : SUBSET Operators, supply : Nat, balance : [Accounts -> Nat], minter : Nat]
  BY DEF Shape
<1> HIDE DEF new
<1>2. Shape(new)
  BY <1>1 DEF Shape
<1>3. QED
  BY <1>1, <1>2 DEF new

(* The stores after the transactions of a block, whichever they are.       *)
BlockOn(st) == /\ Shape(st) /\ st.minter = 0
               /\ st.power \subseteq DOMAIN st.validators
               /\ st.validators = app.validators /\ st.last = app.last /\ st.queue = app.queue
               /\ st.byCons = app.byCons /\ st.signing = app.signing /\ st.records = app.records

LEMMA CommitInv ==
  ASSUME Inv, phase \in {"chain", "started"}, ~BlockHalts, NEW st, BlockOn(st),
         app.power = {args.operator} /\ DOMAIN app.validators = {args.operator}
           => st.power = {args.operator},
         NEW mature, CommitBlock(st, mature)
  PROVE  Inv'
<1>1. CASE phase = "chain"
  <2>1. Resolved(app)
    BY <1>1 DEF Inv, Phases
  <2>2. st.power \cup st.last \cup st.queue \subseteq DOMAIN st.validators
    BY <2>1 DEF Resolved, BlockOn
  <2>3. \A v \in DOMAIN st.validators :
          /\ st.validators[v].cons \in DOMAIN st.byCons
          /\ st.byCons[st.validators[v].cons] \in DOMAIN st.validators
    BY <2>1 DEF Resolved, BlockOn
  <2>4. QED
    BY <1>1, <2>2, <2>3, CommitKeepsOldChain DEF BlockOn
<1>2. CASE phase = "started"
  <2>1. ~lost => Sole(app) /\ args.key \in app.signing
    BY <1>2 DEF Inv, Phases, BlockHalts
  <2>2. ~lost => Sole(st) /\ args.key \in st.signing
    BY <2>1 DEF Sole, BlockOn
  <2>3. QED
    BY <1>2, <2>2, CommitKeepsNewChain DEF BlockOn
<1>3. QED
  BY <1>1, <1>2

LEMMA BlockInv == ASSUME Inv, Block PROVE Inv'
<1>1. phase \in {"chain", "started"} /\ ~BlockHalts /\ Shape(app) /\ app.minter = 0
  BY DEF Block, Inv, Typed, Minting
<1>2. app.power \subseteq DOMAIN app.validators /\ DOMAIN app.validators \subseteq Operators
  BY <1>1 DEF BlockHalts, Unresolved, Shape
<1>3. PICK mature \in SUBSET app.queue :
       \/ CommitBlock(app, mature)
       \/ \E v \in DOMAIN app.validators :
            \/ CommitBlock([app EXCEPT !.power = @ \cup {v}], mature)
            \/ /\ app.power # {v}
               /\ CommitBlock([app EXCEPT !.power = @ \ {v}], mature)
  BY DEF Block
<1>4. CASE CommitBlock(app, mature)
  <2>1. BlockOn(app)
    BY <1>1, <1>2 DEF BlockOn
  <2>2. QED
    BY <1>1, <1>4, <2>1, CommitInv
<1>5. ASSUME NEW power \in SUBSET Operators, power \subseteq DOMAIN app.validators,
             app.power = {args.operator} /\ DOMAIN app.validators = {args.operator}
               => power = {args.operator},
             CommitBlock([app EXCEPT !.power = power], mature)
      PROVE  Inv'
  <2> DEFINE st == [app EXCEPT !.power = power]
  <2>1. /\ Shape(st) /\ st.power = power /\ st.minter = app.minter
        /\ st.validators = app.validators /\ st.last = app.last /\ st.queue = app.queue
        /\ st.byCons = app.byCons /\ st.signing = app.signing /\ st.records = app.records
    BY <1>1, PowerChanged
  <2>2. CommitBlock(st, mature)
    BY <1>5
  <2> HIDE DEF st
  <2>3. BlockOn(st)
    BY <1>1, <1>5, <2>1 DEF BlockOn
  <2>4. QED
    BY <1>1, <1>5, <2>1, <2>2, <2>3, CommitInv
<1>6. ASSUME NEW v \in DOMAIN app.validators, CommitBlock([app EXCEPT !.power = @ \cup {v}], mature)
      PROVE  Inv'
  <2>1. CommitBlock([app EXCEPT !.power = app.power \cup {v}], mature)
    BY <1>6
  <2>2. QED
    BY <1>2, <1>5, <2>1
<1>7. ASSUME NEW v \in DOMAIN app.validators, app.power # {v},
             CommitBlock([app EXCEPT !.power = @ \ {v}], mature)
      PROVE  Inv'
  <2>1. CommitBlock([app EXCEPT !.power = app.power \ {v}], mature)
    BY <1>7
  <2>2. QED
    BY <1>2, <1>5, <1>7, <2>1
<1>8. QED
  BY <1>3, <1>4, <1>6, <1>7

(***************************************************************************)
(* The command                                                             *)
(***************************************************************************)
LEMMA StartInv ==
  ASSUME Inv, NEW operator \in Operators, NEW key \in Keys, NEW fund, Start(operator, key, fund)
  PROVE  Inv'
<1>1. /\ phase' = "stores" /\ commands < MaxCommands /\ commands' = commands + 1 /\ app' = disk
      /\ args' = [operator |-> operator, key |-> key, fund |-> fund]
      /\ lost' = FALSE /\ unsigned' = FALSE /\ UNCHANGED <<disk, voters, blocks>>
  BY DEF Start
<1>2. commands' \in 0 .. MaxCommands
  <2>1. commands \in 0 .. MaxCommands /\ commands < MaxCommands /\ commands' = commands + 1
    BY <1>1 DEF Inv, Typed
  <2>2. QED
    BY <2>1, ArgumentsAssumption
<1>3. args' \in [operator : Operators, key : Keys, fund : {args'.fund}]
  BY <1>1
<1>4. Typed' /\ Minting'
  BY <1>1, <1>2, <1>3 DEF Inv, Typed, Minting
<1>5. QED
  BY <1>1, <1>4 DEF Inv, Phases

LEMMA RemoveValidatorsInv == ASSUME Inv, RemoveValidators PROVE Inv'
<1>1. /\ phase = "stores" /\ phase' = "validator" /\ app' = Emptied(app)
      /\ UNCHANGED <<disk, args, voters, lost, unsigned, blocks, commands>>
  BY DEF RemoveValidators
<1>2. Shape(app)
  BY DEF Inv, Typed
<1>3. /\ app'.validators = [v \in {} |-> 0] /\ Removed(app')
      /\ app'.byCons = app.byCons /\ app'.minter = app.minter
      /\ app' \in [validators : {app'.validators}, power : SUBSET Operators, last : SUBSET Operators,
                   queue : SUBSET Operators, byCons : {app.byCons}, signing : SUBSET Keys,
                   records : SUBSET Operators, supply : Nat, balance : [Accounts -> Nat], minter : Nat]
  BY <1>1, <1>2 DEF Shape, Emptied, Removed
<1>4. Shape(app')
  <2>1. app'.validators \in [DOMAIN app'.validators -> [cons : Keys, bonded : BOOLEAN]]
        /\ DOMAIN app'.validators \subseteq Operators
    BY <1>3
  <2>2. QED
    BY <1>2, <1>3, <2>1 DEF Shape
<1>5. QED
  BY <1>1, <1>3, <1>4 DEF Inv, Typed, Minting, Phases, Removed

LEMMA AddValidatorInv == ASSUME Inv, AddValidator PROVE Inv'
<1>1. /\ phase = "validator" /\ phase' = "records"
      /\ UNCHANGED <<disk, args, voters, lost, unsigned, blocks, commands>>
  BY DEF AddValidator
<1>2. Shape(app) /\ app.queue = {} /\ app.minter = 0 /\ args.operator \in Operators /\ args.key \in Keys
  BY <1>1 DEF Inv, Typed, Phases, Removed, Minting
<1> DEFINE vals == [v \in {args.operator} |-> [cons |-> args.key, bonded |-> TRUE]]
           keys == [k \in DOMAIN app.byCons \cup {args.key} |->
                      IF k = args.key THEN args.operator ELSE app.byCons[k]]
<1>3. app' = [app EXCEPT !.validators = vals, !.byCons = keys, !.power = {args.operator},
                         !.last = {args.operator}, !.records = app.records \cup {args.operator}]
  BY Zenon DEF AddValidator
<1>4. /\ vals \in [{args.operator} -> [cons : Keys, bonded : BOOLEAN]]
      /\ vals[args.operator].cons = args.key /\ vals[args.operator].bonded
  BY <1>2
<1>5. /\ keys \in [DOMAIN app.byCons \cup {args.key} -> Operators]
      /\ keys[args.key] = args.operator /\ DOMAIN keys \subseteq Keys /\ args.key \in DOMAIN keys
      /\ DOMAIN keys = DOMAIN app.byCons \cup {args.key}
  BY <1>2 DEF Shape
<1>6. DOMAIN vals = {args.operator}
  OBVIOUS
<1> HIDE DEF vals, keys
<1>7. /\ app'.validators = vals /\ app'.byCons = keys /\ app'.power = {args.operator}
      /\ app'.last = {args.operator} /\ app'.records = app.records \cup {args.operator}
      /\ app'.queue = {} /\ app'.minter = 0
      /\ app' \in [validators : {vals}, power : SUBSET Operators, last : SUBSET Operators,
                   queue : SUBSET Operators, byCons : {keys}, signing : SUBSET Keys,
                   records : SUBSET Operators, supply : Nat, balance : [Accounts -> Nat], minter : Nat]
  BY <1>2, <1>3 DEF Shape
<1>8. Shape(app')
  BY <1>2, <1>4, <1>5, <1>6, <1>7 DEF Shape
<1>9. Sole(app)'
  BY <1>1, <1>4, <1>5, <1>6, <1>7 DEF Sole
<1>10. QED
  BY <1>1, <1>7, <1>8, <1>9 DEF Inv, Typed, Minting, Phases

(* The records are set, the signing info is or is known not to be.         *)
LEMMA RecordsInv ==
  ASSUME Inv, phase = "records", phase' = "fund", UNCHANGED <<disk, args, voters, lost, blocks, commands>>,
         \/ app' = Signing(Recorded(app)) /\ unsigned' = unsigned
         \/ app' = Recorded(app) /\ unsigned' = TRUE
  PROVE  Inv'
<1>1. Shape(app) /\ Sole(app) /\ app.minter = 0 /\ args.operator \in Operators /\ args.key \in Keys
  BY DEF Inv, Typed, Phases, Minting
<1>2. /\ app'.validators = app.validators /\ app'.byCons = app.byCons /\ app'.power = app.power
      /\ app'.last = app.last /\ app'.queue = app.queue /\ app'.minter = 0
      /\ app'.records = app.records \cup {args.operator}
      /\ unsigned' \/ app'.signing = app.signing \cup {args.key}
      /\ app' \in [validators : {app.validators}, power : SUBSET Operators, last : SUBSET Operators,
                   queue : SUBSET Operators, byCons : {app.byCons}, signing : SUBSET Keys,
                   records : SUBSET Operators, supply : Nat, balance : [Accounts -> Nat], minter : Nat]
  <2>1. CASE app' = Signing(Recorded(app))
    BY <1>1, <2>1 DEF Shape, Recorded, Signing
  <2>2. CASE app' = Recorded(app) /\ unsigned' = TRUE
    BY <1>1, <2>2 DEF Shape, Recorded
  <2>3. QED BY <2>1, <2>2
<1>3. Shape(app')
  BY <1>1, <1>2 DEF Shape
<1>4. Sole(app)'
  BY <1>1, <1>2 DEF Sole
<1>5. Signed(app)'
  BY <1>2 DEF Signed
<1>6. unsigned' \in BOOLEAN
  BY DEF Inv, Typed
<1>7. QED
  BY <1>2, <1>3, <1>4, <1>5, <1>6 DEF Inv, Typed, Minting, Phases

LEMMA AddRecordsInv == ASSUME Inv, AddRecords PROVE Inv'
BY RecordsInv DEF AddRecords

LEMMA SigningInfoFailsInv == ASSUME Inv, SigningInfoFails PROVE Inv'
BY RecordsInv DEF SigningInfoFails

(* Coins move, and nothing else does.                                      *)
CoinsMoved ==
  /\ app'.validators = app.validators /\ app'.byCons = app.byCons /\ app'.power = app.power
  /\ app'.last = app.last /\ app'.queue = app.queue
  /\ app'.records = app.records /\ app'.signing = app.signing
  /\ app' \in [validators : {app.validators}, power : SUBSET Operators, last : SUBSET Operators,
               queue : SUBSET Operators, byCons : {app.byCons}, signing : SUBSET Keys,
               records : SUBSET Operators, supply : Nat, balance : [Accounts -> Nat], minter : Nat]

LEMMA CoinsInv ==
  ASSUME Inv, phase \in {"fund", "send"}, phase' \in {"fund", "send"},
         args'.operator = args.operator, args'.key = args.key,
         args' \in [operator : Operators, key : Keys, fund : {args'.fund}],
         UNCHANGED <<disk, voters, lost, unsigned, blocks, commands>>,
         CoinsMoved, app'.minter = IF phase' = "send" THEN 1 ELSE 0
  PROVE  Inv'
<1>1. Shape(app) /\ Sole(app) /\ Signed(app)
  BY DEF Inv, Typed, Phases
<1>2. Shape(app')
  BY <1>1 DEF Shape, CoinsMoved
<1>3. Sole(app)' /\ Signed(app)'
  BY <1>1 DEF Sole, Signed, CoinsMoved
<1>4. QED
  BY <1>2, <1>3 DEF Inv, Typed, Minting, Phases

LEMMA CoinsWritten ==
  ASSUME Shape(app), NEW supply \in Nat, NEW balance \in [Accounts -> Nat], NEW minter \in Nat,
         app' = [app EXCEPT !.supply = supply, !.balance = balance, !.minter = minter]
  PROVE  CoinsMoved /\ app'.minter = minter
BY DEF Shape, CoinsMoved

LEMMA MintGrantInv == ASSUME Inv, MintGrant PROVE Inv'
<1>1. /\ phase = "fund" /\ phase' = "send"
      /\ app' = [app EXCEPT !.supply = @ + 1, !.minter = @ + 1]
      /\ UNCHANGED <<disk, args, voters, lost, unsigned, blocks, commands>>
  BY DEF MintGrant, Minted
<1>2. Shape(app) /\ app.minter = 0
  BY <1>1 DEF Inv, Typed, Minting
<1>3. CoinsMoved /\ app'.minter = 1
  <2> DEFINE supply == app.supply + 1
             minter == app.minter + 1
             balance == app.balance
  <2>1. supply \in Nat /\ minter \in Nat /\ minter = 1 /\ balance \in [Accounts -> Nat]
    BY <1>2 DEF Shape
  <2>2. app' = [app EXCEPT !.supply = supply, !.minter = minter]
    BY <1>1, Zenon
  <2> HIDE DEF supply, minter
  <2>3. app' = [app EXCEPT !.supply = supply, !.balance = balance, !.minter = minter]
    BY <1>2, <2>2 DEF Shape
  <2> HIDE DEF balance
  <2>4. QED
    BY <1>2, <2>1, <2>3, CoinsWritten
<1>4. args' \in [operator : Operators, key : Keys, fund : {args'.fund}]
  BY <1>1 DEF Inv, Typed
<1>5. args'.operator = args.operator /\ args'.key = args.key
  BY <1>1
<1>6. QED
  BY <1>1, <1>3, <1>4, <1>5, CoinsInv

LEMMA SendGrantInv == ASSUME Inv, SendGrant PROVE Inv'
<1>1. /\ phase = "send" /\ phase' = "fund" /\ Head(args.fund) \in Accounts
      /\ app' = [app EXCEPT !.minter = @ - 1, !.balance[Head(args.fund)] = @ + 1]
      /\ args' = [args EXCEPT !.fund = Tail(@)]
      /\ UNCHANGED <<disk, voters, lost, unsigned, blocks, commands>>
  BY DEF SendGrant
<1>2. Shape(app) /\ app.minter = 1
  BY <1>1 DEF Inv, Typed, Minting
<1>3. CoinsMoved /\ app'.minter = 0
  <2> DEFINE supply == app.supply
             minter == app.minter - 1
             balance == [app.balance EXCEPT ![Head(args.fund)] = @ + 1]
  <2>1. supply \in Nat /\ minter \in Nat /\ minter = 0 /\ balance \in [Accounts -> Nat]
    BY <1>1, <1>2 DEF Shape
  <2>2. app' = [app EXCEPT !.minter = minter, !.balance = balance]
    BY <1>1, Zenon
  <2> HIDE DEF minter, balance
  <2>3. app' = [app EXCEPT !.supply = supply, !.balance = balance, !.minter = minter]
    BY <1>2, <2>2 DEF Shape
  <2> HIDE DEF supply
  <2>4. QED
    BY <1>2, <2>1, <2>3, CoinsWritten
<1>4. /\ args'.operator = args.operator /\ args'.key = args.key
      /\ args' \in [operator : Operators, key : Keys, fund : {args'.fund}]
  BY <1>1 DEF Inv, Typed
<1>5. QED
  BY <1>1, <1>3, <1>4, CoinsInv

LEMMA ExitInv ==
  ASSUME Inv, phase' = "exited", app' = disk, UNCHANGED <<disk, args, voters, lost, unsigned, blocks, commands>>
  PROVE  Inv'
BY DEF Inv, Typed, Minting, Phases

LEMMA StartNodeInv == ASSUME Inv, StartNode PROVE Inv'
<1>1. /\ phase = "fund" /\ phase' = "started" /\ voters' = {args.key}
      /\ UNCHANGED <<app, disk, args, lost, unsigned, blocks, commands>>
  BY DEF StartNode
<1>2. Sole(app) /\ Signed(app) /\ args.key \in Keys
  BY <1>1 DEF Inv, Phases, Typed
<1>3. Sole(app)' /\ Signed(app)'
  BY <1>1, <1>2 DEF Sole, Signed
<1>4. QED
  BY <1>1, <1>2, <1>3 DEF Inv, Typed, Minting, Phases

(* A restart changes the stores or it does not, and says so.               *)
LEMMA RestartInv == ASSUME Inv, Restart PROVE Inv'
<1>1. /\ phase = "started" /\ phase' = "started" /\ app' = disk /\ lost' = (lost \/ app # disk)
      /\ UNCHANGED <<disk, args, voters, unsigned, blocks, commands>>
  BY DEF Restart
<1>2. ~lost' => ~lost /\ app' = app
  BY <1>1
<1>3. ~lost' => Sole(app)' /\ Signed(app)' /\ voters' = {args'.key}
  BY <1>1, <1>2 DEF Inv, Phases, Sole, Signed
<1>4. QED
  BY <1>1, <1>3 DEF Inv, Typed, Minting, Phases

LEMMA StepInv == ASSUME Inv, [Next]_vars PROVE Inv'
<1>1. CASE UNCHANGED vars
  BY <1>1 DEF vars, Inv, Typed, Minting, Phases, Resolved, Votes, Removed, Sole, Signed
<1>2. ASSUME NEW operator \in Operators, NEW key \in Keys, NEW fund \in FundLists,
             Start(operator, key, fund)
      PROVE  Inv'
  BY <1>2, StartInv
<1>3. CASE BadAddressExits \/ ErrorExits
  BY <1>3, ExitInv DEF BadAddressExits, ErrorExits
<1>4. QED
  BY <1>1, <1>2, <1>3, BlockInv, RestartInv, RemoveValidatorsInv, AddValidatorInv, AddRecordsInv,
     SigningInfoFailsInv, MintGrantInv, SendGrantInv, StartNodeInv DEF Next, Proceed

(* The stores fit the phase of the command in every reachable state.       *)
THEOREM InPlaceInvariant == Spec => []Inv
<1>1. QED
  BY InitInv, StepInv, PTL DEF Spec

(* The type invariant.                                                     *)
THEOREM InPlaceTypes == Spec => []TypeOK
<1>1. ASSUME NEW st, Shape(st) PROVE StoresOK(st)
  <2>1. \A v \in DOMAIN st.validators : st.validators[v] \in [cons : Keys, bonded : BOOLEAN]
    BY <1>1 DEF Shape
  <2>2. Range(st.byCons) \subseteq Operators
    BY <1>1 DEF Shape, Range
  <2>3. QED
    BY <1>1, <2>1, <2>2 DEF Shape, StoresOK
<1>2. Inv => TypeOK
  BY <1>1 DEF Inv, Typed, TypeOK
<1>3. QED
  BY <1>2, InPlaceInvariant, PTL

(* The chain that the command started knows the new validator alone under  *)
(* every index, also after any blocks.                                     *)
THEOREM OldSetIsRemoved == Spec => []OldSetRemoved
<1>1. Inv => OldSetRemoved
  BY DEF Inv, Phases, Sole, OldSetRemoved
<1>2. QED
  BY <1>1, InPlaceInvariant, PTL

(* A chain that runs, with any validators or with the new one, resolves the*)
(* votes and indexes of its next block, unless the node was killed before  *)
(* the first; what it may lack is the signing info whose error was dropped.*)
THEOREM BlocksGoOn == Spec => []NextBlockPossible
<1>1. Inv => NextBlockPossible
  <2> SUFFICES ASSUME Inv, phase \in {"chain", "started"}, ~lost
               PROVE  ~Unresolved /\ \A k \in voters \ app.signing : unsigned /\ k = args.key
    BY DEF NextBlockPossible
  <2>1. CASE phase = "chain"
    BY <2>1, NoHaltInOldChain DEF Inv, Phases, BlockHalts
  <2>2. CASE phase = "started"
    BY <2>2, NewChainResolved DEF Inv, Phases, Signed
  <2>3. QED BY <2>1, <2>2
<1>2. QED
  BY <1>1, InPlaceInvariant, PTL

(***************************************************************************)
(* Sums of balances.                                                       *)
(***************************************************************************)

(* A family of subsets of a finite set has a minimal member: induction over*)
(* subsets.                                                                *)
LEMMA MinimalSubset ==
  ASSUME NEW S, IsFiniteSet(S), NEW Family \in SUBSET (SUBSET S), Family # {}
  PROVE  \E T \in Family : \A U \in Family : U \subseteq T => U = T
<1> DEFINE R == StrictSubsetOrdering(S)
<1>1. IsWellFoundedOn(R, SUBSET S)
  BY FS_StrictSubsetOrderingWellFounded, FS_FiniteSubsetsOfFinite
<1>2. \A T, U \in SUBSET S : <<U, T>> \in R <=> U \subseteq T /\ U # T
  BY DEF StrictSubsetOrdering
<1> HIDE DEF R
<1>3. \E T \in Family : \A U \in Family : <<U, T>> \notin R
  BY <1>1, WFMin
<1> QED
  BY <1>2, <1>3

(* The sums of b over the subsets of S, as the fold of Total takes them.   *)
Picked(s) == CHOOSE x \in s : TRUE

Sums(f, b, S) ==
  \A s \in SUBSET S : f[s] = IF s = {} THEN 0 ELSE b[Picked(s)] + f[s \ {Picked(s)}]

LEMMA PickedIn == ASSUME NEW s, s # {} PROVE Picked(s) \in s
BY DEF Picked

(* What one knows of a sum, one knows of all: of the first set for which it*)
(* is unknown the fold takes one away.                                     *)
LEMMA SmallerSet ==
  ASSUME NEW S, IsFiniteSet(S), NEW Known \in SUBSET (SUBSET S), {} \in Known,
         \A s \in SUBSET S : s # {} /\ (s \ {Picked(s)}) \in Known => s \in Known
  PROVE  Known = SUBSET S
<1> SUFFICES ASSUME (SUBSET S) \ Known # {} PROVE FALSE
  OBVIOUS
<1>1. PICK T \in (SUBSET S) \ Known : \A U \in (SUBSET S) \ Known : U \subseteq T => U = T
  <2> DEFINE Family == (SUBSET S) \ Known
  <2>1. Family \in SUBSET (SUBSET S) /\ Family # {}
    OBVIOUS
  <2> HIDE DEF Family
  <2>2. \E T \in Family : \A U \in Family : U \subseteq T => U = T
    BY <2>1, MinimalSubset
  <2>3. QED BY <2>2 DEF Family
<1>2. T # {} /\ Picked(T) \in T
  BY PickedIn
<1>3. T \ {Picked(T)} \in SUBSET S /\ T \ {Picked(T)} # T
  BY <1>2
<1>4. T \ {Picked(T)} \in Known
  BY <1>1, <1>3
<1>5. QED BY <1>1, <1>2, <1>4

LEMMA SumsAgree ==
  ASSUME NEW S, IsFiniteSet(S), NEW b, NEW f, NEW g, NEW U \in SUBSET S, NEW V \in SUBSET S,
         Sums(f, b, U), Sums(g, b, V)
  PROVE  \A s \in SUBSET (U \cap V) : f[s] = g[s]
<1> DEFINE W == U \cap V
           Known == {s \in SUBSET W : f[s] = g[s]}
<1>1. IsFiniteSet(W)
  BY FS_Subset
<1>2. {} \in Known
  BY DEF Sums
<1>3. ASSUME NEW s \in SUBSET W, s # {}, (s \ {Picked(s)}) \in Known PROVE s \in Known
  BY <1>3 DEF Sums
<1>4. Known \in SUBSET (SUBSET W)
  OBVIOUS
<1> HIDE DEF Known, W
<1>5. Known = SUBSET W
  BY <1>1, <1>2, <1>3, <1>4, SmallerSet
<1>6. QED BY <1>5 DEF Known, W

(* The sums exist.                                                         *)
LEMMA SumsExist ==
  ASSUME NEW S, IsFiniteSet(S), NEW b \in [S -> Int]
  PROVE  \E f \in [SUBSET S -> Int] : Sums(f, b, S)
<1> DEFINE Has(T) == \E f \in [SUBSET T -> Int] : Sums(f, b, T)
           Family == {T \in SUBSET S : ~Has(T)}
<1> SUFFICES ASSUME Family # {} PROVE FALSE
  OBVIOUS
<1>1. PICK T \in Family : \A U \in Family : U \subseteq T => U = T
  <2>1. Family \in SUBSET (SUBSET S)
    OBVIOUS
  <2> HIDE DEF Family
  <2>2. QED BY <2>1, MinimalSubset
<1>2. T \in SUBSET S /\ ~Has(T) /\ IsFiniteSet(T)
  BY <1>1, FS_Subset
<1>3. \A U \in SUBSET T : U # T => Has(U)
  BY <1>1, <1>2
<1> DEFINE sol == [U \in SUBSET T |-> CHOOSE f \in [SUBSET U -> Int] : Sums(f, b, U)]
<1>4. ASSUME NEW U \in SUBSET T, U # T
      PROVE  sol[U] \in [SUBSET U -> Int] /\ Sums(sol[U], b, U)
  BY <1>3, <1>4
<1> HIDE DEF sol
<1>5. ASSUME NEW U \in SUBSET T, U # T, NEW V \in SUBSET U
      PROVE  sol[V][V] = sol[U][V]
  <2>1. V \in SUBSET T /\ V # T /\ V \in SUBSET (U \cap V)
    BY <1>5
  <2>2. Sums(sol[U], b, U) /\ Sums(sol[V], b, V)
    BY <1>4, <1>5, <2>1
  <2>3. QED BY <1>2, <1>5, <2>1, <2>2, SumsAgree
<1> DEFINE p == Picked(T)
           top == IF T = {} THEN 0 ELSE b[p] + sol[T \ {p}][T \ {p}]
           f == [s \in SUBSET T |-> IF s = T THEN top ELSE sol[s][s]]
<1>6. T # {} => p \in T /\ T \ {p} \in SUBSET T /\ T \ {p} # T
  BY PickedIn
<1>7. ASSUME NEW U \in SUBSET T, U # T PROVE sol[U][U] \in Int
  BY <1>4, <1>7
<1>8. top \in Int
  BY <1>2, <1>6, <1>7
<1> HIDE DEF top, p
<1>9. f \in [SUBSET T -> Int]
  BY <1>7, <1>8
<1>10. ASSUME NEW s \in SUBSET T
       PROVE  f[s] = IF s = {} THEN 0 ELSE b[Picked(s)] + f[s \ {Picked(s)}]
  <2>1. CASE s = T
    <3>1. T # {} => f[T \ {p}] = sol[T \ {p}][T \ {p}]
      BY <1>6
    <3>2. f[T] = top
      OBVIOUS
    <3>3. QED BY <2>1, <3>1, <3>2 DEF top, p
  <2>2. CASE s # T
    <3>1. f[s] = sol[s][s] /\ Sums(sol[s], b, s) /\ s \in SUBSET s
      BY <1>4, <2>2
    <3>2. sol[s][s] = IF s = {} THEN 0 ELSE b[Picked(s)] + sol[s][s \ {Picked(s)}]
      BY <3>1 DEF Sums
    <3>3. CASE s = {}
      BY <3>1, <3>2, <3>3
    <3>4. CASE s # {}
      <4> DEFINE r == s \ {Picked(s)}
      <4>1. r \in SUBSET s /\ r \in SUBSET T /\ r # T
        BY <3>4, PickedIn
      <4>2. f[r] = sol[r][r]
        BY <4>1
      <4>3. sol[r][r] = sol[s][r]
        BY <1>5, <2>2, <4>1
      <4>4. QED BY <3>1, <3>2, <3>4, <4>2, <4>3
    <3>5. QED BY <3>3, <3>4
  <2>3. QED BY <2>1, <2>2
<1> HIDE DEF f
<1>11. Sums(f, b, T)
  BY <1>10 DEF Sums
<1>12. QED BY <1>2, <1>9, <1>11

(* Total takes them.                                                       *)
LEMMA TotalSums ==
  ASSUME NEW b \in [Accounts -> Int]
  PROVE  \E f \in [SUBSET Accounts -> Int] : Sums(f, b, Accounts) /\ Total(b) = f[Accounts]
<1> DEFINE Fold(f) == f = [s \in SUBSET Accounts |->
                             IF s = {} THEN 0
                             ELSE LET x == CHOOSE x \in s : TRUE IN b[x] + f[s \ {x}]]
           F == CHOOSE f : Fold(f)
<1>1. Total(b) = F[Accounts]
  BY DEF Total, MapThenSumSet, MapThenFoldSet
<1>2. PICK g \in [SUBSET Accounts -> Int] : Sums(g, b, Accounts)
  BY SumsExist, ArgumentsAssumption DEF ArgumentsAssumption
<1>3. Fold(g)
  BY <1>2 DEF Sums, Picked
<1>4. Fold(F)
  BY <1>3
<1>5. Sums(F, b, Accounts) /\ F = [s \in SUBSET Accounts |-> F[s]]
  BY <1>4 DEF Sums, Picked
<1> HIDE DEF F, Fold
<1>6. \A s \in SUBSET (Accounts \cap Accounts) : F[s] = g[s]
  BY <1>2, <1>5, SumsAgree, ArgumentsAssumption DEF ArgumentsAssumption
<1>7. F \in [SUBSET Accounts -> Int]
  BY <1>2, <1>5, <1>6
<1>8. QED BY <1>1, <1>5, <1>7


(* A coin more for one account is a coin more in all.                      *)
LEMMA TotalPlusOne ==
  ASSUME NEW b \in [Accounts -> Nat], NEW a \in Accounts
  PROVE  Total([b EXCEPT ![a] = @ + 1]) = Total(b) + 1
<1> DEFINE c == [b EXCEPT ![a] = @ + 1]
<1>1. b \in [Accounts -> Int] /\ c \in [Accounts -> Int] /\ IsFiniteSet(Accounts)
  BY ArgumentsAssumption DEF ArgumentsAssumption
<1>2. PICK f \in [SUBSET Accounts -> Int] : Sums(f, b, Accounts) /\ Total(b) = f[Accounts]
  BY <1>1, TotalSums
<1>3. PICK g \in [SUBSET Accounts -> Int] : Sums(g, c, Accounts) /\ Total(c) = g[Accounts]
  BY <1>1, TotalSums
<1> DEFINE More(s) == IF a \in s THEN 1 ELSE 0
           Known == {s \in SUBSET Accounts : g[s] = f[s] + More(s)}
<1>4. Known \in SUBSET (SUBSET Accounts) /\ {} \in Known
  <2>1. f[{}] = 0 /\ g[{}] = 0
    BY <1>2, <1>3 DEF Sums
  <2>2. More({}) = 0
    OBVIOUS
  <2>3. QED BY <2>1, <2>2
<1>5. ASSUME NEW s \in SUBSET Accounts, s # {}, (s \ {Picked(s)}) \in Known PROVE s \in Known
  <2> DEFINE p == Picked(s)
             r == s \ {Picked(s)}
  <2>1. p \in s /\ p \in Accounts /\ r \in SUBSET Accounts
    BY <1>5, PickedIn
  <2>2. f[s] = b[p] + f[r] /\ g[s] = c[p] + g[r] /\ g[r] = f[r] + More(r)
    BY <1>2, <1>3, <1>5 DEF Sums
  <2>3. /\ p = a => c[p] = b[p] + 1 /\ More(r) = 0 /\ More(s) = 1
        /\ p # a => c[p] = b[p] /\ More(r) = More(s)
    BY <2>1
  <2>4. b[p] \in Int /\ c[p] \in Int /\ f[r] \in Int /\ g[r] \in Int /\ More(r) \in Int
    BY <1>1, <1>2, <1>3, <2>1
  <2> HIDE DEF More, p, r, c
  <2>5. g[s] = f[s] + More(s)
    BY <2>2, <2>3, <2>4
  <2>6. QED BY <2>5
<1> HIDE DEF Known, c
<1>6. Known = SUBSET Accounts
  BY <1>1, <1>4, <1>5, SmallerSet
<1>7. g[Accounts] = f[Accounts] + 1
  BY <1>6 DEF Known
<1>8. QED BY <1>2, <1>3, <1>7 DEF c

LEMMA TotalIsInteger == ASSUME NEW b \in [Accounts -> Nat] PROVE Total(b) \in Int
<1>1. b \in [Accounts -> Int]
  OBVIOUS
<1>2. PICK f \in [SUBSET Accounts -> Int] : Total(b) = f[Accounts]
  BY <1>1, TotalSums
<1>3. QED BY <1>2

LEMMA TotalOfNothing == Total([a \in Accounts |-> 0]) = 0
<1> DEFINE c == [a \in Accounts |-> 0]
<1>1. c \in [Accounts -> Int] /\ IsFiniteSet(Accounts)
  BY ArgumentsAssumption DEF ArgumentsAssumption
<1>2. PICK f \in [SUBSET Accounts -> Int] : Sums(f, c, Accounts) /\ Total(c) = f[Accounts]
  BY <1>1, TotalSums
<1> DEFINE Known == {s \in SUBSET Accounts : f[s] = 0}
<1>3. Known \in SUBSET (SUBSET Accounts) /\ {} \in Known
  BY <1>2 DEF Sums
<1>4. ASSUME NEW s \in SUBSET Accounts, s # {}, (s \ {Picked(s)}) \in Known PROVE s \in Known
  <2>1. Picked(s) \in Accounts
    BY <1>4, PickedIn
  <2>2. f[s] = c[Picked(s)] + f[s \ {Picked(s)}]
    BY <1>2, <1>4 DEF Sums
  <2>3. QED BY <1>4, <2>1, <2>2
<1> HIDE DEF Known, c
<1>5. Known = SUBSET Accounts
  BY <1>1, <1>3, <1>4, SmallerSet
<1>6. QED BY <1>2, <1>5 DEF Known, c

(***************************************************************************)
(* Every coin lies in an account or, between two steps of the command,     *)
(* with the mint module.                                                   *)
(***************************************************************************)
Balanced(st) == st.supply = Total(st.balance) + st.minter

Backed == Balanced(app) /\ Balanced(disk)

SameCoins(st, new) ==
  new.supply = st.supply /\ new.balance = st.balance /\ new.minter = st.minter

LEMMA SameCoinsBalanced ==
  ASSUME NEW st, NEW new, Balanced(st), SameCoins(st, new)
  PROVE  Balanced(new)
BY DEF Balanced, SameCoins

LEMMA InitBacked == Init => Backed
<1> SUFFICES ASSUME Init PROVE Backed
  OBVIOUS
<1>1. app.supply = 0 /\ app.balance = [a \in Accounts |-> 0] /\ app.minter = 0 /\ disk = app
  BY DEF Init
<1>2. QED
  BY <1>1, TotalOfNothing DEF Backed, Balanced

(* A block moves no coin, whatever it does to the power index.             *)
LEMMA BlockBacked == ASSUME Inv, Backed, Block PROVE Backed'
<1>1. ASSUME NEW st, NEW mature, SameCoins(app, st), CommitBlock(st, mature) PROVE Backed'
  <2>1. app' = Updated(st, mature) /\ disk' = app'
    BY <1>1 DEF CommitBlock
  <2>2. SameCoins(st, Updated(st, mature))
    BY DEF Updated, SameCoins
  <2>3. SameCoins(app, app')
    BY <1>1, <2>1, <2>2 DEF SameCoins
  <2>4. QED
    BY <2>1, <2>3, SameCoinsBalanced DEF Backed
<1>2. \A power : SameCoins(app, [app EXCEPT !.power = power])
  BY DEF SameCoins
<1>3. SameCoins(app, app)
  BY DEF SameCoins
<1>4. PICK mature \in SUBSET app.queue :
       \/ CommitBlock(app, mature)
       \/ \E v \in DOMAIN app.validators :
            \/ CommitBlock([app EXCEPT !.power = @ \cup {v}], mature)
            \/ /\ app.power # {v}
               /\ CommitBlock([app EXCEPT !.power = @ \ {v}], mature)
  BY DEF Block
<1>5. QED
  BY <1>1, <1>2, <1>3, <1>4

(* A grant enters the supply with the mint module and leaves it for its    *)
(* account.                                                                *)
LEMMA MintGrantBacked == ASSUME Inv, Backed, MintGrant PROVE Backed'
<1>1. app' = [app EXCEPT !.supply = @ + 1, !.minter = @ + 1] /\ disk' = disk
  BY DEF MintGrant, Minted
<1>2. Shape(app)
  BY DEF Inv, Typed
<1>3. app'.supply = app.supply + 1 /\ app'.minter = app.minter + 1 /\ app'.balance = app.balance
  BY <1>1, <1>2 DEF Shape
<1>4. app.supply \in Nat /\ app.minter \in Nat /\ app.balance \in [Accounts -> Nat]
  BY <1>2 DEF Shape
<1>5. Total(app.balance) \in Int
  BY <1>4, TotalIsInteger
<1>6. QED
  BY <1>1, <1>3, <1>4, <1>5 DEF Backed, Balanced

LEMMA SendGrantBacked == ASSUME Inv, Backed, SendGrant PROVE Backed'
<1> DEFINE to == Head(args.fund)
<1>1. /\ app' = [app EXCEPT !.minter = @ - 1, !.balance[to] = @ + 1]
      /\ disk' = disk /\ to \in Accounts
  BY DEF SendGrant
<1>2. Shape(app)
  BY DEF Inv, Typed
<1> HIDE DEF to
<1>3. /\ app'.supply = app.supply /\ app'.minter = app.minter - 1
      /\ app'.balance = [app.balance EXCEPT ![to] = @ + 1]
  BY <1>1, <1>2 DEF Shape
<1>4. app.balance \in [Accounts -> Nat] /\ app.minter \in Nat
  BY <1>2 DEF Shape
<1>5. Total(app.balance) \in Int
  BY <1>4, TotalIsInteger
<1>6. Total(app'.balance) = Total(app.balance) + 1
  BY <1>1, <1>3, <1>4, TotalPlusOne
<1>7. QED
  BY <1>1, <1>3, <1>4, <1>5, <1>6 DEF Backed, Balanced

LEMMA StepBacked == ASSUME Inv, Backed, [Next]_vars PROVE Backed'
<1>1. CASE UNCHANGED vars
  BY <1>1 DEF vars, Backed
<1>2. CASE disk' = disk /\ app' \in {app, disk}
  BY <1>2 DEF Backed
<1>3. CASE disk' = disk /\ SameCoins(app, app')
  BY <1>3, SameCoinsBalanced DEF Backed
<1>4. CASE RemoveValidators
  BY <1>3, <1>4 DEF RemoveValidators, Emptied, SameCoins
<1>5. CASE AddValidator
  BY <1>3, <1>5 DEF AddValidator, SameCoins
<1>6. CASE AddRecords \/ SigningInfoFails
  <2>1. \A st : SameCoins(st, Recorded(st))
    BY DEF Recorded, SameCoins
  <2>2. \A st : SameCoins(st, Signing(st))
    BY DEF Signing, SameCoins
  <2>3. SameCoins(app, app')
    BY <1>6, <2>1, <2>2 DEF AddRecords, SigningInfoFails, SameCoins
  <2>4. QED
    BY <1>3, <1>6, <2>3 DEF AddRecords, SigningInfoFails
<1>7. QED
  BY <1>1, <1>2, <1>4, <1>5, <1>6, BlockBacked, MintGrantBacked, SendGrantBacked
     DEF Next, Proceed, Start, Restart, BadAddressExits, ErrorExits, StartNode

(* No run of the command leaves a coin without an owner: what it minted is *)
(* on the disk only once the accounts have it.                             *)
THEOREM GrantsAreBacked == Spec => []GrantsBacked
<1>1. Inv /\ Backed => GrantsBacked
  <2> SUFFICES ASSUME Inv, Backed PROVE GrantsBacked
    OBVIOUS
  <2>1. disk.minter = 0 /\ disk.balance \in [Accounts -> Nat]
    BY DEF Inv, Minting, Typed, Shape
  <2>2. Total(disk.balance) \in Int
    BY <2>1, TotalIsInteger
  <2>3. QED
    BY <2>1, <2>2 DEF Backed, Balanced, GrantsBacked
<1>2. Init /\ [][Next]_vars => []Backed
  BY InitBacked, StepBacked, InPlaceInvariant, PTL DEF Spec
<1>3. QED
  BY <1>1, <1>2, InPlaceInvariant, PTL DEF Spec

=============================================================================
