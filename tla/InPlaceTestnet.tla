---------------------------- MODULE InPlaceTestnet ----------------------------
(***************************************************************************)
(* `stablecoind in-place-testnet`: the command that replaces the validator *)
(* set of an existing chain by one local validator, funds accounts and     *)
(* starts the node (src/chain/cmd/stablecoind/cmd/testnet.go).             *)
(*                                                                         *)
(* initAppForTestnet writes straight into the application's stores; they   *)
(* reach the disk only with the next block, so the model keeps both: app,  *)
(* the stores the process works on, and disk, the stores of the last       *)
(* committed block.  Blocks are EXTERNAL: before the command they give the *)
(* chain its validators in every state, after it they show whether the     *)
(* chain the command left can run.                                         *)
(*                                                                         *)
(* The stores, as a record:                                                *)
(*   validators  operator -> [cons, bonded]                                *)
(*   power       operators in the power index                              *)
(*   last        operators in the last-validators store                    *)
(*   queue       operators in the unbonding validator queue                *)
(*   byCons      consensus address -> operator                             *)
(*   signing     consensus addresses with a signing info                   *)
(*   records     operators with distribution records                       *)
(*   supply      coins in existence, in units of one grant                 *)
(*   balance     account -> coins                                          *)
(*   minter      coins of the mint module account                          *)
(***************************************************************************)
EXTENDS Integers, Sequences, FiniteSets, FiniteSetsExt, Functions

CONSTANTS
  Operators,    \* operator addresses
  Keys,         \* consensus addresses
  Accounts,     \* accounts that can be funded
  Empty,        \* the empty string, no address
  FundLists,    \* values of --accounts-to-fund after strings.Split
  CallsMayFail, \* whether a keeper call of the command may return an error
  MaxBlocks,    \* bound: blocks
  MaxCommands   \* bound: runs of the command

ASSUME ArgumentsAssumption ==
  /\ Empty \notin Accounts /\ IsFiniteSet(Accounts)  \* strings of a fixed length
  /\ FundLists \subseteq Seq(Accounts \cup {Empty})
  /\ CallsMayFail \in BOOLEAN
  /\ MaxBlocks \in Nat /\ MaxCommands \in Nat

VARIABLES
  phase,     \* "chain", a phase of the command, "started" or "exited"
  app,       \* the stores of the process
  disk,      \* the stores of the last committed block
  args,      \* [operator, key, fund] of the running command
  voters,    \* consensus addresses that sign the next block
  lost,      \* the node was killed before its first block
  unsigned,  \* history: the last command could not set the signing info
  blocks, commands

vars == <<phase, app, disk, args, voters, lost, unsigned, blocks, commands>>

Total(balance) == MapThenSumSet(LAMBDA a : balance[a], DOMAIN balance)

(***************************************************************************)
(* Blocks                                                                  *)
(***************************************************************************)

(* A vote of a validator that cannot be found, a stale entry of an index,  *)
(* or a missing signing info stops BeginBlock or EndBlock with an error.   *)
Unresolved ==
  \/ \E k \in voters : \/ k \notin DOMAIN app.byCons
                       \/ app.byCons[k] \notin DOMAIN app.validators
  \/ ~ (app.power \cup app.last \cup app.queue \subseteq DOMAIN app.validators)
  \/ \E v \in app.last \ app.power : ~app.validators[v].bonded

BlockHalts == Unresolved \/ ~ (voters \subseteq app.signing)

(* The validator-set update: the validators of the power index are bonded, *)
(* those that left it start unbonding, some of those in the queue finish.  *)
Updated(st, mature) ==
  LET leaving == st.last \ st.power IN
  [st EXCEPT !.validators = [v \in DOMAIN st.validators |->
                               [st.validators[v] EXCEPT !.bonded = v \in st.power]],
             !.last = st.power,
             !.queue = ((st.queue \cup leaving) \ st.power) \ mature,
             !.signing = @ \cup {st.validators[v].cons : v \in st.power}]

CommitBlock(st, mature) ==
  /\ blocks < MaxBlocks /\ blocks' = blocks + 1
  /\ app' = Updated(st, mature)
  /\ disk' = Updated(st, mature)
  /\ voters' = {st.validators[v].cons : v \in st.power}
  /\ UNCHANGED <<phase, args, lost, unsigned, commands>>

(* A block in which validator v joins the power index or is jailed.        *)
Block ==
  /\ phase \in {"chain", "started"} /\ ~BlockHalts
  /\ \E mature \in SUBSET app.queue :
       \/ CommitBlock(app, mature)
       \/ \E v \in DOMAIN app.validators :
            \/ CommitBlock([app EXCEPT !.power = @ \cup {v}], mature)
            \/ /\ app.power # {v}
               /\ CommitBlock([app EXCEPT !.power = @ \ {v}], mature)

(* A genesis with some of the operators, some of them unbonded; validators *)
(* have keys of their own.                                                 *)
Init ==
  \E all \in SUBSET Operators : \E cons \in [all -> Keys], bonded \in (SUBSET all) \ {{}} :
    /\ \A v, w \in all : cons[v] = cons[w] => v = w
    /\ app = [validators |-> [v \in all |-> [cons |-> cons[v], bonded |-> v \in bonded]],
              power |-> bonded, last |-> bonded, queue |-> {},
              byCons |-> [k \in Range(cons) |-> CHOOSE v \in all : cons[v] = k],
              signing |-> {cons[v] : v \in bonded}, records |-> all,
              supply |-> 0, balance |-> [a \in Accounts |-> 0], minter |-> 0]
    /\ disk = app
    /\ voters = {cons[v] : v \in bonded}
    /\ phase = "chain" /\ lost = FALSE /\ unsigned = FALSE /\ blocks = 0 /\ commands = 0
    /\ args = [operator |-> CHOOSE v \in Operators : TRUE, key |-> CHOOSE k \in Keys : TRUE,
               fund |-> <<>>]

(***************************************************************************)
(* The command                                                             *)
(***************************************************************************)

Running == phase \in {"stores", "validator", "records", "fund", "send"}

(* The node stops and the command loads the application from the disk.     *)
Start(operator, key, fund) ==
  /\ phase \in {"chain", "started", "exited"} /\ commands < MaxCommands
  /\ phase' = "stores" /\ commands' = commands + 1
  /\ app' = disk /\ lost' = FALSE /\ unsigned' = FALSE
  /\ args' = [operator |-> operator, key |-> key, fund |-> fund]
  /\ UNCHANGED <<disk, voters, blocks>>

(* Mutant: the unbonding queue is forgotten.                               *)
QueueKept(st) == [st EXCEPT !.power = {}, !.last = {}, !.validators = [v \in {} |-> 0]]

(* No validator in the power index, the last validators, the validators    *)
(* and the unbonding queue.                                                *)
Emptied(st) ==
  [st EXCEPT !.power = {}, !.last = {}, !.validators = [v \in {} |-> 0], !.queue = {}]

RemoveValidators ==
  /\ phase = "stores"
  /\ app' = Emptied(app)
  /\ phase' = "validator"
  /\ UNCHANGED <<disk, args, voters, lost, unsigned, blocks, commands>>

(* Add the new validator, bonded, to the validators, the consensus address *)
(* index, the power index and the last validators; the hook of a created   *)
(* validator initialises its distribution records.                         *)
AddValidator ==
  /\ phase = "validator"
  /\ app' = [app EXCEPT
       !.validators = [v \in {args.operator} |-> [cons |-> args.key, bonded |-> TRUE]],
       !.byCons = [k \in DOMAIN @ \cup {args.key} |->
                     IF k = args.key THEN args.operator ELSE @[k]],
       !.power = {args.operator}, !.last = {args.operator},
       !.records = @ \cup {args.operator}]
  /\ phase' = "records"
  /\ UNCHANGED <<disk, args, voters, lost, unsigned, blocks, commands>>

(* Distribution records of the new validator.                              *)
Recorded(st) == [st EXCEPT !.records = @ \cup {args.operator}]

(* Mutant: the signing info is forgotten.                                  *)
NotSigning(st) == st

(* Signing info of the new validator.                                      *)
Signing(st) == [st EXCEPT !.signing = @ \cup {args.key}]

AddRecords ==
  /\ phase = "records"
  /\ app' = Signing(Recorded(app))
  /\ phase' = "fund"
  /\ UNCHANGED <<disk, args, voters, lost, unsigned, blocks, commands>>

(* The error of SetValidatorSigningInfo is the one that the command does   *)
(* not hand to handleErr: it goes on without the signing info.             *)
SigningInfoFails ==
  /\ CallsMayFail
  /\ phase = "records"
  /\ app' = Recorded(app)
  /\ unsigned' = TRUE
  /\ phase' = "fund"
  /\ UNCHANGED <<disk, args, voters, lost, blocks, commands>>

(* Mutant: what is minted never reaches the mint module account.           *)
MintedAway(st) == [st EXCEPT !.supply = @ + 1]

Minted(st) == [st EXCEPT !.supply = @ + 1, !.minter = @ + 1]

(* Mint a grant for the next account, before its address is parsed.        *)
MintGrant ==
  /\ phase = "fund" /\ args.fund # <<>>
  /\ app' = Minted(app)
  /\ phase' = "send"
  /\ UNCHANGED <<disk, args, voters, lost, unsigned, blocks, commands>>

SendGrant ==
  /\ phase = "send" /\ Head(args.fund) \in Accounts
  /\ app' = [app EXCEPT !.minter = @ - 1, !.balance[Head(args.fund)] = @ + 1]
  /\ args' = [args EXCEPT !.fund = Tail(@)]
  /\ phase' = "fund"
  /\ UNCHANGED <<disk, voters, lost, unsigned, blocks, commands>>

(* Mutant: an address that does not parse is skipped.                      *)
BadAddressSkipped ==
  /\ phase = "send" /\ Head(args.fund) \notin Accounts
  /\ phase' = "fund"
  /\ args' = [args EXCEPT !.fund = Tail(@)]
  /\ UNCHANGED <<app, disk, voters, lost, unsigned, blocks, commands>>

(* handleErr: an address that does not parse exits the process, and so may *)
(* the failure of any other call; the stores were never committed.         *)
BadAddressExits ==
  /\ phase = "send" /\ Head(args.fund) \notin Accounts
  /\ phase' = "exited"
  /\ app' = disk
  /\ UNCHANGED <<disk, args, voters, lost, unsigned, blocks, commands>>

ErrorExits ==
  /\ CallsMayFail
  /\ Running
  /\ phase' = "exited"
  /\ app' = disk
  /\ UNCHANGED <<disk, args, voters, lost, unsigned, blocks, commands>>

(* Return to the server, which has made the new key the only validator of  *)
(* the consensus state, and start the node.                                *)
StartNode ==
  /\ phase = "fund" /\ args.fund = <<>>
  /\ phase' = "started"
  /\ voters' = {args.key}
  /\ UNCHANGED <<app, disk, args, lost, unsigned, blocks, commands>>

(* Kill the started node and start it again, without the command: what was *)
(* not committed is gone, but the consensus state keeps the new key.       *)
Restart ==
  /\ phase = "started"
  /\ app' = disk
  /\ lost' = (lost \/ app # disk)
  /\ UNCHANGED <<phase, disk, args, voters, unsigned, blocks, commands>>

Proceed ==
  \/ RemoveValidators \/ AddValidator \/ AddRecords \/ MintGrant \/ SendGrant
  \/ BadAddressExits \/ StartNode

Next ==
  \/ Block \/ Restart
  \/ \E operator \in Operators, key \in Keys, fund \in FundLists : Start(operator, key, fund)
  \/ Proceed \/ SigningInfoFails \/ ErrorExits

Spec == Init /\ [][Next]_vars

(***************************************************************************)
(* Properties                                                              *)
(***************************************************************************)

(* Every variable keeps its type.                                          *)
StoresOK(st) ==
  /\ DOMAIN st.validators \subseteq Operators
  /\ \A v \in DOMAIN st.validators :
       st.validators[v].cons \in Keys /\ st.validators[v].bonded \in BOOLEAN
  /\ st.power \cup st.last \cup st.queue \cup st.records \subseteq Operators
  /\ DOMAIN st.byCons \cup st.signing \subseteq Keys
  /\ Range(st.byCons) \subseteq Operators
  /\ st.supply \in Nat /\ st.minter \in Nat
  /\ st.balance \in [Accounts -> Nat]
TypeOK ==
  /\ phase \in {"chain", "stores", "validator", "records", "fund", "send", "started",
                "exited"}
  /\ StoresOK(app) /\ StoresOK(disk)
  /\ args.operator \in Operators /\ args.key \in Keys
  /\ voters \subseteq Keys /\ lost \in BOOLEAN /\ unsigned \in BOOLEAN
  /\ blocks \in 0 .. MaxBlocks /\ commands \in 0 .. MaxCommands

(* "thereby removing the old validator set and introducing a new set": the *)
(* started chain knows the new validator under every index, and no index   *)
(* still names one that is gone.                                           *)
OldSetRemoved ==
  phase = "started" /\ ~lost =>
    /\ DOMAIN app.validators = {args.operator}
    /\ app.power \cup app.last \cup app.queue = {args.operator}
    /\ app.byCons[args.key] = args.operator
    /\ args.operator \in app.records

(* Every chain that runs can produce its next block, the one the command   *)
(* changed too: no vote, index entry or signing info fails to resolve.     *)
(* Only a node killed before its first block is lost, because the command  *)
(* does not commit what it writes; and where the call whose error it drops *)
(* failed, what the block lacks is the signing info of the new key.        *)
NextBlockPossible ==
  phase \in {"chain", "started"} /\ ~lost =>
    /\ ~Unresolved
    /\ \A k \in voters \ app.signing : unsigned /\ k = args.key

(* Every coin on the disk has an owner: a run that exits between minting a *)
(* grant and sending it leaves nothing behind, also for the runs after it. *)
GrantsBacked ==
  /\ disk.minter = 0
  /\ disk.supply = Total(disk.balance)

(* The command "starts the node": when no call fails and no account is to  *)
(* be funded (the default of the flag) it does not exit.                   *)
StartsWithoutAccounts == phase = "exited" => args.fund # <<Empty>>

=============================================================================
