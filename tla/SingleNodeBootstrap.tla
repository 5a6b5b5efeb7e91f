-------------------------- MODULE SingleNodeBootstrap --------------------------
(***************************************************************************)
(* chain/scripts/start-single-node.sh, which creates the home directory of *)
(* a local chain on its first run and starts the node, and reset-local.sh, *)
(* which removes that directory.  Each command of the scripts is an action;*)
(* `set -e` ends the script at the first that fails, and the user or the   *)
(* container may end it between any two (Kill) or while it deletes files.  *)
(* The commands themselves belong to the Cosmos SDK and are EXTERNAL.      *)
(*                                                                         *)
(* The home directory is a record; zero and {} stand for what is not there:*)
(*   chain     number of the `init` that wrote genesis.json                *)
(*   account   validator key funded in the genesis                         *)
(*   genesis   set of gentxs in the genesis, [node, key]                   *)
(*   gentxs    set of gentxs in config/gentx                               *)
(*   node, key the node's key and the validator key of the keyring         *)
(*   data      the chain whose blocks the data directory holds             *)
(*   prices    minimum-gas-prices in app.toml                              *)
(***************************************************************************)
EXTENDS Integers, FiniteSets

CONSTANTS
  Prices,            \* values of MIN_GAS_PRICES
  RepoAtWorkspace,   \* the repository lies in /workspace
  MaxRuns            \* bound: runs of either script

ASSUME ScriptsAssumption ==
  /\ Prices \subseteq Nat \ {0}
  /\ RepoAtWorkspace \in BOOLEAN
  /\ MaxRuns \in Nat

VARIABLES
  pc,           \* next command of start-single-node.sh, "off", "running" or "failed"
  home,         \* the directory CHAIN_HOME of start-single-node.sh
  args,         \* [reset, prices] of the current run
  runs,         \* runs so far; also the source of fresh keys
  interrupted   \* the home was left by an interrupted bootstrap or removal

vars == <<pc, home, args, runs, interrupted>>

Fields == {"chain", "account", "genesis", "gentxs", "node", "key", "data", "prices"}
NoHome == [chain |-> 0, account |-> 0, genesis |-> {}, gentxs |-> {}, node |-> 0, key |-> 0,
           data |-> 0, prices |-> 0]

Off == pc \in {"off", "failed"}

Init ==
  /\ pc = "off" /\ home = NoHome /\ runs = 0
  /\ args = [reset |-> FALSE, prices |-> 0]
  /\ interrupted = FALSE

Goto(command) == pc' = command /\ UNCHANGED <<args, runs, interrupted>>

Run(reset, prices) ==
  /\ Off /\ runs < MaxRuns
  /\ pc' = "reset" /\ runs' = runs + 1
  /\ args' = [reset |-> reset, prices |-> prices]
  /\ UNCHANGED <<home, interrupted>>

(* RESET_HOME=1 removes the home.                                          *)
ResetHome ==
  /\ pc = "reset"
  /\ home' = IF args.reset THEN NoHome ELSE home
  /\ interrupted' = (interrupted /\ ~args.reset)
  /\ pc' = "look"
  /\ UNCHANGED <<args, runs>>

(* Mutants: every home is bootstrapped, or every home without blocks.      *)
EveryHome == TRUE
WithoutData == home.data = 0

(* Bootstrap only a home without a genesis.                                *)
WithoutGenesis == home.chain = 0

LookThen(existing) ==
  /\ pc = "look"
  /\ Goto(IF WithoutGenesis THEN "init" ELSE existing)
  /\ UNCHANGED home

(* Mutant: an existing home is not configured.                             *)
LookAndStart == LookThen("start")

LookForGenesis == LookThen("configure")

(* init writes a new genesis and loads the node key or makes one.          *)
InitHome ==
  /\ pc = "init"
  /\ home' = [home EXCEPT !.chain = runs, !.account = 0, !.genesis = {},
                          !.node = IF @ = 0 THEN runs ELSE @,
                          !.prices = IF @ = 0 THEN 1 ELSE @]
  /\ Goto("key")

(* "Creating or reusing validator key".                                    *)
AddKey ==
  /\ pc = "key"
  /\ home' = [home EXCEPT !.key = IF @ = 0 THEN runs ELSE @]
  /\ Goto("account")

AddGenesisAccount ==
  /\ pc = "account"
  /\ home' = [home EXCEPT !.account = home.key]
  /\ Goto("gentx")

(* gentx does not overwrite a file, which is named after the node.         *)
Gentx ==
  /\ pc = "gentx"
  /\ \A g \in home.gentxs : g.node # home.node
  /\ home' = [home EXCEPT !.gentxs = @ \cup {[node |-> home.node, key |-> home.key]}]
  /\ Goto("collect")

(* collect-gentxs accepts only gentxs of funded accounts.                  *)
Collectable == \A g \in home.gentxs : g.key = home.account

CollectGentxs ==
  /\ pc = "collect" /\ Collectable
  /\ home' = [home EXCEPT !.genesis = home.gentxs]
  /\ Goto("configure")

CommandFails ==
  /\ \/ pc = "gentx" /\ \E g \in home.gentxs : g.node = home.node
     \/ pc = "collect" /\ ~Collectable
  /\ Goto("failed")
  /\ UNCHANGED home

(* Mutant: the new prices are appended to the old.                         *)
Appended(prices) == IF prices = 0 THEN 0 ELSE prices + args.prices

(* configure_app_toml, for an app.toml that exists.                        *)
Configured(prices) == IF prices = 0 THEN 0 ELSE args.prices

ConfigureAppToml ==
  /\ pc = "configure"
  /\ home' = [home EXCEPT !.prices = Configured(@)]
  /\ Goto("start")

(* The node needs one validator per gentx, at least one, and data of no    *)
(* other chain; it makes up a missing app.toml.                            *)
Startable ==
  /\ home.data \in {0, home.chain}
  /\ Cardinality(home.genesis) = 1

StartNode ==
  /\ pc = "start"
  /\ IF Startable THEN /\ home' = [home EXCEPT !.data = home.chain,
                                               !.prices = IF @ = 0 THEN 1 ELSE @]
                       /\ Goto("running")
                  ELSE UNCHANGED home /\ Goto("failed")

(* Stop the node or end the script; it is an interruption when the         *)
(* bootstrap of the home has begun and has not ended.                      *)
Kill ==
  /\ ~Off
  /\ pc' = "off"
  /\ interrupted' = (interrupted \/ pc \in {"key", "account", "gentx", "collect"})
  /\ UNCHANGED <<home, args, runs>>

(* rm -rf is killed after it removed some of the files, by either script.  *)
KillRemoval ==
  /\ \/ pc = "reset" /\ args.reset
     \/ Off /\ home # NoHome
  /\ \E gone \in SUBSET {f \in Fields : home[f] # NoHome[f]} :
       home' = [f \in Fields |->
         IF f \in gone \cup IF "chain" \in gone THEN {"account", "genesis"} ELSE {}
           THEN NoHome[f] ELSE home[f]]
  /\ pc' = "off" /\ interrupted' = TRUE
  /\ UNCHANGED <<args, runs>>

(* reset-local.sh, whose default CHAIN_HOME is below /workspace while that *)
(* of start-single-node.sh is below the repository.                        *)
ResetLocal ==
  /\ Off /\ runs < MaxRuns
  /\ runs' = runs + 1
  /\ home' = IF RepoAtWorkspace THEN NoHome ELSE home
  /\ interrupted' = (interrupted /\ ~RepoAtWorkspace)
  /\ pc' = "off"
  /\ UNCHANGED args

Script ==
  \/ ResetHome \/ LookForGenesis \/ InitHome \/ AddKey \/ AddGenesisAccount \/ Gentx
  \/ CollectGentxs \/ CommandFails \/ ConfigureAppToml \/ StartNode

Next ==
  \/ \E reset \in BOOLEAN, prices \in Prices : Run(reset, prices)
  \/ Script \/ Kill \/ KillRemoval \/ ResetLocal

Spec == Init /\ [][Next]_vars

(***************************************************************************)
(* Properties                                                              *)
(***************************************************************************)

Ids == 0 .. MaxRuns
Gentxs == [node : Ids, key : Ids]

(* Every variable keeps its type.                                          *)
TypeOK ==
  /\ pc \in {"off", "reset", "look", "init", "key", "account", "gentx", "collect",
             "configure", "start", "running", "failed"}
  /\ home \in [chain : Ids, account : Ids, genesis : SUBSET Gentxs, gentxs : SUBSET Gentxs,
               node : Ids, key : Ids, data : Ids, prices : Prices \cup {0, 1}]
  /\ args.reset \in BOOLEAN /\ args.prices \in Prices \cup {0}
  /\ runs \in Ids
  /\ interrupted \in BOOLEAN

(* The script fails, or starts a node without the key of its validator,    *)
(* only on a home that an interrupted run or removal left behind: the test *)
(* for genesis.json takes a bootstrap that was cut short for a finished    *)
(* one.  A removal that completes makes every later run good again.        *)
FailsOnlyInterrupted ==
  ~interrupted =>
    /\ pc # "failed"
    /\ pc = "running" => home.genesis = {[node |-> home.node, key |-> home.key]}

(* No run without RESET_HOME=1 touches the chain or the keys of a home     *)
(* that has a genesis, whatever state that genesis is in.                  *)
ExistingHomeKept ==
  [][home.chain # 0 /\ ~Off /\ ~(pc = "reset" /\ args.reset)
     /\ pc \notin {"key", "account", "gentx", "collect"} =>
       \A f \in {"chain", "genesis", "node", "key"} : home'[f] = home[f]]_vars

(* "automatically sets minimum-gas-prices in app.toml": a node of an       *)
(* undamaged home runs with the prices of its own start, also when the     *)
(* home is older and was made with others.                                 *)
PricesOfThisRun ==
  pc = "running" /\ ~interrupted => home.prices = args.prices

=============================================================================
