----------------------- MODULE SingleNodeBootstrapProofs -----------------------
(***************************************************************************)
(* The scripts of a single node, for any prices and any number of runs.    *)
(*                                                                         *)
(* FailsOnlyInterrupted is not inductive: whether a command fails depends  *)
(* on what the commands before it left.  Progress says what that is before *)
(* each command, for a home that no interruption has touched; an           *)
(* interrupted one may hold anything that has the types.                   *)
(***************************************************************************)
EXTENDS SingleNodeBootstrap, FiniteSetTheorems, TLAPS

Bootstrapping == {"init", "key", "account", "gentx", "collect"}
OwnGentx == [node |-> home.node, key |-> home.key]

(* What the bootstrap has done, command by command.                        *)
Begun ==
  /\ pc = "init" => home = NoHome
  /\ pc \in Bootstrapping \ {"init"} =>
       home.chain # 0 /\ home.data = 0 /\ home.prices # 0
  /\ pc \in {"key", "account", "gentx"} => home.gentxs = {}
  /\ pc \in {"gentx", "collect"} => home.account = home.key
  /\ pc = "collect" => home.gentxs = {OwnGentx}

(* A home that is not being bootstrapped does not exist or is complete.    *)
Complete ==
  /\ home.chain # 0 /\ home.prices # 0
  /\ home.genesis = {OwnGentx}
  /\ home.data \in {0, home.chain}

Rested ==
  /\ pc \notin Bootstrapping => home = NoHome \/ Complete
  /\ pc \in {"configure", "start", "running"} => Complete

Progress ==
  /\ pc # "failed"
  /\ Begun /\ Rested
  /\ pc \in {"start", "running"} => home.prices = args.prices

(* A run has a number and prices.                                          *)
RunKnown == ~Off => args.prices \in Prices /\ runs # 0

Inv == TypeOK /\ RunKnown /\ (~interrupted => Progress)

LEMMA InitInv == Init => Inv
<1> SUFFICES ASSUME Init PROVE Inv
  OBVIOUS
<1>1. home = NoHome /\ pc = "off" /\ args.prices = 0 /\ args.reset = FALSE /\ runs = 0
      /\ interrupted = FALSE
  BY DEF Init
<1>2. TypeOK
  <2>1. 0 \in Ids
    BY ScriptsAssumption DEF Ids
  <2>2. home \in [chain : Ids, account : Ids, genesis : SUBSET Gentxs, gentxs : SUBSET Gentxs,
                  node : Ids, key : Ids, data : Ids, prices : Prices \cup {0, 1}]
    BY <1>1, <2>1 DEF NoHome
  <2>3. QED
    BY <1>1, <2>1, <2>2 DEF TypeOK
<1>3. RunKnown /\ Progress
  BY <1>1 DEF RunKnown, Off, Progress, Begun, Rested, Bootstrapping
<1>4. QED
  BY <1>2, <1>3 DEF Inv

(***************************************************************************)
(* Starting a run, and looking at the home.                                *)
(***************************************************************************)
LEMMA RunInv == ASSUME Inv, NEW reset \in BOOLEAN, NEW prices \in Prices, Run(reset, prices) PROVE Inv'
<1> USE DEF Run
<1>1. TypeOK'
  BY ScriptsAssumption DEF Inv, TypeOK, Ids
<1>2. RunKnown'
  BY ScriptsAssumption DEF Inv, TypeOK, Ids, RunKnown
<1>3. ~interrupted' => Progress'
  BY DEF Inv, Off, Progress, Begun, Rested, Complete, Bootstrapping, OwnGentx
<1>4. QED
  BY <1>1, <1>2, <1>3 DEF Inv

LEMMA ResetHomeInv == ASSUME Inv, ResetHome PROVE Inv'
<1> USE DEF ResetHome
<1>1. NoHome \in [chain : Ids, account : Ids, genesis : SUBSET Gentxs, gentxs : SUBSET Gentxs,
                  node : Ids, key : Ids, data : Ids, prices : Prices \cup {0, 1}]
  BY ScriptsAssumption DEF NoHome, Ids
<1>2. TypeOK'
  BY <1>1 DEF Inv, TypeOK
<1>3. RunKnown'
  BY DEF Inv, RunKnown, Off
<1>4. ~interrupted' => Progress'
  BY DEF Inv, TypeOK, Progress, Begun, Rested, Complete, Bootstrapping, OwnGentx
<1>5. QED
  BY <1>2, <1>3, <1>4 DEF Inv

LEMMA LookForGenesisInv == ASSUME Inv, LookForGenesis PROVE Inv'
<1> USE DEF LookForGenesis, LookThen, Goto
<1>1. TypeOK' /\ RunKnown'
  BY DEF Inv, TypeOK, RunKnown, Off
<1>2. ~interrupted' => Progress'
  BY DEF Inv, WithoutGenesis, Progress, Begun, Rested, Complete, Bootstrapping, OwnGentx, NoHome
<1>3. QED
  BY <1>1, <1>2 DEF Inv

(***************************************************************************)
(* The bootstrap.                                                          *)
(***************************************************************************)
LEMMA InitHomeInv == ASSUME Inv, InitHome PROVE Inv'
<1> USE DEF InitHome, Goto
<1>1. TypeOK' /\ RunKnown'
  <2>1. 0 \in Ids
    BY ScriptsAssumption DEF Ids
  <2>2. QED
    BY <2>1 DEF Inv, TypeOK, RunKnown, Off
<1>2. ~interrupted' => Progress'
  BY ScriptsAssumption
  DEF Inv, TypeOK, Progress, Begun, Rested, Complete, Bootstrapping, OwnGentx, NoHome, RunKnown, Off
<1>3. QED
  BY <1>1, <1>2 DEF Inv

LEMMA AddKeyInv == ASSUME Inv, AddKey PROVE Inv'
<1> USE DEF AddKey, Goto
<1>1. TypeOK' /\ RunKnown'
  BY DEF Inv, TypeOK, RunKnown, Off
<1>2. ~interrupted' => Progress'
  BY DEF Inv, TypeOK, Progress, Begun, Rested, Complete, Bootstrapping, OwnGentx
<1>3. QED
  BY <1>1, <1>2 DEF Inv

LEMMA AddGenesisAccountInv == ASSUME Inv, AddGenesisAccount PROVE Inv'
<1> USE DEF AddGenesisAccount, Goto
<1>1. TypeOK' /\ RunKnown'
  BY DEF Inv, TypeOK, RunKnown, Off
<1>2. ~interrupted' => Progress'
  BY DEF Inv, TypeOK, Progress, Begun, Rested, Complete, Bootstrapping, OwnGentx
<1>3. QED
  BY <1>1, <1>2 DEF Inv

LEMMA GentxInv == ASSUME Inv, Gentx PROVE Inv'
<1> USE DEF Gentx, Goto
<1>1. [node |-> home.node, key |-> home.key] \in Gentxs
  BY DEF Inv, TypeOK, Gentxs
<1>2. TypeOK' /\ RunKnown'
  BY <1>1 DEF Inv, TypeOK, RunKnown, Off
<1>3. ~interrupted' => Progress'
  BY DEF Inv, TypeOK, Progress, Begun, Rested, Complete, Bootstrapping, OwnGentx
<1>4. QED
  BY <1>2, <1>3 DEF Inv

LEMMA CollectGentxsInv == ASSUME Inv, CollectGentxs PROVE Inv'
<1> USE DEF CollectGentxs, Goto
<1>1. TypeOK' /\ RunKnown'
  BY DEF Inv, TypeOK, RunKnown, Off
<1>2. ~interrupted' => Progress'
  BY DEF Inv, TypeOK, Progress, Begun, Rested, Complete, Bootstrapping, OwnGentx
<1>3. QED
  BY <1>1, <1>2 DEF Inv

(* Neither command fails on a home that nothing interrupted.               *)
LEMMA CommandFailsInv == ASSUME Inv, CommandFails PROVE Inv'
<1> USE DEF CommandFails, Goto
<1>1. TypeOK' /\ RunKnown'
  BY DEF Inv, TypeOK, RunKnown, Off
<1>2. interrupted
  BY DEF Inv, Progress, Begun, Collectable, OwnGentx
<1>3. QED
  BY <1>1, <1>2 DEF Inv

(***************************************************************************)
(* Configuration and start.                                                *)
(***************************************************************************)
LEMMA ConfigureAppTomlInv == ASSUME Inv, ConfigureAppToml PROVE Inv'
<1> USE DEF ConfigureAppToml, Configured, Goto
<1>1. TypeOK' /\ RunKnown'
  BY DEF Inv, TypeOK, RunKnown, Off
<1>2. args.prices # 0
  BY ScriptsAssumption DEF Inv, RunKnown, Off
<1>3. ~interrupted' => Progress'
  BY <1>2 DEF Inv, TypeOK, Progress, Begun, Rested, Complete, Bootstrapping, OwnGentx
<1>4. QED
  BY <1>1, <1>3 DEF Inv

LEMMA StartNodeInv == ASSUME Inv, StartNode PROVE Inv'
<1> USE DEF StartNode, Goto
<1>1. TypeOK' /\ RunKnown'
  BY DEF Inv, TypeOK, RunKnown, Off
<1>2. ~interrupted => Startable
  <2>1. \A x : Cardinality({x}) = 1
    BY FS_Singleton
  <2>2. QED
    BY <2>1 DEF Inv, Progress, Rested, Complete, Startable
<1>3. ~interrupted' => Progress'
  BY <1>2 DEF Inv, TypeOK, Progress, Begun, Rested, Complete, Bootstrapping, OwnGentx
<1>4. QED
  BY <1>1, <1>3 DEF Inv

(***************************************************************************)
(* Interruptions and the other script.                                     *)
(***************************************************************************)
LEMMA KillInv == ASSUME Inv, Kill PROVE Inv'
<1> USE DEF Kill
<1>1. TypeOK' /\ RunKnown'
  BY DEF Inv, TypeOK, RunKnown, Off
<1>2. ~interrupted' => Progress'
  BY DEF Inv, TypeOK, Progress, Begun, Rested, Complete, Bootstrapping, OwnGentx
<1>3. QED
  BY <1>1, <1>2 DEF Inv

LEMMA KillRemovalInv == ASSUME Inv, KillRemoval PROVE Inv'
<1>1. PICK gone \in SUBSET Fields :
        home' = [f \in Fields |->
          IF f \in gone \cup IF "chain" \in gone THEN {"account", "genesis"} ELSE {}
            THEN NoHome[f] ELSE home[f]]
  BY Zenon DEF KillRemoval
<1>2. pc' = "off" /\ interrupted' = TRUE /\ UNCHANGED <<args, runs>>
  BY DEF KillRemoval
<1>3. home' \in [chain : Ids, account : Ids, genesis : SUBSET Gentxs, gentxs : SUBSET Gentxs,
                 node : Ids, key : Ids, data : Ids, prices : Prices \cup {0, 1}]
  <2>1. 0 \in Ids
    BY ScriptsAssumption DEF Ids
  <2>2. QED
    BY <1>1, <2>1 DEF Inv, TypeOK, NoHome, Fields
<1>4. TypeOK' /\ RunKnown'
  BY <1>2, <1>3 DEF Inv, TypeOK, RunKnown, Off
<1>5. QED
  BY <1>2, <1>4 DEF Inv

LEMMA ResetLocalInv == ASSUME Inv, ResetLocal PROVE Inv'
<1> USE DEF ResetLocal
<1>1. NoHome \in [chain : Ids, account : Ids, genesis : SUBSET Gentxs, gentxs : SUBSET Gentxs,
                  node : Ids, key : Ids, data : Ids, prices : Prices \cup {0, 1}]
  BY ScriptsAssumption DEF NoHome, Ids
<1>2. runs' \in Ids
  BY ScriptsAssumption DEF Inv, TypeOK, Ids
<1>3. TypeOK' /\ RunKnown'
  BY <1>1, <1>2, ScriptsAssumption DEF Inv, TypeOK, RunKnown, Off
<1>4. ~interrupted' => Progress'
  BY DEF Inv, Off, Progress, Begun, Rested, Complete, Bootstrapping, OwnGentx
<1>5. QED
  BY <1>3, <1>4 DEF Inv

LEMMA StutterInv == ASSUME Inv, UNCHANGED vars PROVE Inv'
BY DEF vars, Inv, TypeOK, RunKnown, Off, Progress, Begun, Rested, Complete, Bootstrapping, OwnGentx

LEMMA StepInv == ASSUME Inv, [Next]_vars PROVE Inv'
<1>1. ASSUME NEW reset \in BOOLEAN, NEW prices \in Prices, Run(reset, prices) PROVE Inv'
  BY <1>1, RunInv
<1>2. CASE Script
  BY <1>2, ResetHomeInv, LookForGenesisInv, InitHomeInv, AddKeyInv, AddGenesisAccountInv, GentxInv,
     CollectGentxsInv, CommandFailsInv, ConfigureAppTomlInv, StartNodeInv DEF Script
<1>3. CASE Kill
  BY <1>3, KillInv
<1>4. CASE KillRemoval
  BY <1>4, KillRemovalInv
<1>5. CASE ResetLocal
  BY <1>5, ResetLocalInv
<1>6. CASE UNCHANGED vars
  BY <1>6, StutterInv
<1>7. QED
  BY <1>1, <1>2, <1>3, <1>4, <1>5, <1>6 DEF Next

(* The home and the place in the scripts fit in every reachable state.     *)
THEOREM BootstrapInvariant == Spec => []Inv
<1>1. QED
  BY InitInv, StepInv, PTL DEF Spec

(* The type invariant, and that home is always a record of its files.      *)
THEOREM BootstrapTypes == Spec => []TypeOK
<1>1. Inv => TypeOK
  BY DEF Inv
<1>2. QED
  BY <1>1, BootstrapInvariant, PTL

(* Whatever the prices and however often the scripts run, only an          *)
(* interruption makes a run fail or start with another validator key.      *)
THEOREM FailureExplained == Spec => []FailsOnlyInterrupted
<1>1. Inv => FailsOnlyInterrupted
  BY DEF Inv, Progress, Rested, Complete, OwnGentx, FailsOnlyInterrupted
<1>2. QED
  BY <1>1, BootstrapInvariant, PTL

(* An undamaged home runs with the prices of its own start.                *)
THEOREM PricesApplied == Spec => []PricesOfThisRun
<1>1. Inv => PricesOfThisRun
  BY DEF Inv, Progress, PricesOfThisRun
<1>2. QED
  BY <1>1, BootstrapInvariant, PTL

(* `init` runs only where there is no genesis, as the look at the home and *)
(* `init` have no command between them.                                    *)
Uninitialised == pc = "init" => home.chain = 0

LEMMA KeepsExisting ==
  ASSUME Inv, Uninitialised, Next,
         home.chain # 0, ~Off, ~(pc = "reset" /\ args.reset),
         pc \notin {"key", "account", "gentx", "collect"},
         NEW f \in {"chain", "genesis", "node", "key"}
  PROVE  home'[f] = home[f]
<1>1. pc # "init"
  BY DEF Uninitialised
<1>2. CASE UNCHANGED home
  BY <1>2
<1>3. CASE ResetHome
  BY <1>3 DEF ResetHome
<1>4. CASE ConfigureAppToml
  BY <1>4 DEF ConfigureAppToml, Inv, TypeOK
<1>5. CASE StartNode
  BY <1>5 DEF StartNode, Inv, TypeOK
<1>6. QED
  BY <1>1, <1>2, <1>3, <1>4, <1>5
  DEF Next, Script, Run, LookForGenesis, LookThen, InitHome, AddKey, AddGenesisAccount, Gentx,
      CollectGentxs, CommandFails, Kill, KillRemoval, ResetLocal, Off

LEMMA StepUninitialised == ASSUME Inv, Uninitialised, [Next]_vars PROVE Uninitialised'
<1>1. CASE LookForGenesis
  BY <1>1 DEF LookForGenesis, LookThen, WithoutGenesis, Goto, Uninitialised
<1>2. CASE pc' = "init" /\ ~LookForGenesis
  BY <1>2 DEF Next, Script, Run, ResetHome, InitHome, AddKey, AddGenesisAccount, Gentx,
      CollectGentxs, CommandFails, ConfigureAppToml, StartNode, Kill, KillRemoval, ResetLocal, Goto,
      Uninitialised, vars
<1>3. QED
  BY <1>1, <1>2 DEF Uninitialised

(* Without RESET_HOME=1 a run keeps chain and keys of a home that has a    *)
(* genesis, interrupted or not.                                            *)
THEOREM ExistingHomeSafe == Spec => ExistingHomeKept
<1>1. Init => Uninitialised
  BY DEF Init, Uninitialised
<1>2. Inv /\ Uninitialised /\ [Next]_vars =>
        [home.chain # 0 /\ ~Off /\ ~(pc = "reset" /\ args.reset)
         /\ pc \notin {"key", "account", "gentx", "collect"} =>
           \A f \in {"chain", "genesis", "node", "key"} : home'[f] = home[f]]_vars
  BY KeepsExisting
<1>3. Spec => []Uninitialised
  BY <1>1, StepUninitialised, BootstrapInvariant, PTL DEF Spec
<1>4. QED
  BY <1>2, <1>3, BootstrapInvariant, PTL DEF Spec, ExistingHomeKept

=============================================================================
