----------------------------- MODULE TestnetFiles -----------------------------
(***************************************************************************)
(* `stablecoind multi-node`: the command that writes the home directories  *)
(* of a local testnet (src/chain/cmd/stablecoind/cmd/testnet_multi_node.go)*)
(*                                                                         *)
(* Nodes are numbered from zero, as in the code.  The state is what lies   *)
(* below the output directory and survives from one run of the command to  *)
(* the next: node keys and gentx files are kept, account keys and genesis  *)
(* files are written anew.  A run may fail, or be killed, at every step;   *)
(* some failures leave the output directory behind and some remove it, or  *)
(* as much of it as the removal gets hold of.                              *)
(*                                                                         *)
(* A key made for node i by the r-th run is <<r, i>>; <<>> stands for none.*)
(* Stakes are in units of consensus power.                                 *)
(***************************************************************************)
EXTENDS Integers, Sequences, FiniteSets

CONSTANTS
  MaxNodes,       \* bound: largest --v
  MaxRuns,        \* bound: runs of the command
  Texts,          \* what an entry of --validators-stake-amount parses to
  Invalid,        \* an entry that is no integer
  PortLists       \* values of --list-ports, << >> for the empty flag

ASSUME ArgumentsAssumption ==
  /\ MaxNodes \in Nat \ {0} /\ MaxRuns \in Nat
  /\ Invalid \notin Int
  /\ Texts \subseteq Int \cup {Invalid}

NodeIndices == 0 .. MaxNodes - 1

DefaultStake == 100         \* TokensFromConsensusPower(100)
Balance == 500              \* accStakingTokens
NoPort == 0                 \* an address that ends after the colon

VARIABLES
  phase,     \* "idle", a phase of the run, "done" or "failed"
  at,        \* counter of the current loop
  run,       \* runs started so far
  args,      \* [n, stakes, ports] of the current run
  dirs,      \* node -> its directory: [id, account, gentxs, genesis, config]
  accounts,  \* genAccounts, as a set
  peers,     \* persistentPeers
  appState,  \* << >>, or the canonical application state in a tuple
  cause,     \* why the run failed: "none", "system", "amount" or "collect"
  removed    \* history, for the properties: the node keys that removals took

vars == <<phase, at, run, args, dirs, accounts, peers, appState, cause, removed>>

NoGenesis == [chain |-> 0, accounts |-> {}, gentxs |-> {}]
NoConfig == [p2p |-> NoPort, rpc |-> NoPort, proxy |-> NoPort, prometheus |-> NoPort,
             grpc |-> NoPort, api |-> NoPort, peers |-> <<>>]
NoDir == [id |-> <<>>, account |-> <<>>, gentxs |-> {}, genesis |-> NoGenesis,
          config |-> NoConfig]

(***************************************************************************)
(* Arguments                                                               *)
(***************************************************************************)

Parsed(stakes) == {k \in DOMAIN stakes : stakes[k] # Invalid}

(* The counter `top` at entry k: one that is no integer takes no place.    *)
Place(stakes, k) == Cardinality({j \in Parsed(stakes) : j < k})

(* validatorsStakesAmount, or the default where it has no entry.           *)
StakeOf(i) ==
  LET entries == {k \in Parsed(args.stakes) : Place(args.stakes, k) = i}
  IN  IF entries = {} THEN DefaultStake ELSE args.stakes[CHOOSE k \in entries : TRUE]

(* The port a node is announced on to its peers, and the one it listens on.*)
(* Mutant: all nodes are announced on the port the help of the flag names. *)
AnnouncedAsDocumented(i) == 46656
AnnouncedPort(i) == 26656 - 3 * i
P2PPort(i) == 26656 - 3 * i

(* Mutant: the RPC ports descend in steps of one.                          *)
AdjacentRPCPort(i) == 26657 - i
DefaultRPCPort(i) == 26657 - 3 * i

ProxyPort(i) == 26658 - 3 * i
PrometheusPort(i) == 26660 + i
GRPCPort(i) == 9090 - 2 * i
APIPort(i) == 1317 - i

RPCPort(i) ==
  IF args.ports = <<>> THEN DefaultRPCPort(i)
  ELSE IF i < Len(args.ports) THEN args.ports[i + 1] ELSE NoPort

(***************************************************************************)
(* The command                                                             *)
(***************************************************************************)

Running == phase \in {"prepare", "account", "gentx", "genesis", "copy", "collect"}

Init ==
  /\ phase = "idle" /\ at = 0 /\ run = 0
  /\ args = [n |-> 0, stakes |-> <<>>, ports |-> <<>>]
  /\ dirs = [i \in NodeIndices |-> NoDir]
  /\ accounts = {} /\ peers = <<>> /\ appState = <<>>
  /\ cause = "none" /\ removed = {}

(* Parse the flags: NewCoin panics on a negative amount, wherever it is.   *)
Start(n, stakes, ports) ==
  /\ ~Running /\ run < MaxRuns
  /\ run' = run + 1 /\ at' = 0
  /\ args' = [n |-> n, stakes |-> stakes, ports |-> ports]
  /\ accounts' = {} /\ peers' = <<>> /\ appState' = <<>>
  /\ IF \E k \in Parsed(stakes) : stakes[k] < 0
       THEN phase' = "failed" /\ cause' = "amount"
       ELSE phase' = "prepare" /\ cause' = "none"
  /\ UNCHANGED <<dirs, removed>>

(* Mutants: existing keys are replaced; all nodes of a run share a key.    *)
NewNodeKey(i) == <<run, i>>
NodeKeyOfRun(i) == <<run>>

(* The key of node i, loaded if it exists.                                 *)
NodeKey(i) == IF dirs[i].id = <<>> THEN <<run, i>> ELSE dirs[i].id

(* Directory, node key and validator key of node `at`.                     *)
PrepareNode ==
  /\ phase = "prepare"
  /\ dirs' = [dirs EXCEPT ![at].id = NodeKey(at)]
  /\ peers' = Append(peers, [node |-> NodeKey(at), port |-> AnnouncedPort(at)])
  /\ phase' = "account"
  /\ UNCHANGED <<at, run, args, accounts, appState, cause, removed>>

(* GenerateSaveCoinKey overwrites the key of an earlier run.               *)
CreateAccount ==
  /\ phase = "account"
  /\ dirs' = [dirs EXCEPT ![at].account = <<run, at>>]
  /\ accounts' = accounts \cup {<<run, at>>}
  /\ phase' = "gentx"
  /\ UNCHANGED <<at, run, args, peers, appState, cause, removed>>

(* A gentx file is named after the node, so it replaces the node's former. *)
Filed(gentxs, gentx) == {g \in gentxs : g.node # gentx.node} \cup {gentx}

(* app.toml and config.toml.                                               *)
Served(config, i) == [config EXCEPT !.grpc = GRPCPort(i), !.api = APIPort(i)]

Listening(config, i) ==
  [config EXCEPT !.p2p = P2PPort(i), !.rpc = RPCPort(i), !.proxy = ProxyPort(i),
                 !.prometheus = PrometheusPort(i), !.peers = peers]

(* Sign and file the gentx of node `at`, write its app.toml, go on with    *)
(* the next node.                                                          *)
WriteGentx ==
  /\ phase = "gentx"
  /\ LET gentx == [node |-> dirs[at].id, account |-> dirs[at].account, stake |-> StakeOf(at)]
     IN  dirs' = [dirs EXCEPT ![at].gentxs = Filed(@, gentx),
                              ![at].config = Served(@, at)]
  /\ IF at + 1 < args.n THEN at' = at + 1 /\ phase' = "prepare"
                        ELSE at' = 0 /\ phase' = "genesis"
  /\ UNCHANGED <<run, args, accounts, peers, appState, cause, removed>>

WriteGenesis ==
  /\ phase = "genesis"
  /\ dirs' = [dirs EXCEPT ![at].genesis = [chain |-> run, accounts |-> accounts, gentxs |-> {}]]
  /\ UNCHANGED <<run, args, accounts, peers, appState, cause, removed>>

(* initGenFiles: the same genesis without gentxs for every node.           *)
InitGenFile ==
  /\ WriteGenesis
  /\ IF at + 1 < args.n THEN at' = at + 1 /\ UNCHANGED phase
                        ELSE at' = 0 /\ phase' = "copy"

(* The gentx that node k wrote into its own directory.                     *)
OwnGentx(k) == CHOOSE g \in dirs[k].gentxs : g.node = dirs[k].id

(* Mutants: no file is taken to lie in the directory, every file in that   *)
(* of the first node, every file in those of the others.                   *)
NoSubDir(k, i) == FALSE
AllBelowFirst(k, i) == k = i \/ i = 0
AllBelowOthers(k, i) == k = i \/ i # 0

(* isSubDir: the file of node k lies in the directory of node i.           *)
InSubDir(k, i) == k = i

(* copyFile truncates its destination before it reads the source: a file   *)
(* copied onto itself is lost.                                             *)
Copied(k, i) == IF k = i THEN [OwnGentx(k) EXCEPT !.account = <<>>] ELSE OwnGentx(k)

(* Copy the gentx of every node into every other directory.                *)
CopyGentx ==
  /\ phase = "copy"
  /\ LET i == at \div args.n
         k == at % args.n
     IN  dirs' = IF InSubDir(k, i) THEN dirs
                 ELSE [dirs EXCEPT ![i].gentxs = Filed(@, Copied(k, i))]
  /\ IF at + 1 < args.n * args.n THEN at' = at + 1 /\ UNCHANGED phase
                                 ELSE at' = 0 /\ phase' = "collect"
  /\ UNCHANGED <<run, args, accounts, peers, appState, cause, removed>>

(* CollectTxs of the SDK (external) checks every gentx in the directory    *)
(* against the balances of the genesis.                                    *)
Collectable(dir) ==
  \A g \in dir.gentxs : g.account \in dir.genesis.accounts /\ g.stake <= Balance

(* collectGenFiles: the gentxs of the directory become the application     *)
(* state of the node; every genesis file gets that of the first node.      *)
CollectNode ==
  /\ phase = "collect"
  /\ LET canonical == IF appState = <<>> THEN <<dirs[at].gentxs>> ELSE appState IN
     IF Collectable(dirs[at])
       THEN /\ appState' = canonical
            /\ dirs' = [dirs EXCEPT
                 ![at].genesis.gentxs = canonical[1],
                 ![at].config = Listening(@, at)]
            /\ IF at + 1 < args.n THEN at' = at + 1 /\ UNCHANGED phase
                                  ELSE at' = 0 /\ phase' = "done"
            /\ UNCHANGED cause
       ELSE /\ phase' = "failed" /\ cause' = "collect"
            /\ UNCHANGED <<at, appState, dirs>>
  /\ UNCHANGED <<run, args, accounts, peers, removed>>

(* An operation fails, or the process is killed: the files stay.           *)
Abort ==
  /\ Running
  /\ phase' = "failed" /\ cause' = "system"
  /\ UNCHANGED <<at, run, args, dirs, accounts, peers, appState, removed>>

(* The node keys that lie on the disk when making the node `at` fails: its *)
(* own may have been made before the key of its validator was not.         *)
KeyMade(i) == IF i = at THEN NodeKey(i) ELSE dirs[i].id

GentxFiles == UNION {{i} \X dirs[i].gentxs : i \in NodeIndices}

(* The node keys of `ids`, the gentx files `files`, and in the directories *)
(* `homes` the files that each run writes anew before it reads them.       *)
Left(ids, files, homes) ==
  [i \in NodeIndices |->
    [(IF i \in homes THEN dirs[i] ELSE NoDir) EXCEPT
       !.id = IF i \in ids THEN KeyMade(i) ELSE <<>>,
       !.gentxs = {g \in dirs[i].gentxs : <<i, g>> \in files}]]

(* Making the node's directory, its keys or its account fails: the code    *)
(* removes the output directory, with what earlier runs left in it.  The   *)
(* removal is a walk over the files that may itself fail, with its error   *)
(* discarded, or be killed half way: any of the files may stay.            *)
AbortAndRemoveAll ==
  /\ phase \in {"prepare", "account"}
  /\ phase' = "failed" /\ cause' = "system"
  /\ \E ids, homes \in SUBSET NodeIndices, files \in SUBSET GentxFiles :
       /\ dirs' = Left(ids, files, homes)
       /\ removed' = removed \cup ({dirs[i].id : i \in NodeIndices \ ids} \ {<<>>})
  /\ UNCHANGED <<at, run, args, accounts, peers, appState>>

Proceed ==
  PrepareNode \/ CreateAccount \/ WriteGentx \/ InitGenFile \/ CopyGentx \/ CollectNode

StakeLists == {<<t>> : t \in Texts} \cup {<<t, u>> : t, u \in Texts}

Next ==
  \/ \E n \in 1 .. MaxNodes, stakes \in StakeLists, ports \in PortLists :
       Start(n, stakes, ports)
  \/ Proceed \/ Abort \/ AbortAndRemoveAll

Spec == Init /\ [][Next]_vars

(***************************************************************************)
(* Properties                                                              *)
(***************************************************************************)

Nodes == 0 .. args.n - 1
Ids == {<<>>} \cup ((1 .. MaxRuns) \X NodeIndices)
Gentxs == [node : Ids, account : Ids, stake : Int]

(* Every variable keeps its type.                                          *)
TypeOK ==
  /\ phase \in {"idle", "prepare", "account", "gentx", "genesis", "copy", "collect",
                "done", "failed"}
  /\ at \in Nat /\ run \in 0 .. MaxRuns
  /\ at < MaxNodes * MaxNodes
  /\ args.n \in 0 .. MaxNodes
  /\ DOMAIN dirs = NodeIndices
  /\ \A i \in NodeIndices :
       /\ dirs[i].id \in Ids /\ dirs[i].account \in Ids
       /\ dirs[i].gentxs \subseteq Gentxs
       /\ dirs[i].genesis.chain \in 0 .. MaxRuns
       /\ dirs[i].genesis.accounts \subseteq Ids /\ dirs[i].genesis.gentxs \subseteq Gentxs
  /\ accounts \subseteq Ids
  /\ Len(peers) <= args.n
  /\ Len(appState) <= 1
  /\ cause \in {"none", "system", "amount", "collect"}
  /\ removed \subseteq Ids \ {<<>>}

(* A run that succeeds leaves one network, whatever earlier runs, finished *)
(* or not, left in the output directory: all its nodes have the same       *)
(* genesis, with one gentx per node, made with the account key that lies   *)
(* in the node's keyring and with the stake of the arguments.              *)
OneGenesis ==
  phase = "done" =>
    \A i \in Nodes :
      /\ dirs[i].genesis = dirs[0].genesis
      /\ dirs[i].genesis.chain = run
      /\ dirs[i].genesis.accounts = {dirs[j].account : j \in Nodes}
      /\ dirs[i].genesis.gentxs =
           {[node |-> dirs[j].id, account |-> dirs[j].account, stake |-> StakeOf(j)] : j \in Nodes}

(* "set the canonical application state (they should not differ)": the     *)
(* gentxs of the directories that collectGenFiles has passed are those of  *)
(* the first one, so taking the first node's state loses nothing.          *)
CollectedAgree ==
  phase \in {"collect", "done"} =>
    \A i \in IF phase = "done" THEN Nodes ELSE 0 .. at - 1 :
      dirs[i].gentxs = appState[1]

(* The gentxs are collected without error unless the arguments stake more  *)
(* than an account has, or a directory still holds the gentx of a node of  *)
(* an earlier run with more nodes, or one whose node key a removal of the  *)
(* output directory took and whose file it left.                           *)
CollectFailureCause ==
  phase = "failed" /\ cause = "collect" =>
    \E i \in Nodes :
      \/ StakeOf(i) > Balance
      \/ \E g \in dirs[i].gentxs :
           g.node \in removed \cup {dirs[j].id : j \in NodeIndices \ Nodes}

(* Every node of a finished testnet finds every other: the peer list names *)
(* the node's key and the port on which its config makes it listen.        *)
PeersListen ==
  phase = "done" =>
    \A i, j \in Nodes :
      dirs[i].config.peers[j + 1] = [node |-> dirs[j].id, port |-> dirs[j].config.p2p]

(* The ports on which node i listens.                                      *)
Services == {"p2p", "rpc", "proxy", "prometheus", "grpc", "api"}

(* No two listeners of a testnet on one host share a port, when the RPC    *)
(* ports are the default ones.                                             *)
ListenersDistinct ==
  phase = "done" /\ args.ports = <<>> =>
    \A i, j \in Nodes, s, t \in Services :
      dirs[i].config[s] = dirs[j].config[t] => i = j /\ s = t

(* A node that was announced under a key keeps it: whatever the runs after *)
(* it do, a peer list or a gentx file in the output directory names the    *)
(* key that lies beside it, unless a removal took that key.                *)
KeysAnnounced ==
  \A i \in NodeIndices :
    /\ \A j \in 1 .. Len(dirs[i].config.peers) :
         dirs[i].config.peers[j].node \in {dirs[j - 1].id} \cup removed
    /\ \A g \in dirs[i].gentxs : g.node \in {dirs[j].id : j \in NodeIndices} \cup removed

(* A run that succeeds leaves one network, on disk and on the wire, and    *)
(* what it collects on the way is the same in every directory.             *)
OneNetwork == OneGenesis /\ CollectedAgree /\ PeersListen /\ ListenersDistinct

(* The comment on the flag: "If the flag string is invalid, the amount     *)
(* will default to 100000000"; the others keep the amount listed for them. *)
InvalidAmountDefaults ==
  phase = "done" =>
    \A i \in Nodes : i < Len(args.stakes) =>
      LET text == args.stakes[i + 1] IN
      \A g \in dirs[i].genesis.gentxs :
        g.node = dirs[i].id => g.stake = IF text = Invalid THEN DefaultStake ELSE text

=============================================================================
