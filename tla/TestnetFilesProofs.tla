-------------------------- MODULE TestnetFilesProofs ---------------------------
(***************************************************************************)
(* The multi-node testnet generator, for any number of nodes, of runs, of  *)
(* stakes and of ports.                                                    *)
(*                                                                         *)
(* The invariant has a part that holds whatever the runs did so far, of    *)
(* the keys and the gentx files that outlive them (Named, Signed), and a   *)
(* part for each phase of the running one (Making, AllMade, Writing,       *)
(* Copying, Collecting, Finished).  What ties them is Has: of a node whose *)
(* gentx has been filed in a directory no other gentx is left there, so an *)
(* older one that makes the collection fail is that of a node the run does *)
(* not have, or one whose key a removal took and whose file it left.       *)
(***************************************************************************)
EXTENDS TestnetFiles, TLAPS

(***************************************************************************)
(* Types                                                                   *)
(***************************************************************************)
Config(c) == c \in [p2p : Int, rpc : {c.rpc}, proxy : Int, prometheus : Int, grpc : Int,
                    api : Int, peers : {c.peers}]

Genesis == [chain : 0 .. MaxRuns, accounts : SUBSET Ids, gentxs : SUBSET Gentxs]

Directory(d) ==
  /\ d \in [id : Ids, account : Ids, gentxs : SUBSET Gentxs, genesis : Genesis,
            config : {d.config}]
  /\ Config(d.config)

FilesTyped ==
  /\ dirs \in [NodeIndices -> {dirs[i] : i \in NodeIndices}]
  /\ \A i \in NodeIndices : Directory(dirs[i])

Phase == {"idle", "prepare", "account", "gentx", "genesis", "copy", "collect", "done", "failed"}

Typed ==
  /\ phase \in Phase /\ cause \in {"none", "system", "amount", "collect"}
  /\ run \in 0 .. MaxRuns
  /\ at \in Nat /\ at < MaxNodes * MaxNodes
  /\ args \in [n : 0 .. MaxNodes, stakes : Seq(Texts), ports : {args.ports}]
  /\ FilesTyped
  /\ accounts \subseteq Ids /\ removed \subseteq Ids \ {<<>>}
  /\ peers \in Seq({peers[k] : k \in DOMAIN peers}) /\ Len(peers) <= args.n
  /\ appState = <<>> \/ appState = <<appState[1]>>

(***************************************************************************)
(* What outlives the runs                                                  *)
(***************************************************************************)

(* Keys are made for the node that has them.                               *)
Named == \A i \in NodeIndices : dirs[i].id # <<>> => \E r \in 1 .. run : dirs[i].id = <<r, i>>

(* A gentx is that of a node, signed with an account the node had in some  *)
(* run, in the current one for the stake of the arguments.                 *)
SignedBy(g, k) ==
  /\ dirs[k].id # <<>> /\ g.node = dirs[k].id
  /\ \E r \in 1 .. run : g.account = <<r, k>> /\ (r = run => g.stake = StakeOf(k))

(* One whose key was removed; it is not of the run unless that ended.      *)
Orphan(g) ==
  /\ g.node \in removed
  /\ \E r \in 1 .. run, k \in NodeIndices :
       g.account = <<r, k>> /\ (r = run => phase = "failed")

Signed ==
  \A i \in NodeIndices : \A g \in dirs[i].gentxs :
    Orphan(g) \/ \E k \in NodeIndices : SignedBy(g, k)

(***************************************************************************)
(* The current run                                                         *)
(***************************************************************************)
Gentx(k) == [node |-> dirs[k].id, account |-> <<run, k>>, stake |-> StakeOf(k)]

Every == {Gentx(k) : k \in Nodes}

AccountsOf(m) == {<<run, j>> : j \in 0 .. m - 1}

(* Directory i has the gentx of node k, and no other of that node.         *)
Has(i, k) ==
  /\ Gentx(k) \in dirs[i].gentxs
  /\ \A g \in dirs[i].gentxs : g.node = dirs[k].id => g = Gentx(k)

Made(j) ==
  /\ dirs[j].id # <<>> /\ dirs[j].account = <<run, j>> /\ Has(j, j)
  /\ dirs[j].config.grpc = GRPCPort(j) /\ dirs[j].config.api = APIPort(j)

Fresh(j) == dirs[j].genesis = [chain |-> run, accounts |-> AccountsOf(args.n), gentxs |-> {}]

Collected(j) ==
  /\ dirs[j].genesis = [chain |-> run, accounts |-> AccountsOf(args.n), gentxs |-> Every]
  /\ dirs[j].gentxs = Every
  /\ dirs[j].config.p2p = P2PPort(j) /\ dirs[j].config.rpc = RPCPort(j)
  /\ dirs[j].config.proxy = ProxyPort(j) /\ dirs[j].config.prometheus = PrometheusPort(j)
  /\ dirs[j].config.peers = peers

AnnouncedAt(j) == peers[j + 1] = [node |-> dirs[j].id, port |-> AnnouncedPort(j)]

Announced == phase # "failed" => \A j \in 0 .. Len(peers) - 1 : AnnouncedAt(j)

Making ==
  phase \in {"prepare", "account", "gentx"} =>
    /\ at < args.n /\ run > 0 /\ appState = <<>>
    /\ \A j \in 0 .. at - 1 : Made(j)
    /\ accounts = AccountsOf(IF phase = "gentx" THEN at + 1 ELSE at)
    /\ Len(peers) = IF phase = "prepare" THEN at ELSE at + 1
    /\ phase # "prepare" => dirs[at].id # <<>>
    /\ phase = "gentx" => dirs[at].account = <<run, at>>

AllMade ==
  phase \in {"genesis", "copy", "collect", "done"} =>
    /\ run > 0 /\ accounts = AccountsOf(args.n) /\ Len(peers) = args.n
    /\ \A j \in Nodes : Made(j)

Writing ==
  phase = "genesis" => at < args.n /\ appState = <<>> /\ \A j \in 0 .. at - 1 : Fresh(j)

Copying ==
  phase = "copy" =>
    /\ at < args.n * args.n /\ appState = <<>>
    /\ \A j \in Nodes : Fresh(j)
    /\ \A i, k \in Nodes : i * args.n + k < at => Has(i, k)

Collecting ==
  phase = "collect" =>
    /\ at < args.n
    /\ \A i, k \in Nodes : Has(i, k)
    /\ \A j \in 0 .. at - 1 : Collected(j)
    /\ \A j \in at .. args.n - 1 : Fresh(j)
    /\ appState = IF at = 0 THEN <<>> ELSE <<Every>>

Finished == phase = "done" => appState = <<Every>> /\ \A j \in Nodes : Collected(j)

Progress == Announced /\ Making /\ AllMade /\ Writing /\ Copying /\ Collecting /\ Finished

IInv == Typed /\ Named /\ Signed /\ Progress /\ CollectFailureCause


(***************************************************************************)
(* Arguments                                                               *)
(***************************************************************************)
LEMMA NodesIn == ASSUME Typed PROVE Nodes \subseteq NodeIndices /\ args.n \in Nat
BY ArgumentsAssumption DEF Typed, Nodes, NodeIndices, ArgumentsAssumption

LEMMA StakeIsInteger == ASSUME Typed, NEW k PROVE StakeOf(k) \in Int
<1> DEFINE entries == {j \in Parsed(args.stakes) : Place(args.stakes, j) = k}
<1>1. StakeOf(k) = IF entries = {} THEN DefaultStake ELSE args.stakes[CHOOSE j \in entries : TRUE]
  BY DEF StakeOf
<1>2. entries \subseteq Parsed(args.stakes)
  OBVIOUS
<1> HIDE DEF entries
<1>3. \A j \in Parsed(args.stakes) : args.stakes[j] \in Int
  BY ArgumentsAssumption DEF Typed, Parsed, ArgumentsAssumption
<1>4. CASE entries = {}
  BY <1>1, <1>4 DEF DefaultStake
<1>5. CASE entries # {}
  BY <1>1, <1>2, <1>3, <1>5
<1>6. QED BY <1>4, <1>5

LEMMA SameStake == ASSUME args' = args, NEW k PROVE StakeOf(k)' = StakeOf(k)
BY DEF StakeOf

(* Loops end within the bound of their counter.                            *)
LEMMA Squares ==
  ASSUME NEW n \in 0 .. MaxNodes
  PROVE  n * n <= MaxNodes * MaxNodes /\ MaxNodes <= MaxNodes * MaxNodes
<1>1. MaxNodes \in Nat \ {0} /\ n \in Nat /\ n <= MaxNodes
  BY ArgumentsAssumption DEF ArgumentsAssumption
<1>2. n * n <= n * MaxNodes /\ n * MaxNodes <= MaxNodes * MaxNodes
  BY <1>1
<1>3. MaxNodes <= MaxNodes * MaxNodes
  BY <1>1
<1>4. n * n \in Nat /\ n * MaxNodes \in Nat /\ MaxNodes * MaxNodes \in Nat
  BY <1>1
<1>5. QED BY <1>1, <1>2, <1>3, <1>4

(* The pairs of the two nested loops, in one counter.                      *)
LEMMA PairOfCounter ==
  ASSUME NEW n \in Nat \ {0}, NEW a \in 0 .. n * n - 1
  PROVE  a \div n \in 0 .. n - 1 /\ a % n \in 0 .. n - 1 /\ a = (a \div n) * n + (a % n)
<1>1. a \in Nat /\ n * n \in Nat /\ a < n * n
  OBVIOUS
<1>2. a \div n \in Nat /\ a % n \in 0 .. n - 1 /\ a = (a \div n) * n + (a % n)
  BY <1>1
<1>3. ASSUME a \div n >= n PROVE FALSE
  <2> DEFINE q == a \div n
  <2>1. q \in Nat /\ q >= n /\ a >= q * n
    BY <1>2, <1>3
  <2> HIDE DEF q
  <2>2. q * n >= n * n /\ q * n \in Nat
    BY <2>1
  <2>3. QED BY <1>1, <2>1, <2>2
<1>4. QED BY <1>2, <1>3

LEMMA CounterOfPair ==
  ASSUME NEW n \in Nat \ {0}, NEW i \in 0 .. n - 1, NEW k \in 0 .. n - 1
  PROVE  i * n + k \in 0 .. n * n - 1
<1>1. i * n <= (n - 1) * n /\ (n - 1) * n = n * n - n
  OBVIOUS
<1>2. i * n \in Nat /\ n * n \in Nat
  OBVIOUS
<1>3. QED BY <1>1, <1>2

LEMMA OnePair ==
  ASSUME NEW n \in Nat \ {0}, NEW i \in 0 .. n - 1, NEW k \in 0 .. n - 1,
         NEW j \in 0 .. n - 1, NEW l \in 0 .. n - 1, i * n + k = j * n + l
  PROVE  i = j /\ k = l
<1>1. ASSUME NEW x \in 0 .. n - 1, NEW y \in 0 .. n - 1, x < y PROVE y * n >= x * n + n
  <2>1. y * n >= (x + 1) * n
    BY <1>1
  <2>2. (x + 1) * n = x * n + n
    OBVIOUS
  <2>3. QED BY <2>1, <2>2
<1>2. i * n \in Nat /\ j * n \in Nat
  OBVIOUS
<1>3. ~(i < j) /\ ~(j < i)
  BY <1>1, <1>2
<1>4. i = j
  BY <1>3
<1>5. QED BY <1>2, <1>4

(***************************************************************************)
(* What a step leaves alone                                                *)
(***************************************************************************)
LEMMA EmptyDirectory == Directory(NoDir)
<1>1. Config(NoConfig)
  BY DEF Config, NoConfig, NoPort
<1>2. NoGenesis \in Genesis
  BY ArgumentsAssumption DEF NoGenesis, Genesis, ArgumentsAssumption
<1>3. QED
  BY <1>1, <1>2 DEF Directory, NoDir, Ids

(* One directory is written.                                               *)
Written(i, d) == FilesTyped' /\ dirs'[i] = d /\ \A j \in NodeIndices \ {i} : dirs'[j] = dirs[j]

LEMMA OneWritten ==
  ASSUME FilesTyped, NEW i \in NodeIndices, NEW d, Directory(d), dirs' = [dirs EXCEPT ![i] = d]
  PROVE  Written(i, d)
<1>1. dirs'[i] = d /\ \A j \in NodeIndices \ {i} : dirs'[j] = dirs[j]
  BY DEF FilesTyped
<1>2. \A j \in NodeIndices : Directory(dirs'[j])
  BY <1>1 DEF FilesTyped
<1>3. dirs' \in [NodeIndices -> {dirs'[j] : j \in NodeIndices}]
  BY DEF FilesTyped
<1>4. QED
  BY <1>1, <1>2, <1>3 DEF Written, FilesTyped

(* A step of the run gives keys, but changes none.                         *)
Keeps ==
  /\ run' = run /\ args' = args /\ removed' = removed
  /\ \A j \in NodeIndices : dirs[j].id # <<>> => dirs'[j].id = dirs[j].id

LEMMA GentxKept ==
  ASSUME Keeps, NEW k \in NodeIndices, dirs[k].id # <<>>
  PROVE  Gentx(k)' = Gentx(k) /\ dirs'[k].id = dirs[k].id
BY SameStake DEF Keeps, Gentx

LEMMA HasKept ==
  ASSUME Keeps, NEW i \in NodeIndices, NEW k \in NodeIndices, dirs[k].id # <<>>, Has(i, k),
         dirs'[i].gentxs = dirs[i].gentxs
  PROVE  Has(i, k)'
BY GentxKept DEF Has

(* Directory j keeps what the node filed and serves.                       *)
SameNode(j) ==
  /\ dirs'[j].gentxs = dirs[j].gentxs /\ dirs'[j].account = dirs[j].account
  /\ dirs'[j].config.grpc = dirs[j].config.grpc /\ dirs'[j].config.api = dirs[j].config.api

LEMMA MadeKept ==
  ASSUME Keeps, NEW j \in NodeIndices, Made(j), SameNode(j)
  PROVE  Made(j)'
<1>1. Has(j, j)'
  BY HasKept DEF Made, SameNode
<1>2. /\ dirs'[j].id # <<>> /\ dirs'[j].account = <<run', j>>
      /\ dirs'[j].config.grpc = GRPCPort(j) /\ dirs'[j].config.api = APIPort(j)
  BY DEF Made, SameNode, Keeps
<1>3. QED BY <1>1, <1>2 DEF Made, GRPCPort, APIPort

LEMMA FreshKept ==
  ASSUME Keeps, NEW j \in NodeIndices, Fresh(j), dirs'[j].genesis = dirs[j].genesis
  PROVE  Fresh(j)'
BY DEF Keeps, Fresh, AccountsOf

LEMMA EveryKept ==
  ASSUME Typed, Keeps, \A k \in Nodes : dirs[k].id # <<>>
  PROVE  Every' = Every
<1>1. Nodes' = Nodes
  BY DEF Keeps, Nodes
<1>2. \A k \in Nodes : Gentx(k)' = Gentx(k)
  BY NodesIn, GentxKept
<1>3. QED BY <1>1, <1>2 DEF Every

LEMMA CollectedKept ==
  ASSUME Typed, Keeps, NEW j \in NodeIndices, Collected(j), dirs'[j] = dirs[j], peers' = peers,
         \A k \in Nodes : dirs[k].id # <<>>
  PROVE  Collected(j)'
<1>1. Every' = Every
  BY EveryKept
<1>2. AccountsOf(args.n)' = AccountsOf(args.n)
  BY DEF Keeps, AccountsOf
<1>3. RPCPort(j)' = RPCPort(j)
  BY DEF Keeps, RPCPort
<1>4. QED
  BY <1>1, <1>2, <1>3 DEF Keeps, Collected, P2PPort, ProxyPort, PrometheusPort

(* A key that is new is that of the run and the node.                      *)
LEMMA NamedKept ==
  ASSUME Typed, Named, run' = run, run > 0,
         \A j \in NodeIndices : dirs'[j].id = dirs[j].id \/ dirs'[j].id = <<run, j>>
  PROVE  Named'
<1>1. run \in 1 .. run
  BY DEF Typed
<1>2. QED BY <1>1 DEF Named

LEMMA NamesDiffer ==
  ASSUME Named, NEW i \in NodeIndices, NEW k \in NodeIndices, dirs[i].id # <<>>,
         dirs[i].id = dirs[k].id
  PROVE  i = k
BY DEF Named

(* A gentx that is new is that of the run and a node.                      *)
LEMMA SignedKept ==
  ASSUME Typed, Signed, Keeps, run > 0, phase # "failed",
         \A i \in NodeIndices : \A g \in dirs'[i].gentxs :
           g \in dirs[i].gentxs \/ \E k \in NodeIndices : dirs[k].id # <<>> /\ g = Gentx(k)
  PROVE  Signed'
<1>1. ASSUME NEW g, NEW k \in NodeIndices, SignedBy(g, k) PROVE SignedBy(g, k)'
  BY <1>1, SameStake DEF SignedBy, Keeps
<1>2. ASSUME NEW k \in NodeIndices, dirs[k].id # <<>> PROVE SignedBy(Gentx(k), k)
  <2>1. run \in 1 .. run
    BY DEF Typed
  <2>2. QED BY <1>2, <2>1 DEF SignedBy, Gentx
<1>3. ASSUME NEW g, Orphan(g) PROVE Orphan(g)'
  BY <1>3 DEF Orphan, Keeps
<1>4. QED BY <1>1, <1>2, <1>3 DEF Signed

(* The gentx of a node replaces an older one of the node and no other.     *)
LEMMA FiledHas ==
  ASSUME Keeps, NEW i \in NodeIndices, NEW k \in NodeIndices, dirs[k].id # <<>>,
         dirs'[i].gentxs = Filed(dirs[i].gentxs, Gentx(k))
  PROVE  Has(i, k)'
<1>1. Gentx(k)' = Gentx(k) /\ dirs'[k].id = dirs[k].id /\ Gentx(k).node = dirs[k].id
  BY GentxKept DEF Gentx
<1>2. QED BY <1>1 DEF Has, Filed

LEMMA FiledKeepsOthers ==
  ASSUME Named, Keeps, NEW i \in NodeIndices, NEW k \in NodeIndices, NEW j \in NodeIndices,
         k # j, dirs[k].id # <<>>, dirs[j].id # <<>>, Has(i, k),
         dirs'[i].gentxs = Filed(dirs[i].gentxs, Gentx(j))
  PROVE  Has(i, k)'
<1>1. dirs[k].id # dirs[j].id
  BY NamesDiffer
<1>2. Gentx(k)' = Gentx(k) /\ dirs'[k].id = dirs[k].id
  BY GentxKept
<1>3. Gentx(k).node = dirs[k].id /\ Gentx(j).node = dirs[j].id
  BY DEF Gentx
<1>4. QED BY <1>1, <1>2, <1>3 DEF Has, Filed

LEMMA GentxTyped ==
  ASSUME Typed, NEW k \in NodeIndices, run > 0
  PROVE  Gentx(k) \in Gentxs
<1>1. dirs[k].id \in Ids
  BY DEF Typed, FilesTyped, Directory
<1>2. <<run, k>> \in Ids
  BY DEF Typed, Ids
<1>3. StakeOf(k) \in Int
  BY StakeIsInteger
<1>4. QED BY <1>1, <1>2, <1>3 DEF Gentx, Gentxs

(***************************************************************************)
(* The steps                                                               *)
(***************************************************************************)
LEMMA InitIInv == Init => IInv
<1> SUFFICES ASSUME Init PROVE IInv
  OBVIOUS
<1>1. /\ phase = "idle" /\ at = 0 /\ run = 0 /\ accounts = {} /\ peers = <<>>
      /\ appState = <<>> /\ cause = "none" /\ removed = {} /\ dirs = [i \in NodeIndices |-> NoDir]
      /\ args = [n |-> 0, stakes |-> <<>>, ports |-> <<>>]
  BY DEF Init
<1>2. FilesTyped
  BY <1>1, EmptyDirectory DEF FilesTyped
<1>3. MaxNodes \in Nat \ {0} /\ MaxRuns \in Nat
  BY ArgumentsAssumption DEF ArgumentsAssumption
<1>4. MaxNodes <= MaxNodes * MaxNodes
  BY <1>3, Squares
<1>5. at < MaxNodes * MaxNodes
  BY <1>1, <1>3, <1>4
<1>6. Typed
  BY <1>1, <1>2, <1>3, <1>5 DEF Typed, Phase
<1>7. \A i \in NodeIndices : dirs[i].id = <<>> /\ dirs[i].gentxs = {}
  BY <1>1 DEF NoDir
<1>8. Named /\ Signed
  BY <1>7 DEF Named, Signed
<1>9. Progress
  BY <1>1 DEF Progress, Announced, Making, AllMade, Writing, Copying, Collecting, Finished
<1>10. CollectFailureCause
  BY <1>1 DEF CollectFailureCause
<1>11. QED BY <1>6, <1>8, <1>9, <1>10 DEF IInv

LEMMA StartIInv ==
  ASSUME IInv, NEW n \in 1 .. MaxNodes, NEW stakes \in StakeLists, NEW ports,
         Start(n, stakes, ports)
  PROVE  IInv'
<1>1. /\ run < MaxRuns /\ run' = run + 1 /\ at' = 0 /\ accounts' = {} /\ peers' = <<>>
      /\ appState' = <<>> /\ dirs' = dirs /\ removed' = removed
      /\ args' = [n |-> n, stakes |-> stakes, ports |-> ports]
      /\ \/ phase' = "failed" /\ cause' = "amount"
         \/ phase' = "prepare" /\ cause' = "none"
  BY DEF Start
<1>2. Typed
  BY DEF IInv
<1>3. n \in Nat /\ n > 0 /\ n \in 0 .. MaxNodes
  BY ArgumentsAssumption DEF ArgumentsAssumption
<1>4. stakes \in Seq(Texts)
  <2>1. CASE \E t \in Texts : stakes = <<t>>
    BY <2>1
  <2>2. CASE \E t, u \in Texts : stakes = <<t, u>>
    BY <2>2
  <2>3. QED BY <2>1, <2>2 DEF StakeLists
<1>5. run \in Nat /\ MaxRuns \in Nat /\ run' \in 0 .. MaxRuns
  BY <1>1, <1>2, ArgumentsAssumption DEF Typed, ArgumentsAssumption
<1>6. at' < MaxNodes * MaxNodes
  BY <1>1, Squares, ArgumentsAssumption DEF ArgumentsAssumption
<1>7. Typed'
  BY <1>1, <1>2, <1>3, <1>4, <1>5, <1>6 DEF Typed, FilesTyped, Phase
<1>8. Named'
  BY <1>1, <1>5 DEF IInv, Named
<1>9. Signed'
  <2>1. ASSUME NEW g, NEW k \in NodeIndices, SignedBy(g, k) PROVE SignedBy(g, k)'
    BY <1>1, <1>5, <2>1 DEF SignedBy
  <2>2. ASSUME NEW g, Orphan(g) PROVE Orphan(g)'
    BY <1>1, <1>5, <2>2 DEF Orphan
  <2>3. QED BY <1>1, <2>1, <2>2 DEF IInv, Signed
<1>10. Progress'
  <2>1. AccountsOf(0)' = {}
    BY DEF AccountsOf
  <2>2. QED
    BY <1>1, <1>3, <1>5, <2>1
       DEF Progress, Announced, Making, AllMade, Writing, Copying, Collecting, Finished
<1>11. CollectFailureCause'
  BY <1>1 DEF CollectFailureCause
<1>12. QED BY <1>7, <1>8, <1>9, <1>10, <1>11 DEF IInv

LEMMA PrepareNodeIInv == ASSUME IInv, PrepareNode PROVE IInv'
<1>1. /\ phase = "prepare" /\ phase' = "account"
      /\ dirs' = [dirs EXCEPT ![at].id = NodeKey(at)]
      /\ peers' = Append(peers, [node |-> NodeKey(at), port |-> AnnouncedPort(at)])
      /\ UNCHANGED <<at, run, args, accounts, appState, cause, removed>>
  BY DEF PrepareNode
<1>2. Typed /\ Named /\ Signed /\ Announced /\ FilesTyped
  BY DEF IInv, Progress, Typed
<1>3. /\ at < args.n /\ run > 0 /\ appState = <<>> /\ Len(peers) = at
      /\ \A j \in 0 .. at - 1 : Made(j)
      /\ accounts = AccountsOf(at)
  BY <1>1 DEF IInv, Progress, Making
<1>4. at \in Nat /\ at \in Nodes /\ at \in NodeIndices /\ args.n \in Nat
  BY <1>2, <1>3, NodesIn DEF Typed, Nodes
<1>0. \A j \in 0 .. at - 1 : j \in NodeIndices
  BY <1>4, ArgumentsAssumption DEF NodeIndices, ArgumentsAssumption
<1> DEFINE key == NodeKey(at)
           d == [dirs[at] EXCEPT !.id = key]
<1>5. key \in Ids /\ key # <<>> /\ (dirs[at].id # <<>> => key = dirs[at].id)
      /\ (key = dirs[at].id \/ key = <<run, at>>)
  BY <1>2, <1>3, <1>4 DEF NodeKey, Typed, FilesTyped, Directory, Ids
<1> HIDE DEF key
<1>6. /\ d.id = key /\ d.account = dirs[at].account /\ d.gentxs = dirs[at].gentxs
      /\ d.genesis = dirs[at].genesis /\ d.config = dirs[at].config /\ Directory(d)
  BY <1>2, <1>4, <1>5 DEF FilesTyped, Directory
<1>7. dirs' = [dirs EXCEPT ![at] = d]
  BY <1>1 DEF key
<1> HIDE DEF d
<1>8. Written(at, d)
  BY <1>2, <1>4, <1>6, <1>7, OneWritten
<1>9. Keeps
  BY <1>1, <1>5, <1>6, <1>8 DEF Keeps, Written
<1>10. \A j \in NodeIndices : SameNode(j)
  BY <1>6, <1>8 DEF SameNode, Written
<1>11. /\ peers' \in Seq({peers'[k] : k \in DOMAIN peers'}) /\ Len(peers') = at + 1
       /\ \A j \in 0 .. at - 1 : peers'[j + 1] = peers[j + 1]
       /\ peers'[at + 1] = [node |-> key, port |-> AnnouncedPort(at)]
  <2>1. peers' = Append(peers, [node |-> key, port |-> AnnouncedPort(at)])
    BY <1>1 DEF key
  <2>2. peers \in Seq({peers[k] : k \in DOMAIN peers}) /\ Len(peers) = at /\ at \in Nat
    BY <1>2, <1>3, <1>4 DEF Typed
  <2>3. QED BY ONLY <2>1, <2>2
<1>12. Typed'
  BY <1>1, <1>2, <1>3, <1>4, <1>8, <1>11 DEF Typed, Phase, Written
<1>13. Named'
  BY <1>1, <1>2, <1>3, <1>5, <1>6, <1>8, NamedKept DEF Written
<1>14. Signed'
  BY <1>1, <1>2, <1>3, <1>9, <1>10, SignedKept DEF SameNode
<1>15. Announced'
  <2>1. ASSUME NEW j \in 0 .. at - 1 PROVE AnnouncedAt(j)'
    <3>1. j \in NodeIndices /\ dirs[j].id # <<>> /\ j \in 0 .. Len(peers) - 1
      BY <1>0, <1>3 DEF Made
    <3>2. AnnouncedAt(j)
      BY <1>1, <1>2, <3>1 DEF Announced
    <3>3. peers'[j + 1] = peers[j + 1] /\ dirs'[j].id = dirs[j].id
      BY <1>9, <1>11, <3>1 DEF Keeps
    <3>4. QED BY <3>2, <3>3 DEF AnnouncedAt, AnnouncedPort
  <2>2. ASSUME NEW j, j = at PROVE AnnouncedAt(j)'
    <3>1. dirs'[at].id = key
      BY <1>6, <1>8 DEF Written
    <3>2. QED BY <1>11, <2>2, <3>1 DEF AnnouncedAt, AnnouncedPort
  <2>3. \A j \in 0 .. Len(peers') - 1 : j \in 0 .. at - 1 \/ j = at
    BY <1>4, <1>11
  <2>4. \A j \in 0 .. Len(peers') - 1 : AnnouncedAt(j)'
    BY <2>1, <2>2, <2>3
  <2>5. QED BY <2>4 DEF Announced
<1>16. Making'
  <2>1. \A j \in 0 .. at - 1 : Made(j)'
    BY <1>0, <1>3, <1>9, <1>10, MadeKept
  <2>2. AccountsOf(at)' = AccountsOf(at)
    BY <1>1 DEF AccountsOf
  <2>3. dirs'[at].id # <<>>
    BY <1>5, <1>6, <1>8 DEF Written
  <2>4. QED BY <1>1, <1>3, <1>11, <2>1, <2>2, <2>3 DEF Making
<1>17. Progress'
  BY <1>1, <1>15, <1>16 DEF Progress, AllMade, Writing, Copying, Collecting, Finished
<1>18. CollectFailureCause'
  BY <1>1 DEF CollectFailureCause
<1>19. QED BY <1>12, <1>13, <1>14, <1>17, <1>18 DEF IInv

LEMMA AnnouncedKept ==
  ASSUME Typed, Announced, phase # "failed", peers' = peers,
         \A j \in NodeIndices : dirs'[j].id = dirs[j].id
  PROVE  Announced'
<1>1. \A j \in 0 .. Len(peers) - 1 : j \in NodeIndices
  BY ArgumentsAssumption DEF Typed, NodeIndices, ArgumentsAssumption
<1>2. \A j \in 0 .. Len(peers) - 1 : AnnouncedAt(j)'
  BY <1>1 DEF Announced, AnnouncedAt, AnnouncedPort
<1>3. QED BY <1>2 DEF Announced

LEMMA OneMoreAccount ==
  ASSUME NEW m \in Nat
  PROVE  AccountsOf(m + 1) = AccountsOf(m) \cup {<<run, m>>}
<1>1. \A j : j \in 0 .. m <=> j \in 0 .. m - 1 \/ j = m
  OBVIOUS
<1>2. 0 .. (m + 1) - 1 = 0 .. m
  OBVIOUS
<1>3. QED BY <1>1, <1>2 DEF AccountsOf

LEMMA CreateAccountIInv == ASSUME IInv, CreateAccount PROVE IInv'
<1>1. /\ phase = "account" /\ phase' = "gentx"
      /\ dirs' = [dirs EXCEPT ![at].account = <<run, at>>]
      /\ accounts' = accounts \cup {<<run, at>>}
      /\ UNCHANGED <<at, run, args, peers, appState, cause, removed>>
  BY DEF CreateAccount
<1>2. Typed /\ Named /\ Signed /\ Announced /\ FilesTyped
  BY DEF IInv, Progress, Typed
<1>3. /\ at < args.n /\ run > 0 /\ appState = <<>> /\ Len(peers) = at + 1
      /\ \A j \in 0 .. at - 1 : Made(j)
      /\ accounts = AccountsOf(at) /\ dirs[at].id # <<>>
  BY <1>1 DEF IInv, Progress, Making
<1>4. at \in Nat /\ at \in Nodes /\ at \in NodeIndices /\ args.n \in Nat
  BY <1>2, <1>3, NodesIn DEF Typed, Nodes
<1>5. \A j \in 0 .. at - 1 : j \in NodeIndices
  BY <1>4, ArgumentsAssumption DEF NodeIndices, ArgumentsAssumption
<1>6. <<run, at>> \in Ids
  BY <1>2, <1>3, <1>4 DEF Typed, Ids
<1> DEFINE d == [dirs[at] EXCEPT !.account = <<run, at>>]
<1>7. /\ d.id = dirs[at].id /\ d.account = <<run, at>> /\ d.gentxs = dirs[at].gentxs
      /\ d.genesis = dirs[at].genesis /\ d.config = dirs[at].config /\ Directory(d)
  BY <1>2, <1>4, <1>6 DEF FilesTyped, Directory
<1>8. dirs' = [dirs EXCEPT ![at] = d]
  BY <1>1
<1> HIDE DEF d
<1>9. Written(at, d)
  BY <1>2, <1>4, <1>7, <1>8, OneWritten
<1>10. Keeps /\ \A j \in NodeIndices : dirs'[j].id = dirs[j].id /\ dirs'[j].gentxs = dirs[j].gentxs
  BY <1>1, <1>7, <1>9 DEF Keeps, Written
<1>11. \A j \in 0 .. at - 1 : SameNode(j)
  BY <1>4, <1>5, <1>9 DEF SameNode, Written
<1>12. Typed'
  <2>1. accounts' \subseteq Ids
    BY <1>1, <1>2, <1>6 DEF Typed
  <2>2. FilesTyped'
    BY <1>9 DEF Written
  <2>3. phase' \in Phase /\ UNCHANGED <<at, run, args, peers, appState, cause, removed>>
    BY <1>1 DEF Phase
  <2>4. QED BY <1>2, <2>1, <2>2, <2>3 DEF Typed
<1>13. Named' /\ Signed' /\ Announced'
  BY <1>1, <1>2, <1>3, <1>10, NamedKept, SignedKept, AnnouncedKept
<1>14. Making'
  <2>1. \A j \in 0 .. at - 1 : Made(j)'
    BY <1>3, <1>5, <1>10, <1>11, MadeKept
  <2>2. accounts' = AccountsOf(at + 1)'
    BY <1>1, <1>3, <1>4, OneMoreAccount DEF AccountsOf
  <2>3. dirs'[at].id # <<>> /\ dirs'[at].account = <<run, at>>
    BY <1>3, <1>7, <1>9 DEF Written
  <2>4. QED BY <1>1, <1>3, <2>1, <2>2, <2>3 DEF Making
<1>15. Progress'
  BY <1>1, <1>13, <1>14 DEF Progress, AllMade, Writing, Copying, Collecting, Finished
<1>16. CollectFailureCause'
  BY <1>1 DEF CollectFailureCause
<1>17. QED BY <1>12, <1>13, <1>15, <1>16 DEF IInv

LEMMA ServedFields ==
  ASSUME NEW c, Config(c), NEW i \in Nat
  PROVE  Config(Served(c, i)) /\ Served(c, i).grpc = GRPCPort(i) /\ Served(c, i).api = APIPort(i)
<1>1. GRPCPort(i) \in Int /\ APIPort(i) \in Int
  BY DEF GRPCPort, APIPort
<1>2. QED BY <1>1 DEF Config, Served

LEMMA WriteGentxIInv == ASSUME IInv, WriteGentx PROVE IInv'
<1> DEFINE gentx == [node |-> dirs[at].id, account |-> dirs[at].account, stake |-> StakeOf(at)]
<1>1. /\ phase = "gentx"
      /\ dirs' = [dirs EXCEPT ![at].gentxs = Filed(@, gentx), ![at].config = Served(@, at)]
      /\ IF at + 1 < args.n THEN at' = at + 1 /\ phase' = "prepare"
                            ELSE at' = 0 /\ phase' = "genesis"
      /\ UNCHANGED <<run, args, accounts, peers, appState, cause, removed>>
  BY DEF WriteGentx
<1>2. Typed /\ Named /\ Signed /\ Announced /\ FilesTyped
  BY DEF IInv, Progress, Typed
<1>3. /\ at < args.n /\ run > 0 /\ appState = <<>> /\ Len(peers) = at + 1
      /\ \A j \in 0 .. at - 1 : Made(j)
      /\ accounts = AccountsOf(at + 1)
      /\ dirs[at].id # <<>> /\ dirs[at].account = <<run, at>>
  BY <1>1 DEF IInv, Progress, Making
<1>4. at \in Nat /\ at \in Nodes /\ at \in NodeIndices /\ args.n \in Nat
  BY <1>2, <1>3, NodesIn DEF Typed, Nodes
<1>5. \A j \in 0 .. at - 1 : j \in NodeIndices
  BY <1>4, ArgumentsAssumption DEF NodeIndices, ArgumentsAssumption
<1>6. gentx = Gentx(at) /\ Gentx(at) \in Gentxs
  BY <1>2, <1>3, <1>4, GentxTyped DEF Gentx
<1> HIDE DEF gentx
<1> DEFINE d == [dirs[at] EXCEPT !.gentxs = Filed(@, gentx), !.config = Served(@, at)]
<1>7. /\ d.id = dirs[at].id /\ d.account = dirs[at].account
      /\ d.gentxs = Filed(dirs[at].gentxs, Gentx(at))
      /\ d.genesis = dirs[at].genesis /\ d.config = Served(dirs[at].config, at)
  BY <1>2, <1>4, <1>6 DEF FilesTyped, Directory
<1>8. Directory(d)
  <2>1. Config(d.config)
    BY <1>2, <1>4, <1>7, ServedFields DEF FilesTyped, Directory
  <2>2. d.gentxs \in SUBSET Gentxs
    BY <1>2, <1>4, <1>6, <1>7 DEF FilesTyped, Directory, Filed
  <2>3. d \in [id : Ids, account : Ids, gentxs : SUBSET Gentxs, genesis : Genesis,
               config : {d.config}]
    BY <1>2, <1>4, <1>7, <2>2 DEF FilesTyped, Directory
  <2>4. QED BY <2>1, <2>3 DEF Directory
<1>9. dirs' = [dirs EXCEPT ![at] = d]
  BY <1>1, Zenon
<1> HIDE DEF d
<1>10. Written(at, d)
  BY <1>2, <1>4, <1>8, <1>9, OneWritten
<1>11. Keeps /\ \A j \in NodeIndices : dirs'[j].id = dirs[j].id
  BY <1>1, <1>7, <1>10 DEF Keeps, Written
<1>12. \A j \in 0 .. at - 1 : SameNode(j)
  BY <1>4, <1>5, <1>10 DEF SameNode, Written
<1>13. at' \in Nat /\ at' < MaxNodes * MaxNodes
  <2>1. args.n \in 0 .. MaxNodes /\ MaxNodes \in Nat \ {0} /\ MaxNodes * MaxNodes \in Nat
    BY <1>2, ArgumentsAssumption DEF Typed, ArgumentsAssumption
  <2>2. MaxNodes <= MaxNodes * MaxNodes
    BY <2>1, Squares
  <2>3. at' \in Nat /\ at' < args.n
    BY <1>1, <1>3, <1>4
  <2>4. QED BY <2>1, <2>2, <2>3
<1>14. Typed'
  BY <1>1, <1>2, <1>10, <1>13 DEF Typed, Phase, Written
<1>15. Named' /\ Announced'
  BY <1>1, <1>2, <1>3, <1>11, NamedKept, AnnouncedKept
<1>16. Signed'
  <2>1. ASSUME NEW i \in NodeIndices, NEW g \in dirs'[i].gentxs
        PROVE  g \in dirs[i].gentxs \/ g = Gentx(at)
    <3>1. CASE i = at
      BY <1>7, <1>10, <2>1, <3>1 DEF Written, Filed
    <3>2. CASE i # at
      BY <1>10, <2>1, <3>2 DEF Written
    <3>3. QED BY <3>1, <3>2
  <2>2. QED BY <1>1, <1>2, <1>3, <1>4, <1>11, <2>1, SignedKept
<1>17. \A j \in 0 .. at : Made(j)'
  <2>1. \A j \in 0 .. at - 1 : Made(j)'
    BY <1>3, <1>5, <1>11, <1>12, MadeKept
  <2>2. ASSUME NEW j \in NodeIndices, j = at PROVE Made(j)'
    <3>1. dirs'[j] = d /\ d.id # <<>> /\ d.account = <<run', j>>
      BY <1>1, <1>3, <1>7, <1>10, <2>2 DEF Written
    <3>2. Has(j, j)'
      BY <1>3, <1>7, <1>11, <2>2, <3>1, FiledHas
    <3>3. d.config.grpc = GRPCPort(j) /\ d.config.api = APIPort(j)
      BY <1>2, <1>4, <1>7, <2>2, ServedFields DEF FilesTyped, Directory
    <3>4. GRPCPort(j)' = GRPCPort(j) /\ APIPort(j)' = APIPort(j)
      BY DEF GRPCPort, APIPort
    <3>5. QED BY <3>1, <3>2, <3>3, <3>4 DEF Made
  <2>3. \A j \in 0 .. at : j \in 0 .. at - 1 \/ j = at
    BY <1>4
  <2>4. QED BY <1>4, <2>1, <2>2, <2>3
<1>18. CASE at + 1 < args.n
  <2>1. at' = at + 1 /\ phase' = "prepare"
    BY <1>1, <1>18
  <2>2. 0 .. at' - 1 = 0 .. at
    BY <1>4, <2>1
  <2>3. accounts' = AccountsOf(at + 1)
    BY <1>1, <1>3
  <2>4. AccountsOf(at)' = AccountsOf(at + 1)
    BY <1>1, <2>1 DEF AccountsOf
  <2>5. \A j \in 0 .. at' - 1 : Made(j)'
    BY <1>17, <2>2
  <2>6. Making'
    BY <1>1, <1>3, <1>18, <2>1, <2>3, <2>4, <2>5 DEF Making
  <2>7. Progress'
    BY <1>15, <2>1, <2>6 DEF Progress, AllMade, Writing, Copying, Collecting, Finished
  <2>8. CollectFailureCause'
    BY <2>1 DEF CollectFailureCause
  <2>9. QED BY <1>14, <1>15, <1>16, <2>7, <2>8 DEF IInv
<1>19. CASE ~(at + 1 < args.n)
  <2>1. at' = 0 /\ phase' = "genesis" /\ args.n = at + 1
    BY <1>1, <1>3, <1>4, <1>19
  <2>2. Nodes' = 0 .. at /\ 0 .. at' - 1 = {}
    BY <1>1, <1>4, <2>1 DEF Nodes
  <2>3. AccountsOf(args.n)' = AccountsOf(args.n) /\ accounts' = AccountsOf(args.n)
    BY <1>1, <1>3, <2>1 DEF AccountsOf
  <2>4. Writing'
    BY <1>1, <1>3, <1>4, <2>1, <2>2 DEF Writing
  <2>5. AllMade'
    BY <1>1, <1>3, <1>17, <2>1, <2>2, <2>3 DEF AllMade
  <2>6. Progress'
    BY <1>15, <2>1, <2>4, <2>5 DEF Progress, Making, Copying, Collecting, Finished
  <2>7. CollectFailureCause'
    BY <2>1 DEF CollectFailureCause
  <2>8. QED BY <1>14, <1>15, <1>16, <2>6, <2>7 DEF IInv
<1>20. QED BY <1>18, <1>19

LEMMA InitGenFileIInv == ASSUME IInv, InitGenFile PROVE IInv'
<1> DEFINE file == [chain |-> run, accounts |-> accounts, gentxs |-> {}]
<1>1. /\ phase = "genesis"
      /\ dirs' = [dirs EXCEPT ![at].genesis = file]
      /\ IF at + 1 < args.n THEN at' = at + 1 /\ UNCHANGED phase
                            ELSE at' = 0 /\ phase' = "copy"
      /\ UNCHANGED <<run, args, accounts, peers, appState, cause, removed>>
  BY DEF InitGenFile, WriteGenesis
<1>2. Typed /\ Named /\ Signed /\ Announced /\ FilesTyped
  BY DEF IInv, Progress, Typed
<1>3. /\ at < args.n /\ run > 0 /\ appState = <<>> /\ Len(peers) = args.n
      /\ accounts = AccountsOf(args.n)
      /\ \A j \in Nodes : Made(j)
      /\ \A j \in 0 .. at - 1 : Fresh(j)
  BY <1>1 DEF IInv, Progress, AllMade, Writing
<1>4. at \in Nat /\ at \in Nodes /\ Nodes \subseteq NodeIndices /\ args.n \in Nat
  BY <1>2, <1>3, NodesIn DEF Typed, Nodes
<1>5. \A j \in 0 .. at - 1 : j \in Nodes
  BY <1>3, <1>4 DEF Nodes
<1>6. file \in Genesis
  BY <1>2 DEF Typed, Genesis
<1> HIDE DEF file
<1> DEFINE d == [dirs[at] EXCEPT !.genesis = file]
<1>7. /\ d.id = dirs[at].id /\ d.account = dirs[at].account /\ d.gentxs = dirs[at].gentxs
      /\ d.genesis = file /\ d.config = dirs[at].config /\ Directory(d)
  BY <1>2, <1>4, <1>6 DEF FilesTyped, Directory
<1>8. dirs' = [dirs EXCEPT ![at] = d]
  BY <1>1
<1> HIDE DEF d
<1>9. Written(at, d)
  BY <1>2, <1>4, <1>7, <1>8, OneWritten
<1>10. Keeps /\ \A j \in NodeIndices : dirs'[j].id = dirs[j].id /\ dirs'[j].gentxs = dirs[j].gentxs
  BY <1>1, <1>7, <1>9 DEF Keeps, Written
<1>11. \A j \in NodeIndices : SameNode(j)
  BY <1>4, <1>7, <1>9 DEF SameNode, Written
<1>12. MaxNodes \in Nat \ {0} /\ args.n \in 0 .. MaxNodes /\ MaxNodes * MaxNodes \in Nat
  BY <1>2, ArgumentsAssumption DEF Typed, ArgumentsAssumption
<1>13. at' \in Nat /\ at' < args.n
  BY <1>1, <1>3, <1>4
<1>14. at' < MaxNodes * MaxNodes
  BY <1>4, <1>12, <1>13, Squares
<1>15. Typed'
  BY <1>1, <1>2, <1>9, <1>13, <1>14 DEF Typed, Phase, Written
<1>16. Named' /\ Signed' /\ Announced'
  BY <1>1, <1>2, <1>3, <1>10, NamedKept, SignedKept, AnnouncedKept
<1>17. Nodes' = Nodes /\ AccountsOf(args.n)' = AccountsOf(args.n)
  BY <1>1 DEF Nodes, AccountsOf
<1>18. AllMade'
  <2>1. \A j \in Nodes : Made(j)'
    BY <1>3, <1>4, <1>10, <1>11, MadeKept
  <2>2. QED BY <1>1, <1>3, <1>17, <2>1 DEF AllMade
<1>19. \A j \in 0 .. at : Fresh(j)'
  <2>1. ASSUME NEW j \in 0 .. at - 1 PROVE Fresh(j)'
    <3>1. j \in NodeIndices /\ j # at
      BY <1>4, <1>5
    <3>2. QED BY <1>3, <1>9, <1>10, <3>1, FreshKept DEF Written
  <2>2. ASSUME NEW j, j = at PROVE Fresh(j)'
    BY <1>1, <1>3, <1>7, <1>9, <1>17, <2>2 DEF Fresh, Written, file
  <2>3. \A j \in 0 .. at : j \in 0 .. at - 1 \/ j = at
    BY <1>4
  <2>4. QED BY <2>1, <2>2, <2>3
<1>20. CASE at + 1 < args.n
  <2>1. at' = at + 1 /\ phase' = "genesis"
    BY <1>1, <1>20
  <2>2. 0 .. at' - 1 = 0 .. at
    BY <1>4, <2>1
  <2>3. Writing'
    BY <1>1, <1>3, <1>19, <1>20, <2>1, <2>2 DEF Writing
  <2>4. Progress' /\ CollectFailureCause'
    BY <1>16, <1>18, <2>1, <2>3
       DEF Progress, Making, Copying, Collecting, Finished, CollectFailureCause
  <2>5. QED BY <1>15, <1>16, <2>4 DEF IInv
<1>21. CASE ~(at + 1 < args.n)
  <2>1. at' = 0 /\ phase' = "copy" /\ args.n = at + 1
    BY <1>1, <1>3, <1>4, <1>21
  <2>2. \A j \in Nodes' : Fresh(j)'
    <3>1. Nodes' = 0 .. at
      BY <1>4, <1>17, <2>1 DEF Nodes
    <3>2. QED BY <1>19, <3>1
  <2>3. args.n * args.n > 0
    BY <1>4, <2>1
  <2>4. Copying'
    <3>1. \A i, k \in Nodes' : ~(i * args'.n + k < at')
      <4>1. ASSUME NEW i \in Nodes, NEW k \in Nodes PROVE ~(i * args.n + k < 0)
        <5>1. i \in Nat /\ k \in Nat /\ i * args.n \in Nat
          BY <1>4 DEF Nodes
        <5>2. QED BY <5>1
      <4>2. QED BY <1>1, <1>17, <2>1, <4>1
    <3>2. QED BY <1>1, <1>3, <2>1, <2>2, <2>3, <3>1 DEF Copying
  <2>5. Progress' /\ CollectFailureCause'
    BY <1>16, <1>18, <2>1, <2>4
       DEF Progress, Making, Writing, Collecting, Finished, CollectFailureCause
  <2>6. QED BY <1>15, <1>16, <2>5 DEF IInv
<1>22. QED BY <1>20, <1>21

LEMMA OwnGentxIs ==
  ASSUME NEW k \in NodeIndices, Has(k, k)
  PROVE  OwnGentx(k) = Gentx(k)
<1>1. Gentx(k) \in dirs[k].gentxs /\ Gentx(k).node = dirs[k].id
  BY DEF Has, Gentx
<1>2. QED BY <1>1 DEF Has, OwnGentx

(* What the copy of one gentx keeps and adds.                              *)
Copies(i, k) ==
  /\ FilesTyped' /\ Keeps
  /\ \A j \in NodeIndices : /\ dirs'[j].id = dirs[j].id /\ dirs'[j].account = dirs[j].account
                            /\ dirs'[j].genesis = dirs[j].genesis
                            /\ dirs'[j].config = dirs[j].config
  /\ Has(i, k)'
  /\ \A j, l \in Nodes : Has(j, l) => Has(j, l)'
  /\ \A j \in NodeIndices : \A g \in dirs'[j].gentxs : g \in dirs[j].gentxs \/ g = Gentx(k)

LEMMA OneCopied ==
  ASSUME Typed, Named, run > 0, UNCHANGED <<run, args, removed>>, NEW i \in Nodes, NEW k \in Nodes,
         \A j \in Nodes : Made(j),
         dirs' = IF InSubDir(k, i) THEN dirs
                 ELSE [dirs EXCEPT ![i].gentxs = Filed(@, Copied(k, i))]
  PROVE  Copies(i, k)
<1>1. FilesTyped /\ Nodes \subseteq NodeIndices
  BY NodesIn DEF Typed
<1>2. \A j \in Nodes : dirs[j].id # <<>> /\ Has(j, j)
  BY DEF Made
<1>3. CASE k = i
  <2>1. dirs' = dirs
    BY <1>3 DEF InSubDir
  <2>2. Keeps
    BY <2>1 DEF Keeps
  <2>3. \A j, l \in Nodes : Has(j, l) => Has(j, l)'
    BY <1>1, <1>2, <2>1, <2>2, HasKept
  <2>4. FilesTyped'
    BY <1>1, <2>1 DEF FilesTyped
  <2>5. QED BY <1>2, <1>3, <2>1, <2>2, <2>3, <2>4 DEF Copies
<1>4. CASE k # i
  <2>1. Copied(k, i) = Gentx(k) /\ Gentx(k) \in Gentxs
    BY <1>1, <1>2, <1>4, OwnGentxIs, GentxTyped DEF Copied
  <2>2. dirs' = [dirs EXCEPT ![i].gentxs = Filed(@, Copied(k, i))]
    BY <1>4 DEF InSubDir
  <2> DEFINE d == [dirs[i] EXCEPT !.gentxs = Filed(@, Copied(k, i))]
  <2>3. dirs' = [dirs EXCEPT ![i] = d]
    BY <2>2, Zenon
  <2>4. /\ d.id = dirs[i].id /\ d.account = dirs[i].account
        /\ d.gentxs = Filed(dirs[i].gentxs, Gentx(k))
        /\ d.genesis = dirs[i].genesis /\ d.config = dirs[i].config
    BY <1>1, <2>1 DEF FilesTyped, Directory
  <2>5. Directory(d)
    <3>1. d.gentxs \in SUBSET Gentxs
      BY <1>1, <2>1, <2>4 DEF FilesTyped, Directory, Filed
    <3>2. d \in [id : Ids, account : Ids, gentxs : SUBSET Gentxs, genesis : Genesis,
                 config : {d.config}]
      BY <1>1, <2>4, <3>1 DEF FilesTyped, Directory
    <3>3. QED BY <1>1, <2>4, <3>2 DEF FilesTyped, Directory
  <2> HIDE DEF d
  <2>6. Written(i, d)
    BY <1>1, <2>3, <2>5, OneWritten
  <2>7. Keeps
    BY <2>4, <2>6 DEF Keeps, Written
  <2>8. dirs'[i].gentxs = Filed(dirs[i].gentxs, Gentx(k))
    BY <2>4, <2>6 DEF Written
  <2>9. Has(i, k)'
    BY <1>1, <1>2, <2>7, <2>8, FiledHas
  <2>10. ASSUME NEW j \in Nodes, NEW l \in Nodes, Has(j, l) PROVE Has(j, l)'
    <3>1. CASE j # i
      BY <1>1, <1>2, <2>6, <2>7, <2>10, <3>1, HasKept DEF Written
    <3>2. CASE j = i /\ l = k
      BY <2>9, <3>2
    <3>3. CASE j = i /\ l # k
      <4>1. Has(i, l)
        BY <2>10, <3>3
      <4>2. Has(i, l)'
        BY <1>1, <1>2, <2>7, <2>8, <3>3, <4>1, FiledKeepsOthers
      <4>3. QED BY <3>3, <4>2
    <3>4. QED BY <3>1, <3>2, <3>3
  <2>11. \A j \in NodeIndices : \A g \in dirs'[j].gentxs : g \in dirs[j].gentxs \/ g = Gentx(k)
    BY <2>6, <2>8 DEF Written, Filed
  <2>12. \A j \in NodeIndices : /\ dirs'[j].id = dirs[j].id /\ dirs'[j].account = dirs[j].account
                                /\ dirs'[j].genesis = dirs[j].genesis
                                /\ dirs'[j].config = dirs[j].config
    BY <2>4, <2>6 DEF Written
  <2>13. FilesTyped'
    BY <2>6 DEF Written
  <2>14. QED BY <2>7, <2>9, <2>10, <2>11, <2>12, <2>13 DEF Copies
<1>5. QED BY <1>3, <1>4

LEMMA CopyGentxIInv == ASSUME IInv, CopyGentx PROVE IInv'
<1>1. /\ phase = "copy"
      /\ dirs' = IF InSubDir(at % args.n, at \div args.n) THEN dirs
                 ELSE [dirs EXCEPT ![at \div args.n].gentxs =
                                     Filed(@, Copied(at % args.n, at \div args.n))]
      /\ IF at + 1 < args.n * args.n THEN at' = at + 1 /\ UNCHANGED phase
                                     ELSE at' = 0 /\ phase' = "collect"
      /\ UNCHANGED <<run, args, accounts, peers, appState, cause, removed>>
  BY DEF CopyGentx
<1>2. Typed /\ Named /\ Signed /\ Announced /\ FilesTyped
  BY DEF IInv, Progress, Typed
<1>3. /\ at < args.n * args.n /\ run > 0 /\ appState = <<>> /\ Len(peers) = args.n
      /\ accounts = AccountsOf(args.n)
      /\ \A j \in Nodes : Made(j) /\ Fresh(j)
      /\ \A i, k \in Nodes : i * args.n + k < at => Has(i, k)
  BY <1>1 DEF IInv, Progress, AllMade, Copying
<1>4. at \in Nat /\ args.n \in Nat \ {0} /\ Nodes \subseteq NodeIndices
  <2>1. at \in Nat /\ args.n \in Nat /\ Nodes \subseteq NodeIndices
    BY <1>2, NodesIn DEF Typed
  <2>2. args.n # 0
    BY <1>3, <2>1
  <2>3. QED BY <2>1, <2>2
<1>5. at \in 0 .. args.n * args.n - 1
  BY <1>3, <1>4
<1>6. PICK i \in Nodes, k \in Nodes : i = at \div args.n /\ k = at % args.n /\ at = i * args.n + k
  BY <1>4, <1>5, PairOfCounter DEF Nodes
<1>7. dirs' = IF InSubDir(k, i) THEN dirs ELSE [dirs EXCEPT ![i].gentxs = Filed(@, Copied(k, i))]
  BY <1>1, <1>6
<1>8. Copies(i, k)
  BY <1>1, <1>2, <1>3, <1>7, OneCopied
<1>9. Keeps /\ \A j \in NodeIndices : dirs'[j].id = dirs[j].id
  BY <1>8 DEF Copies
<1>10. MaxNodes \in Nat \ {0} /\ args.n \in 0 .. MaxNodes /\ MaxNodes * MaxNodes \in Nat
       /\ args.n * args.n \in Nat
  BY <1>2, <1>4, ArgumentsAssumption DEF Typed, ArgumentsAssumption
<1>11. at' \in Nat /\ at' < args.n * args.n
  <2>1. args.n * args.n > 0
    BY <1>4
  <2>2. QED BY <1>1, <1>4, <1>10, <2>1
<1>12. at' < MaxNodes * MaxNodes
  BY <1>10, <1>11, Squares
<1>13. Typed'
  BY <1>1, <1>2, <1>8, <1>11, <1>12 DEF Typed, Phase, Copies
<1>14. Named' /\ Announced'
  BY <1>1, <1>2, <1>3, <1>9, NamedKept, AnnouncedKept
<1>15. Signed'
  <2>1. k \in NodeIndices /\ dirs[k].id # <<>>
    BY <1>3, <1>4 DEF Made
  <2>2. QED BY <1>1, <1>2, <1>3, <1>8, <1>9, <2>1, SignedKept DEF Copies
<1>16. Nodes' = Nodes /\ AccountsOf(args.n)' = AccountsOf(args.n) /\ args' = args
  BY <1>1 DEF Nodes, AccountsOf
<1>17. AllMade'
  <2>1. ASSUME NEW j \in Nodes PROVE Made(j)'
    <3>1. Has(j, j)'
      BY <1>3, <1>8, <2>1 DEF Copies, Made
    <3>2. /\ dirs'[j].id # <<>> /\ dirs'[j].account = <<run', j>>
          /\ dirs'[j].config.grpc = GRPCPort(j) /\ dirs'[j].config.api = APIPort(j)
      BY <1>1, <1>3, <1>4, <1>8, <2>1 DEF Copies, Made
    <3>3. QED BY <3>1, <3>2 DEF Made, GRPCPort, APIPort
  <2>2. QED BY <1>1, <1>3, <1>16, <2>1 DEF AllMade
<1>18. \A j \in Nodes : Fresh(j)'
  BY <1>3, <1>4, <1>8, <1>9, FreshKept DEF Copies
<1>19. ASSUME NEW j \in Nodes, NEW l \in Nodes, j * args.n + l < at + 1 PROVE Has(j, l)'
  <2>1. j * args.n + l \in Nat
    BY <1>4 DEF Nodes
  <2>2. CASE j * args.n + l < at
    BY <1>3, <1>8, <2>2 DEF Copies
  <2>3. CASE j * args.n + l = at
    <3>1. /\ i \in 0 .. args.n - 1 /\ k \in 0 .. args.n - 1
          /\ j \in 0 .. args.n - 1 /\ l \in 0 .. args.n - 1
      BY DEF Nodes
    <3>2. j * args.n + l = i * args.n + k
      BY <1>6, <2>3
    <3>3. j = i /\ l = k
      BY ONLY <1>4, <3>1, <3>2, OnePair, Zenon
    <3>4. QED BY <1>8, <3>3 DEF Copies
  <2>4. QED BY <1>4, <1>19, <2>1, <2>2, <2>3
<1>20. CASE at + 1 < args.n * args.n
  <2>1. at' = at + 1 /\ phase' = "copy"
    BY <1>1, <1>20
  <2>2. Copying'
    BY <1>1, <1>3, <1>11, <1>16, <1>18, <1>19, <2>1 DEF Copying
  <2>3. Progress' /\ CollectFailureCause'
    BY <1>14, <1>17, <2>1, <2>2
       DEF Progress, Making, Writing, Collecting, Finished, CollectFailureCause
  <2>4. QED BY <1>13, <1>14, <1>15, <2>3 DEF IInv
<1>21. CASE ~(at + 1 < args.n * args.n)
  <2>1. at' = 0 /\ phase' = "collect" /\ at + 1 = args.n * args.n
    BY <1>1, <1>3, <1>4, <1>10, <1>21
  <2>2. ASSUME NEW j \in Nodes, NEW l \in Nodes PROVE Has(j, l)'
    <3>1. j \in 0 .. args.n - 1 /\ l \in 0 .. args.n - 1
      BY <2>2 DEF Nodes
    <3>2. j * args.n + l \in 0 .. args.n * args.n - 1
      BY ONLY <1>4, <3>1, CounterOfPair, Zenon
    <3>3. j * args.n + l < at + 1
      BY <1>10, <2>1, <3>2
    <3>4. QED BY <1>19, <2>2, <3>3
  <2>3. \A j \in at' .. args'.n - 1 : Fresh(j)'
    BY <1>16, <1>18, <2>1 DEF Nodes
  <2>4. \A j \in 0 .. at' - 1 : FALSE
    BY <2>1
  <2>5. Collecting'
    BY <1>1, <1>3, <1>4, <1>16, <2>1, <2>2, <2>3, <2>4 DEF Collecting
  <2>6. Progress' /\ CollectFailureCause'
    BY <1>14, <1>17, <2>1, <2>5
       DEF Progress, Making, Writing, Copying, Finished, CollectFailureCause
  <2>7. QED BY <1>13, <1>14, <1>15, <2>6 DEF IInv
<1>22. QED BY <1>20, <1>21

(* A directory that can be collected holds the gentxs of the run and no    *)
(* other; one that cannot, a stake beyond the balance, an older node or an *)
(* orphan.                                                                 *)
LEMMA CollectableIsEvery ==
  ASSUME Typed, Signed, phase = "collect", NEW i \in Nodes, \A k \in Nodes : Has(i, k),
         Collectable(dirs[i]), dirs[i].genesis.accounts = AccountsOf(args.n)
  PROVE  dirs[i].gentxs = Every
<1>1. i \in NodeIndices
  BY NodesIn
<1>2. ASSUME NEW g \in dirs[i].gentxs PROVE g \in Every
  <2>0. PICK j \in 0 .. args.n - 1 : g.account = <<run, j>>
    BY DEF Collectable, AccountsOf
  <2>1. PICK k \in NodeIndices : SignedBy(g, k)
    BY <1>1, <2>0 DEF Signed, Orphan
  <2>2. PICK r \in 1 .. run : g.account = <<r, k>>
    BY <2>1 DEF SignedBy
  <2>4. k \in Nodes
    BY <2>0, <2>2 DEF Nodes
  <2>5. g = Gentx(k)
    BY <2>1, <2>4 DEF SignedBy, Has
  <2>6. QED BY <2>4, <2>5 DEF Every
<1>3. Every \subseteq dirs[i].gentxs
  BY DEF Every, Has
<1>4. QED BY <1>2, <1>3

LEMMA NotCollectable ==
  ASSUME Typed, Signed, NEW i \in Nodes, \A k \in Nodes : Has(i, k), ~Collectable(dirs[i]),
         dirs[i].genesis.accounts = AccountsOf(args.n)
  PROVE  \/ \E k \in Nodes : StakeOf(k) > Balance
         \/ \E g \in dirs[i].gentxs :
              g.node \in removed \cup {dirs[k].id : k \in NodeIndices \ Nodes}
<1>1. i \in NodeIndices
  BY NodesIn
<1>2. PICK g \in dirs[i].gentxs : ~(g.account \in AccountsOf(args.n) /\ g.stake <= Balance)
  BY DEF Collectable
<1>3. Orphan(g) \/ \E k \in NodeIndices : SignedBy(g, k)
  BY <1>1 DEF Signed
<1>4. CASE Orphan(g)
  BY <1>4 DEF Orphan
<1>5. ASSUME NEW k \in NodeIndices, SignedBy(g, k), k \notin Nodes
      PROVE  g.node \in {dirs[j].id : j \in NodeIndices \ Nodes}
  BY <1>5 DEF SignedBy
<1>6. ASSUME NEW k \in Nodes, SignedBy(g, k) PROVE StakeOf(k) > Balance
  <2>1. g = Gentx(k)
    BY <1>6 DEF SignedBy, Has
  <2>2. g.account \in AccountsOf(args.n) /\ g.stake = StakeOf(k)
    BY <1>6, <2>1 DEF Gentx, AccountsOf, Nodes
  <2>3. StakeOf(k) \in Int /\ Balance \in Int
    BY StakeIsInteger DEF Balance
  <2>4. QED BY <1>2, <2>2, <2>3
<1>7. QED BY <1>3, <1>4, <1>5, <1>6

LEMMA ListeningFields ==
  ASSUME NEW c, Config(c), NEW i \in Nat
  PROVE  /\ Config(Listening(c, i))
         /\ Listening(c, i).p2p = P2PPort(i) /\ Listening(c, i).rpc = RPCPort(i)
         /\ Listening(c, i).proxy = ProxyPort(i) /\ Listening(c, i).prometheus = PrometheusPort(i)
         /\ Listening(c, i).grpc = c.grpc /\ Listening(c, i).api = c.api
         /\ Listening(c, i).peers = peers
<1> DEFINE rpc == RPCPort(i)
<1>1. P2PPort(i) \in Int /\ ProxyPort(i) \in Int /\ PrometheusPort(i) \in Int
  BY DEF P2PPort, ProxyPort, PrometheusPort
<1>2. Listening(c, i) =
        [c EXCEPT !.p2p = P2PPort(i), !.rpc = rpc, !.proxy = ProxyPort(i),
                  !.prometheus = PrometheusPort(i), !.peers = peers]
  BY DEF Listening
<1> HIDE DEF rpc
<1>3. Listening(c, i) = [p2p |-> P2PPort(i), rpc |-> rpc, proxy |-> ProxyPort(i),
                         prometheus |-> PrometheusPort(i), grpc |-> c.grpc, api |-> c.api,
                         peers |-> peers]
  BY <1>2 DEF Config
<1>4. Config(Listening(c, i))
  BY <1>1, <1>3 DEF Config
<1>5. QED BY <1>3, <1>4 DEF rpc

LEMMA CollectNodeIInv == ASSUME IInv, CollectNode PROVE IInv'
<1> DEFINE canonical == IF appState = <<>> THEN <<dirs[at].gentxs>> ELSE appState
<1>1. /\ phase = "collect"
      /\ IF Collectable(dirs[at])
           THEN /\ appState' = canonical
                /\ dirs' = [dirs EXCEPT ![at].genesis.gentxs = canonical[1],
                                        ![at].config = Listening(@, at)]
                /\ IF at + 1 < args.n THEN at' = at + 1 /\ UNCHANGED phase
                                      ELSE at' = 0 /\ phase' = "done"
                /\ UNCHANGED cause
           ELSE /\ phase' = "failed" /\ cause' = "collect"
                /\ UNCHANGED <<at, appState, dirs>>
      /\ UNCHANGED <<run, args, accounts, peers, removed>>
  BY DEF CollectNode
<1>2. Typed /\ Named /\ Signed /\ Announced /\ FilesTyped
  BY DEF IInv, Progress, Typed
<1>3. /\ at < args.n /\ run > 0 /\ Len(peers) = args.n /\ accounts = AccountsOf(args.n)
      /\ \A j \in Nodes : Made(j)
      /\ \A j, l \in Nodes : Has(j, l)
      /\ \A j \in 0 .. at - 1 : Collected(j)
      /\ \A j \in at .. args.n - 1 : Fresh(j)
      /\ appState = IF at = 0 THEN <<>> ELSE <<Every>>
  BY <1>1 DEF IInv, Progress, AllMade, Collecting
<1>4. at \in Nat /\ at \in Nodes /\ Nodes \subseteq NodeIndices /\ args.n \in Nat
  BY <1>2, <1>3, NodesIn DEF Typed, Nodes
<1>5. Fresh(at)
  BY <1>3, <1>4
<1>6. dirs[at].genesis.accounts = AccountsOf(args.n)
  BY <1>5 DEF Fresh
<1>7. Nodes' = Nodes /\ AccountsOf(args.n)' = AccountsOf(args.n) /\ args' = args /\ run' = run
  BY <1>1 DEF Nodes, AccountsOf
<1>8. CASE ~Collectable(dirs[at])
  <2>1. /\ phase' = "failed" /\ cause' = "collect"
        /\ UNCHANGED <<at, appState, dirs, run, args, accounts, peers, removed>>
    BY <1>1, <1>8
  <2>2. Typed'
    BY <1>2, <2>1 DEF Typed, FilesTyped, Phase
  <2>3. Keeps
    BY <2>1 DEF Keeps
  <2>4. Named' /\ Signed'
    BY <1>1, <1>2, <1>3, <2>1, <2>3, NamedKept, SignedKept
  <2>5. Progress'
    BY <2>1 DEF Progress, Announced, Making, AllMade, Writing, Copying, Collecting, Finished
  <2>6. \/ \E k \in Nodes : StakeOf(k) > Balance
        \/ \E g \in dirs[at].gentxs :
             g.node \in removed \cup {dirs[k].id : k \in NodeIndices \ Nodes}
    BY <1>2, <1>3, <1>4, <1>6, <1>8, NotCollectable
  <2>7. CollectFailureCause'
    <3>1. \A k : StakeOf(k)' = StakeOf(k)
      BY <1>7, SameStake
    <3>2. CASE \E k \in Nodes : StakeOf(k) > Balance
      BY <1>7, <3>1, <3>2 DEF CollectFailureCause, Balance
    <3>3. CASE \E g \in dirs[at].gentxs :
                 g.node \in removed \cup {dirs[k].id : k \in NodeIndices \ Nodes}
      BY <1>4, <1>7, <2>1, <3>3 DEF CollectFailureCause
    <3>4. QED BY <2>6, <3>2, <3>3
  <2>8. QED BY <2>2, <2>4, <2>5, <2>7 DEF IInv
<1>9. CASE Collectable(dirs[at])
  <2>1. dirs[at].gentxs = Every
    BY <1>1, <1>2, <1>3, <1>4, <1>6, <1>9, CollectableIsEvery
  <2>2. canonical = <<Every>>
    BY <1>3, <2>1
  <2>3. /\ appState' = <<Every>>
        /\ dirs' = [dirs EXCEPT ![at].genesis.gentxs = Every, ![at].config = Listening(@, at)]
    BY <1>1, <1>9, <2>2
  <2> HIDE DEF canonical
  <2> DEFINE d == [dirs[at] EXCEPT !.genesis.gentxs = Every, !.config = Listening(@, at)]
  <2>4. dirs' = [dirs EXCEPT ![at] = d]
    BY <2>3, Zenon
  <2>5. /\ d.id = dirs[at].id /\ d.account = dirs[at].account /\ d.gentxs = dirs[at].gentxs
        /\ d.genesis = [dirs[at].genesis EXCEPT !.gentxs = Every]
        /\ d.config = Listening(dirs[at].config, at)
    BY <1>2, <1>4 DEF FilesTyped, Directory
  <2>6. d.genesis = [chain |-> run, accounts |-> AccountsOf(args.n), gentxs |-> Every]
    BY <1>5, <2>5 DEF Fresh
  <2>0. /\ Config(d.config)
        /\ d.config.p2p = P2PPort(at) /\ d.config.rpc = RPCPort(at)
        /\ d.config.proxy = ProxyPort(at) /\ d.config.prometheus = PrometheusPort(at)
        /\ d.config.grpc = dirs[at].config.grpc /\ d.config.api = dirs[at].config.api
        /\ d.config.peers = peers
    <3>1. Config(dirs[at].config)
      BY <1>2, <1>4 DEF FilesTyped, Directory
    <3>2. QED BY <1>4, <2>5, <3>1, ListeningFields
  <2>7. Directory(d)
    <3>1. Config(d.config)
      BY <2>0
    <3>2. d.genesis \in Genesis
      <4>1. Every \subseteq Gentxs
        BY <1>2, <1>4, <2>1 DEF FilesTyped, Directory
      <4>2. AccountsOf(args.n) \subseteq Ids /\ run \in 0 .. MaxRuns
        BY <1>2, <1>3 DEF Typed
      <4>3. QED BY <2>6, <4>1, <4>2 DEF Genesis
    <3>3. d \in [id : Ids, account : Ids, gentxs : SUBSET Gentxs, genesis : Genesis,
                 config : {d.config}]
      BY <1>2, <1>4, <2>5, <3>2 DEF FilesTyped, Directory
    <3>4. QED BY <3>1, <3>3 DEF Directory
  <2> HIDE DEF d
  <2>8. Written(at, d)
    BY <1>2, <1>4, <2>4, <2>7, OneWritten
  <2>9. Keeps /\ \A j \in NodeIndices : dirs'[j].id = dirs[j].id /\ dirs'[j].gentxs = dirs[j].gentxs
    BY <1>1, <1>7, <2>5, <2>8 DEF Keeps, Written
  <2>10. \A j \in NodeIndices : SameNode(j)
    BY <1>4, <2>0, <2>5, <2>8 DEF SameNode, Written
  <2>11. at' \in Nat /\ (at' < args.n \/ at' = 0)
    BY <1>1, <1>4, <1>9
  <2>12. at' < MaxNodes * MaxNodes
    <3>1. MaxNodes \in Nat \ {0} /\ args.n \in 0 .. MaxNodes /\ MaxNodes * MaxNodes \in Nat
      BY <1>2, ArgumentsAssumption DEF Typed, ArgumentsAssumption
    <3>2. QED BY <1>4, <2>11, <3>1, Squares
  <2>13. Typed'
    BY <1>1, <1>2, <1>9, <2>3, <2>8, <2>11, <2>12 DEF Typed, Phase, Written
  <2>14. Named' /\ Signed' /\ Announced'
    BY <1>1, <1>2, <1>3, <2>9, NamedKept, SignedKept, AnnouncedKept
  <2>15. \A j \in Nodes : Made(j)'
    BY <1>3, <1>4, <2>9, <2>10, MadeKept
  <2>16. AllMade'
    BY <1>1, <1>3, <1>7, <2>15 DEF AllMade
  <2>17. \A k \in Nodes : dirs[k].id # <<>>
    BY <1>3 DEF Made
  <2>18. Every' = Every
    BY <1>2, <2>9, <2>17, EveryKept
  <2>19. \A j \in 0 .. at : Collected(j)'
    <3>1. ASSUME NEW j \in 0 .. at - 1 PROVE Collected(j)'
      <4>1. j \in NodeIndices /\ j # at
        BY <1>3, <1>4 DEF Nodes
      <4>2. QED BY <1>1, <1>2, <1>3, <2>8, <2>9, <2>17, <4>1, CollectedKept DEF Written
    <3>2. ASSUME NEW j, j = at PROVE Collected(j)'
      <4>1. dirs'[j].genesis = [chain |-> run', accounts |-> AccountsOf(args.n)', gentxs |-> Every']
        BY <1>7, <2>6, <2>8, <2>18, <3>2 DEF Written
      <4>2. dirs'[j].gentxs = Every'
        BY <1>4, <2>1, <2>9, <2>18, <3>2
      <4>3. /\ dirs'[j].config.p2p = P2PPort(j) /\ dirs'[j].config.rpc = RPCPort(j)
            /\ dirs'[j].config.proxy = ProxyPort(j)
            /\ dirs'[j].config.prometheus = PrometheusPort(j) /\ dirs'[j].config.peers = peers
        BY <2>0, <2>8, <3>2 DEF Written
      <4>4. peers' = peers /\ RPCPort(j)' = RPCPort(j)
        BY <1>1, <1>7 DEF RPCPort
      <4>5. QED
        BY <4>1, <4>2, <4>3, <4>4 DEF Collected, P2PPort, ProxyPort, PrometheusPort
    <3>3. \A j \in 0 .. at : j \in 0 .. at - 1 \/ j = at
      BY <1>4
    <3>4. QED BY <3>1, <3>2, <3>3
  <2>20. CASE at + 1 < args.n
    <3>1. at' = at + 1 /\ phase' = "collect"
      BY <1>1, <1>9, <2>20
    <3>2. 0 .. at' - 1 = 0 .. at
      BY <1>4, <3>1
    <3>3. \A j, l \in Nodes : Has(j, l)'
      BY <1>3, <1>4, <2>9, <2>17, HasKept
    <3>4. ASSUME NEW j \in at' .. args.n - 1 PROVE Fresh(j)'
      <4>1. j \in Nodes /\ j # at /\ j \in at .. args.n - 1
        BY <1>4, <3>1 DEF Nodes
      <4>2. QED BY <1>3, <1>4, <2>8, <2>9, <4>1, FreshKept DEF Written
    <3>5. appState' = IF at' = 0 THEN <<>> ELSE <<Every'>>
      BY <1>4, <2>3, <2>18, <3>1
    <3>6. Collecting'
      BY <1>7, <2>19, <2>20, <3>1, <3>2, <3>3, <3>4, <3>5 DEF Collecting
    <3>7. Progress' /\ CollectFailureCause'
      BY <2>14, <2>16, <3>1, <3>6
         DEF Progress, Making, Writing, Copying, Finished, CollectFailureCause
    <3>8. QED BY <2>13, <2>14, <3>7 DEF IInv
  <2>21. CASE ~(at + 1 < args.n)
    <3>1. at' = 0 /\ phase' = "done" /\ args.n = at + 1
      BY <1>1, <1>3, <1>4, <1>9, <2>21
    <3>2. Nodes' = 0 .. at
      BY <1>4, <1>7, <3>1 DEF Nodes
    <3>3. Finished'
      BY <2>3, <2>18, <2>19, <3>2 DEF Finished
    <3>4. Progress' /\ CollectFailureCause'
      BY <2>14, <2>16, <3>1, <3>3
         DEF Progress, Making, Writing, Copying, Collecting, CollectFailureCause
    <3>5. QED BY <2>13, <2>14, <3>4 DEF IInv
  <2>22. QED BY <2>20, <2>21
<1>10. QED BY <1>8, <1>9

LEMMA AbortIInv == ASSUME IInv, Abort PROVE IInv'
<1>1. /\ phase' = "failed" /\ cause' = "system"
      /\ UNCHANGED <<at, run, args, dirs, accounts, peers, appState, removed>>
  BY DEF Abort
<1>2. Typed' /\ Named'
  BY <1>1 DEF IInv, Typed, FilesTyped, Phase, Named
<1>3. Signed'
  BY <1>1, SameStake DEF IInv, Signed, SignedBy, Orphan
<1>4. Progress' /\ CollectFailureCause'
  BY <1>1 DEF Progress, Announced, Making, AllMade, Writing, Copying, Collecting, Finished,
              CollectFailureCause
<1>5. QED BY <1>2, <1>3, <1>4 DEF IInv

LEMMA LeftDirectory ==
  ASSUME FilesTyped, NEW i \in NodeIndices, NEW ids, NEW files, NEW homes,
         KeyMade(i) \in Ids
  PROVE  /\ Directory(Left(ids, files, homes)[i])
         /\ Left(ids, files, homes)[i].id = IF i \in ids THEN KeyMade(i) ELSE <<>>
         /\ Left(ids, files, homes)[i].gentxs \subseteq dirs[i].gentxs
         /\ \/ Left(ids, files, homes)[i].config = dirs[i].config
            \/ Left(ids, files, homes)[i].config = NoConfig
<1> DEFINE home == IF i \in homes THEN dirs[i] ELSE NoDir
           key == IF i \in ids THEN KeyMade(i) ELSE <<>>
           kept == {g \in dirs[i].gentxs : <<i, g>> \in files}
<1>1. Left(ids, files, homes)[i] = [home EXCEPT !.id = key, !.gentxs = kept]
  BY DEF Left
<1>2. Directory(home) /\ (home.config = dirs[i].config \/ home.config = NoConfig)
  BY EmptyDirectory DEF FilesTyped, NoDir
<1>3. key \in Ids /\ kept \subseteq dirs[i].gentxs /\ kept \subseteq Gentxs
  BY DEF FilesTyped, Directory, Ids
<1> HIDE DEF home, kept
<1>4. QED BY <1>1, <1>2, <1>3 DEF Directory

(* What a removal leaves, of a key the key itself or a trace of it.        *)
LEMMA AfterRemoval ==
  ASSUME IInv, AbortAndRemoveAll
  PROVE  /\ FilesTyped' /\ phase' = "failed" /\ cause' = "system" /\ run > 0
         /\ UNCHANGED <<at, run, args, accounts, peers, appState>>
         /\ removed \subseteq removed' /\ removed' \subseteq Ids \ {<<>>}
         /\ \A i \in NodeIndices :
              /\ dirs'[i].id \in {<<>>, dirs[i].id, <<run, i>>}
              /\ dirs[i].id # <<>> => dirs'[i].id = dirs[i].id \/ dirs[i].id \in removed'
              /\ dirs'[i].gentxs \subseteq dirs[i].gentxs
              /\ dirs'[i].config = dirs[i].config \/ dirs'[i].config = NoConfig
<1>1. /\ phase \in {"prepare", "account"}
      /\ phase' = "failed" /\ cause' = "system"
      /\ UNCHANGED <<at, run, args, accounts, peers, appState>>
  BY DEF AbortAndRemoveAll
<1>2. PICK ids \in SUBSET NodeIndices, homes \in SUBSET NodeIndices,
           files \in SUBSET GentxFiles :
        /\ dirs' = Left(ids, files, homes)
        /\ removed' = removed \cup ({dirs[i].id : i \in NodeIndices \ ids} \ {<<>>})
  BY DEF AbortAndRemoveAll
<1>3. Typed /\ FilesTyped /\ run > 0
  BY <1>1 DEF IInv, Progress, Making, Typed
<1>4. \A i \in NodeIndices : dirs[i].id \in Ids /\ <<run, i>> \in Ids
  BY <1>3 DEF Typed, FilesTyped, Directory, Ids
<1>5. ASSUME NEW i \in NodeIndices
      PROVE  /\ KeyMade(i) \in Ids /\ KeyMade(i) \in {dirs[i].id, <<run, i>>}
             /\ dirs[i].id # <<>> => KeyMade(i) = dirs[i].id
  BY <1>4 DEF KeyMade, NodeKey
<1>6. ASSUME NEW i \in NodeIndices
      PROVE  /\ Directory(dirs'[i])
             /\ dirs'[i].id = IF i \in ids THEN KeyMade(i) ELSE <<>>
             /\ dirs'[i].gentxs \subseteq dirs[i].gentxs
             /\ dirs'[i].config = dirs[i].config \/ dirs'[i].config = NoConfig
  BY <1>2, <1>3, <1>5, LeftDirectory
<1>7. dirs' \in [NodeIndices -> {dirs'[i] : i \in NodeIndices}]
  BY <1>2 DEF Left
<1>8. FilesTyped'
  BY <1>6, <1>7 DEF FilesTyped
<1>9. removed \subseteq removed' /\ removed' \subseteq Ids \ {<<>>}
  BY <1>2, <1>3, <1>4 DEF Typed
<1>10. ASSUME NEW i \in NodeIndices
       PROVE  /\ dirs'[i].id \in {<<>>, dirs[i].id, <<run, i>>}
              /\ dirs[i].id # <<>> => dirs'[i].id = dirs[i].id \/ dirs[i].id \in removed'
  BY <1>2, <1>5, <1>6
<1>11. QED BY <1>1, <1>3, <1>6, <1>8, <1>9, <1>10

LEMMA AbortAndRemoveAllIInv == ASSUME IInv, AbortAndRemoveAll PROVE IInv'
<1>1. /\ FilesTyped' /\ phase' = "failed" /\ cause' = "system" /\ run > 0
      /\ UNCHANGED <<at, run, args, accounts, peers, appState>>
      /\ removed \subseteq removed' /\ removed' \subseteq Ids \ {<<>>}
      /\ \A i \in NodeIndices :
           /\ dirs'[i].id \in {<<>>, dirs[i].id, <<run, i>>}
           /\ dirs[i].id # <<>> => dirs'[i].id = dirs[i].id \/ dirs[i].id \in removed'
           /\ dirs'[i].gentxs \subseteq dirs[i].gentxs
  BY AfterRemoval
<1>2. Typed /\ Named /\ Signed
  BY DEF IInv
<1>3. Typed'
  BY <1>1, <1>2 DEF Typed, Phase
<1>4. Named'
  BY <1>1, <1>2 DEF Named, Typed
<1>5. Signed'
  <2>1. ASSUME NEW g, Orphan(g) PROVE Orphan(g)'
    BY <1>1, <2>1 DEF Orphan
  <2>2. ASSUME NEW g, NEW k \in NodeIndices, SignedBy(g, k) PROVE Orphan(g)' \/ SignedBy(g, k)'
    <3>1. StakeOf(k)' = StakeOf(k)
      BY <1>1, SameStake
    <3>2. CASE dirs'[k].id = dirs[k].id
      BY <1>1, <2>2, <3>1, <3>2 DEF SignedBy
    <3>3. CASE dirs[k].id \in removed'
      BY <1>1, <2>2, <3>3 DEF SignedBy, Orphan
    <3>4. QED BY <1>1, <2>2, <3>2, <3>3 DEF SignedBy
  <2>3. ASSUME NEW i \in NodeIndices, NEW g \in dirs'[i].gentxs
        PROVE  (Orphan(g) \/ \E k \in NodeIndices : SignedBy(g, k))'
    <3>1. g \in dirs[i].gentxs
      BY <1>1, <2>3
    <3>2. Orphan(g) \/ \E k \in NodeIndices : SignedBy(g, k)
      BY <1>2, <3>1 DEF Signed
    <3>3. QED BY <2>1, <2>2, <3>2
  <2>4. QED BY <2>3 DEF Signed
<1>6. Progress' /\ CollectFailureCause'
  BY <1>1 DEF Progress, Announced, Making, AllMade, Writing, Copying, Collecting, Finished,
              CollectFailureCause
<1>7. QED BY <1>3, <1>4, <1>5, <1>6 DEF IInv

LEMMA StepIInv == ASSUME IInv, [Next]_vars PROVE IInv'
<1>1. CASE UNCHANGED vars
  <2>1. UNCHANGED <<phase, at, run, args, dirs, accounts, peers, appState, cause, removed>>
    BY <1>1 DEF vars
  <2>2. Typed' /\ Named'
    BY <2>1 DEF IInv, Typed, FilesTyped, Named
  <2>3. Signed'
    BY <2>1, SameStake DEF IInv, Signed, SignedBy, Orphan
  <2>4. /\ \A k : Gentx(k)' = Gentx(k)
        /\ Nodes' = Nodes /\ (\A m : AccountsOf(m)' = AccountsOf(m))
        /\ \A k : RPCPort(k)' = RPCPort(k)
    BY <2>1, SameStake DEF Gentx, Nodes, AccountsOf, RPCPort
  <2>5. Every' = Every
    BY <2>4 DEF Every
  <2>6. /\ \A i, k : Has(i, k)' <=> Has(i, k)
        /\ \A j : AnnouncedAt(j)' <=> AnnouncedAt(j)
    BY <2>1, <2>4 DEF Has, AnnouncedAt, AnnouncedPort
  <2>7. /\ \A j : Made(j)' <=> Made(j)
        /\ \A j : Fresh(j)' <=> Fresh(j)
        /\ \A j : Collected(j)' <=> Collected(j)
    <3>1. \A j : Made(j)' <=> Made(j)
      BY <2>1, <2>6 DEF Made, GRPCPort, APIPort
    <3>2. \A j : Fresh(j)' <=> Fresh(j)
      BY <2>1, <2>4 DEF Fresh
    <3>3. ASSUME NEW j PROVE Collected(j)' <=> Collected(j)
      <4>1. /\ dirs'[j] = dirs[j] /\ peers' = peers /\ run' = run
            /\ AccountsOf(args.n)' = AccountsOf(args.n) /\ RPCPort(j)' = RPCPort(j)
        BY <2>1, <2>4
      <4>2. QED BY <2>5, <4>1 DEF Collected, P2PPort, ProxyPort, PrometheusPort
    <3>4. QED BY <3>1, <3>2, <3>3
  <2>8. Announced' /\ Making' /\ AllMade' /\ Writing' /\ Finished'
    BY <2>1, <2>4, <2>5, <2>6, <2>7
       DEF IInv, Progress, Announced, Making, AllMade, Writing, Finished
  <2>9. Copying' /\ Collecting'
    BY <2>1, <2>4, <2>5, <2>6, <2>7 DEF IInv, Progress, Copying, Collecting
  <2>10. CollectFailureCause'
    <3>1. \A k : StakeOf(k)' = StakeOf(k)
      BY <2>1, SameStake
    <3>2. QED BY <2>1, <2>4, <3>1 DEF IInv, CollectFailureCause, Balance
  <2>11. QED BY <2>2, <2>3, <2>8, <2>9, <2>10 DEF IInv, Progress
<1>2. ASSUME NEW n \in 1 .. MaxNodes, NEW stakes \in StakeLists, NEW ports \in PortLists,
             Start(n, stakes, ports)
      PROVE  IInv'
  BY <1>2, StartIInv
<1>3. QED
  BY <1>1, <1>2, PrepareNodeIInv, CreateAccountIInv, WriteGentxIInv, InitGenFileIInv,
     CopyGentxIInv, CollectNodeIInv, AbortIInv, AbortAndRemoveAllIInv DEF Next, Proceed

(***************************************************************************)
(* What follows                                                            *)
(***************************************************************************)

(* The files fit the phase of the run in every reachable state.            *)
THEOREM FilesInvariant == Spec => []IInv
<1>1. QED
  BY InitIInv, StepIInv, PTL DEF Spec

(* The type invariant.                                                     *)
THEOREM FilesTypes == Spec => []TypeOK
<1>1. Typed => TypeOK
  <2> SUFFICES ASSUME Typed PROVE TypeOK
    OBVIOUS
  <2>1. ASSUME NEW i \in NodeIndices
        PROVE  /\ dirs[i].id \in Ids /\ dirs[i].account \in Ids
               /\ dirs[i].gentxs \subseteq Gentxs
               /\ dirs[i].genesis.chain \in 0 .. MaxRuns
               /\ dirs[i].genesis.accounts \subseteq Ids /\ dirs[i].genesis.gentxs \subseteq Gentxs
    BY DEF Typed, FilesTyped, Directory, Genesis
  <2>2. DOMAIN dirs = NodeIndices
    BY DEF Typed, FilesTyped
  <2>3. Len(appState) <= 1
    <3>1. CASE appState = <<>>
      <4>1. Len(appState) = 0
        BY <3>1
      <4>2. QED BY <4>1
    <3>2. ASSUME NEW x, appState = <<x>> PROVE Len(appState) <= 1
      <4>1. Len(appState) = 1
        BY <3>2
      <4>2. QED BY <4>1
    <3>3. appState = <<>> \/ \E x : appState = <<x>>
      BY DEF Typed
    <3>4. QED BY <3>1, <3>2, <3>3, Zenon
  <2>4. QED BY <2>1, <2>2, <2>3 DEF Typed, Phase, TypeOK
<1>2. QED
  BY <1>1, FilesInvariant, PTL DEF IInv

(* The collection fails only for a stake beyond the balance, for a node of *)
(* an earlier run or for a gentx whose key a removal took, whatever runs   *)
(* were made, ended or killed before and whatever removals left.           *)
THEOREM CollectFailuresExplained == Spec => []CollectFailureCause
<1>1. QED
  BY FilesInvariant, PTL DEF IInv

(***************************************************************************)
(* The keys that peer lists announce                                       *)
(***************************************************************************)
PeersOf(i) == dirs[i].config.peers

(* The key was that of node k, and is unless a removal took it.            *)
Announces(key, k) == k \in NodeIndices /\ key # <<>> /\ key \in {dirs[k].id} \cup removed

Listed ==
  \A i \in NodeIndices : \A j \in 1 .. Len(PeersOf(i)) : Announces(PeersOf(i)[j].node, j - 1)

(* No key is exchanged for another.                                        *)
KeysStay ==
  \A k \in NodeIndices :
    dirs[k].id # <<>> => dirs'[k].id = dirs[k].id \/ dirs[k].id \in removed'

LEMMA ListedKept ==
  ASSUME Listed, removed \subseteq removed', KeysStay,
         \A i \in NodeIndices : PeersOf(i)' = PeersOf(i) \/ PeersOf(i)' = <<>>
  PROVE  Listed'
<1>1. ASSUME NEW key, NEW k, Announces(key, k) PROVE Announces(key, k)'
  BY <1>1 DEF Announces, KeysStay
<1>2. ASSUME NEW i \in NodeIndices, NEW j \in 1 .. Len(PeersOf(i)')
      PROVE  Announces(PeersOf(i)[j].node, j - 1)'
  <2>1. CASE PeersOf(i)' = <<>>
    <3>1. 1 .. Len(PeersOf(i)') = {}
      BY <2>1
    <3>2. QED BY <1>2, <3>1
  <2>2. CASE PeersOf(i)' = PeersOf(i)
    <3>1. Announces(PeersOf(i)[j].node, j - 1)
      BY <1>2, <2>2 DEF Listed
    <3>2. Announces(PeersOf(i)[j].node, j - 1)'
      BY <1>1, <2>2, <3>1
    <3>3. QED BY <3>2
  <2>3. QED BY <2>1, <2>2
<1>3. QED BY <1>2 DEF Listed

LEMMA OneDirectory ==
  ASSUME FilesTyped, Listed, removed' = removed, NEW i \in NodeIndices, NEW d,
         dirs' = [dirs EXCEPT ![i] = d], d.id = dirs[i].id \/ dirs[i].id = <<>>,
         d.config.peers = PeersOf(i)
  PROVE  Listed'
<1>1. dirs'[i] = d /\ \A j \in NodeIndices \ {i} : dirs'[j] = dirs[j]
  BY DEF FilesTyped
<1>2. KeysStay
  BY <1>1 DEF KeysStay
<1>3. \A j \in NodeIndices : PeersOf(j)' = PeersOf(j)
  BY <1>1 DEF PeersOf
<1>4. QED BY <1>2, <1>3, ListedKept

(* The list that is written names the keys of the nodes of the run.        *)
LEMMA CollectNodeListed == ASSUME IInv, Listed, CollectNode PROVE Listed'
<1>1. phase = "collect" /\ peers' = peers /\ removed' = removed
  BY DEF CollectNode
<1>2. Typed /\ FilesTyped /\ Announced
  BY DEF IInv, Progress, Typed
<1>3. at < args.n /\ Len(peers) = args.n /\ \A j \in Nodes : Made(j)
  BY <1>1 DEF IInv, Progress, AllMade, Collecting
<1>4. at \in NodeIndices /\ at \in Nat /\ Nodes \subseteq NodeIndices /\ args.n \in Nat
  BY <1>2, <1>3, NodesIn DEF Typed, Nodes
<1>5. CASE dirs' = dirs
  <2>1. KeysStay
    BY <1>5 DEF KeysStay
  <2>2. \A i \in NodeIndices : PeersOf(i)' = PeersOf(i)
    BY <1>5 DEF PeersOf
  <2>3. QED BY <1>1, <2>1, <2>2, ListedKept
<1> DEFINE c == (IF appState = <<>> THEN <<dirs[at].gentxs>> ELSE appState)[1]
<1>6. CASE dirs' = [dirs EXCEPT ![at].genesis.gentxs = c, ![at].config = Listening(@, at)]
  <2> HIDE DEF c
  <2> DEFINE d == [dirs[at] EXCEPT !.genesis.gentxs = c, !.config = Listening(@, at)]
  <2>1. dirs' = [dirs EXCEPT ![at] = d]
    BY <1>6, Zenon
  <2>2. d.id = dirs[at].id /\ d.config = Listening(dirs[at].config, at)
    BY <1>2, <1>4 DEF FilesTyped, Directory
  <2>3. d.config.peers = peers
    BY <1>2, <1>4, <2>2, ListeningFields DEF FilesTyped, Directory
  <2> HIDE DEF d
  <2>4. dirs'[at] = d /\ \A j \in NodeIndices \ {at} : dirs'[j] = dirs[j]
    BY <1>2, <1>4, <2>1 DEF FilesTyped
  <2>5. \A k \in NodeIndices : dirs'[k].id = dirs[k].id
    BY <2>2, <2>4
  <2>6. ASSUME NEW key, NEW k, Announces(key, k) PROVE Announces(key, k)'
    BY <1>1, <2>5, <2>6 DEF Announces
  <2>7. ASSUME NEW j \in 1 .. Len(peers) PROVE Announces(peers[j].node, j - 1)'
    <3>1. j - 1 \in Nodes /\ j - 1 \in 0 .. Len(peers) - 1 /\ (j - 1) + 1 = j
      BY <1>3, <1>4, <2>7 DEF Nodes
    <3>2. AnnouncedAt(j - 1)
      BY <1>1, <1>2, <3>1 DEF Announced
    <3>3. peers[j].node = dirs[j - 1].id /\ dirs[j - 1].id # <<>>
      BY <1>3, <3>1, <3>2 DEF AnnouncedAt, Made
    <3>4. QED BY <1>1, <1>4, <2>5, <3>1, <3>3 DEF Announces
  <2>8. ASSUME NEW i \in NodeIndices, NEW j \in 1 .. Len(PeersOf(i)')
        PROVE  Announces(PeersOf(i)[j].node, j - 1)'
    <3>1. CASE i = at
      <4>1. PeersOf(i)' = peers
        BY <2>3, <2>4, <3>1 DEF PeersOf
      <4>2. Announces(peers[j].node, j - 1)'
        BY <2>7, <2>8, <4>1
      <4>3. QED BY <1>1, <4>1, <4>2
    <3>2. CASE i # at
      <4>1. PeersOf(i)' = PeersOf(i)
        BY <2>4, <3>2 DEF PeersOf
      <4>2. Announces(PeersOf(i)[j].node, j - 1)
        BY <2>8, <4>1 DEF Listed
      <4>3. Announces(PeersOf(i)[j].node, j - 1)'
        BY <2>6, <4>1, <4>2
      <4>4. QED BY <4>3
    <3>3. QED BY <3>1, <3>2
  <2>9. QED BY <2>8 DEF Listed
<1>7. QED BY <1>5, <1>6 DEF CollectNode

LEMMA ListedStep == ASSUME IInv, Listed, [Next]_vars PROVE Listed'
<1>1. FilesTyped
  BY DEF IInv, Typed
<1>2. CASE dirs' = dirs /\ removed' = removed
  BY <1>2 DEF Listed, PeersOf, Announces
<1>3. \A i \in NodeIndices :
        /\ dirs[i] \in [id : Ids, account : Ids, gentxs : SUBSET Gentxs, genesis : Genesis,
                        config : {dirs[i].config}]
        /\ Config(dirs[i].config)
  BY <1>1 DEF FilesTyped, Directory
<1>4. /\ phase \in {"prepare", "account", "gentx", "genesis"} => at \in NodeIndices
      /\ phase = "copy" => at \div args.n \in NodeIndices
  <2>1. Nodes \subseteq NodeIndices /\ at \in Nat /\ args.n \in Nat
    BY NodesIn DEF IInv, Typed
  <2>2. ASSUME phase \in {"prepare", "account", "gentx", "genesis"} PROVE at \in NodeIndices
    BY <2>1, <2>2 DEF IInv, Progress, Making, Writing, Nodes
  <2>3. ASSUME phase = "copy" PROVE at \div args.n \in NodeIndices
    <3>1. at < args.n * args.n
      BY <2>3 DEF IInv, Progress, Copying
    <3>2. args.n \in Nat \ {0} /\ at \in 0 .. args.n * args.n - 1
      BY <2>1, <3>1
    <3>3. at \div args.n \in 0 .. args.n - 1
      BY ONLY <3>2, PairOfCounter, Zenon
    <3>4. QED BY <2>1, <3>3 DEF Nodes
  <2>4. QED BY <2>2, <2>3
<1>5. CASE PrepareNode
  <2> DEFINE d == [dirs[at] EXCEPT !.id = NodeKey(at)]
  <2>1. phase = "prepare" /\ dirs' = [dirs EXCEPT ![at] = d] /\ removed' = removed
    BY <1>5 DEF PrepareNode
  <2>2. (d.id = dirs[at].id \/ dirs[at].id = <<>>) /\ d.config.peers = PeersOf(at)
    BY <1>3, <1>4, <2>1 DEF NodeKey, PeersOf
  <2> HIDE DEF d
  <2>3. QED BY <1>1, <1>4, <2>1, <2>2, OneDirectory
<1>6. CASE CreateAccount
  <2> DEFINE d == [dirs[at] EXCEPT !.account = <<run, at>>]
  <2>1. /\ phase = "account" /\ dirs' = [dirs EXCEPT ![at] = d] /\ removed' = removed
        /\ d.id = dirs[at].id /\ d.config.peers = PeersOf(at)
    BY <1>3, <1>4, <1>6 DEF CreateAccount, PeersOf
  <2> HIDE DEF d
  <2>2. QED BY <1>1, <1>4, <2>1, OneDirectory
<1>7. CASE WriteGentx
  <2> DEFINE g == [node |-> dirs[at].id, account |-> dirs[at].account, stake |-> StakeOf(at)]
  <2>1. /\ phase = "gentx" /\ removed' = removed
        /\ dirs' = [dirs EXCEPT ![at].gentxs = Filed(@, g), ![at].config = Served(@, at)]
    BY <1>7 DEF WriteGentx
  <2> HIDE DEF g
  <2> DEFINE d == [dirs[at] EXCEPT !.gentxs = Filed(@, g), !.config = Served(@, at)]
  <2>2. dirs' = [dirs EXCEPT ![at] = d]
    BY <2>1, Zenon
  <2>3. d.id = dirs[at].id /\ d.config = Served(dirs[at].config, at)
    BY <1>3, <1>4, <2>1
  <2>4. d.config.peers = PeersOf(at)
    BY <1>3, <1>4, <2>1, <2>3 DEF Served, Config, PeersOf
  <2> HIDE DEF d
  <2>5. QED BY <1>1, <1>4, <2>1, <2>2, <2>3, <2>4, OneDirectory
<1>8. CASE InitGenFile
  <2> DEFINE file == [chain |-> run, accounts |-> accounts, gentxs |-> {}]
             d == [dirs[at] EXCEPT !.genesis = file]
  <2>1. /\ phase = "genesis" /\ dirs' = [dirs EXCEPT ![at] = d] /\ removed' = removed
        /\ d.id = dirs[at].id /\ d.config.peers = PeersOf(at)
    BY <1>3, <1>4, <1>8 DEF InitGenFile, WriteGenesis, PeersOf
  <2> HIDE DEF d
  <2>2. QED BY <1>1, <1>4, <2>1, OneDirectory
<1>9. CASE CopyGentx
  <2> DEFINE i == at \div args.n
             g == Copied(at % args.n, i)
  <2>1. /\ phase = "copy" /\ removed' = removed
        /\ dirs' = dirs \/ dirs' = [dirs EXCEPT ![i].gentxs = Filed(@, g)]
    BY <1>9 DEF CopyGentx
  <2>2. i \in NodeIndices
    BY <1>4, <2>1
  <2> HIDE DEF i, g
  <2> DEFINE d == [dirs[i] EXCEPT !.gentxs = Filed(@, g)]
  <2>3. dirs' = dirs \/ dirs' = [dirs EXCEPT ![i] = d]
    BY <2>1, Zenon
  <2>4. d.id = dirs[i].id /\ d.config.peers = PeersOf(i)
    BY <1>3, <2>2 DEF PeersOf
  <2> HIDE DEF d
  <2>5. QED BY <1>1, <1>2, <2>1, <2>2, <2>3, <2>4, OneDirectory
<1>10. CASE AbortAndRemoveAll
  <2>1. /\ removed \subseteq removed'
        /\ \A i \in NodeIndices :
             /\ dirs[i].id # <<>> => dirs'[i].id = dirs[i].id \/ dirs[i].id \in removed'
             /\ dirs'[i].config = dirs[i].config \/ dirs'[i].config = NoConfig
    BY <1>10, AfterRemoval
  <2>2. KeysStay
    BY <2>1 DEF KeysStay
  <2>3. \A i \in NodeIndices : PeersOf(i)' = PeersOf(i) \/ PeersOf(i)' = <<>>
    BY <2>1 DEF PeersOf, NoConfig
  <2>4. QED BY <2>1, <2>2, <2>3, ListedKept
<1>11. QED
  BY <1>2, <1>5, <1>6, <1>7, <1>8, <1>9, <1>10, CollectNodeListed
     DEF Next, Proceed, Start, Abort, vars

(* A node that was announced keeps its key: what lies in the output        *)
(* directory names the keys beside it, or keys that a removal took.        *)
THEOREM KeysAreKept == Spec => []KeysAnnounced
<1>1. ASSUME Init PROVE Listed
  <2>1. \A i \in NodeIndices : PeersOf(i) = <<>>
    BY <1>1 DEF Init, NoDir, NoConfig, PeersOf
  <2>2. \A i \in NodeIndices : 1 .. Len(PeersOf(i)) = {}
    BY <2>1
  <2>3. QED BY <2>2 DEF Listed
<1>2. ASSUME IInv, Listed PROVE KeysAnnounced
  <2>1. ASSUME NEW i \in NodeIndices, NEW g \in dirs[i].gentxs
        PROVE  g.node \in {dirs[j].id : j \in NodeIndices} \cup removed
    BY <1>2, <2>1 DEF IInv, Signed, SignedBy, Orphan
  <2>2. QED BY <1>2, <2>1 DEF KeysAnnounced, Listed, Announces, PeersOf
<1>3. Spec => []Listed
  <2>1. IInv /\ Listed /\ [Next]_vars => Listed'
    BY ListedStep
  <2>2. Init => Listed
    BY <1>1
  <2>3. QED BY <2>1, <2>2, FilesInvariant, PTL DEF Spec
<1>4. IInv /\ Listed => KeysAnnounced
  BY <1>2
<1>5. QED BY <1>3, <1>4, FilesInvariant, PTL

(* What a finished testnet consists of.                                    *)
LEMMA FinishedNode ==
  ASSUME IInv, phase = "done", NEW j \in Nodes
  PROVE  Made(j) /\ Collected(j) /\ j \in Nat /\ j < MaxNodes
<1>1. Nodes \subseteq NodeIndices
  BY NodesIn DEF IInv
<1>2. QED
  BY <1>1, ArgumentsAssumption
     DEF IInv, Progress, AllMade, Finished, NodeIndices, ArgumentsAssumption

LEMMA GenesisAgrees == IInv => OneGenesis
<1> SUFFICES ASSUME IInv, phase = "done", NEW i \in Nodes
             PROVE  /\ dirs[i].genesis = dirs[0].genesis
                    /\ dirs[i].genesis.chain = run
                    /\ dirs[i].genesis.accounts = {dirs[j].account : j \in Nodes}
                    /\ dirs[i].genesis.gentxs =
                         {[node |-> dirs[j].id, account |-> dirs[j].account, stake |-> StakeOf(j)]
                            : j \in Nodes}
  BY DEF OneGenesis
<1>1. 0 \in Nodes
  BY NodesIn DEF IInv, Nodes
<1>2. dirs[i].genesis = [chain |-> run, accounts |-> AccountsOf(args.n), gentxs |-> Every]
  BY FinishedNode DEF Collected
<1>3. dirs[0].genesis = dirs[i].genesis
  BY <1>1, <1>2, FinishedNode DEF Collected
<1>4. \A j \in Nodes : dirs[j].account = <<run, j>>
  BY FinishedNode DEF Made
<1>5. AccountsOf(args.n) = {dirs[j].account : j \in Nodes}
  BY <1>4 DEF AccountsOf, Nodes
<1>6. Every =
        {[node |-> dirs[j].id, account |-> dirs[j].account, stake |-> StakeOf(j)] : j \in Nodes}
  BY <1>4 DEF Every, Gentx
<1>7. QED BY <1>2, <1>3, <1>5, <1>6

LEMMA CollectedSame == IInv => CollectedAgree
<1> SUFFICES ASSUME IInv, phase \in {"collect", "done"},
                    NEW i \in IF phase = "done" THEN Nodes ELSE 0 .. at - 1
             PROVE  dirs[i].gentxs = appState[1]
  BY DEF CollectedAgree
<1>1. CASE phase = "collect"
  <2>1. i \in 0 .. at - 1 /\ at \in Nat
    BY <1>1 DEF IInv, Typed
  <2>2. appState = <<Every>> /\ Collected(i)
    BY <1>1, <2>1 DEF IInv, Progress, Collecting
  <2>3. QED BY <2>2 DEF Collected
<1>2. CASE phase = "done"
  <2>1. appState = <<Every>> /\ Collected(i)
    BY <1>2 DEF IInv, Progress, Finished
  <2>2. QED BY <2>1 DEF Collected
<1>3. QED BY <1>1, <1>2

LEMMA PeersFound == IInv => PeersListen
<1> SUFFICES ASSUME IInv, phase = "done", NEW i \in Nodes, NEW j \in Nodes
             PROVE  dirs[i].config.peers[j + 1] = [node |-> dirs[j].id, port |-> dirs[j].config.p2p]
  BY DEF PeersListen
<1>1. dirs[i].config.peers = peers /\ dirs[j].config.p2p = P2PPort(j)
  BY FinishedNode DEF Collected
<1>2. j \in 0 .. Len(peers) - 1
  BY DEF IInv, Progress, AllMade, Nodes
<1>3. AnnouncedAt(j)
  BY <1>2 DEF IInv, Progress, Announced
<1>4. AnnouncedPort(j) = P2PPort(j)
  BY DEF AnnouncedPort, P2PPort
<1>5. QED BY <1>1, <1>3, <1>4 DEF AnnouncedAt

(* The nodes whose ports do not meet.                                      *)
Hosts == 0 .. 3886

(* The ports of node i.                                                    *)
PortOf(s, i) ==
  IF s = "p2p" THEN 26656 - 3 * i
  ELSE IF s = "rpc" THEN 26657 - 3 * i
  ELSE IF s = "proxy" THEN 26658 - 3 * i
  ELSE IF s = "prometheus" THEN 26660 + i
  ELSE IF s = "grpc" THEN 9090 - 2 * i
  ELSE 1317 - i

LEMMA PortValues ==
  ASSUME NEW i
  PROVE  /\ PortOf("p2p", i) = 26656 - 3 * i
         /\ PortOf("rpc", i) = 26657 - 3 * i
         /\ PortOf("proxy", i) = 26658 - 3 * i
         /\ PortOf("prometheus", i) = 26660 + i
         /\ PortOf("grpc", i) = 9090 - 2 * i
         /\ PortOf("api", i) = 1317 - i
BY DEF PortOf

(* Two services never meet, two nodes never on the same service.           *)
LEMMA ServicesApart ==
  ASSUME NEW i \in Hosts, NEW j \in Hosts
  PROVE  /\ PortOf("p2p", i) # PortOf("rpc", j)
         /\ PortOf("p2p", i) # PortOf("proxy", j)
         /\ PortOf("p2p", i) # PortOf("prometheus", j)
         /\ PortOf("p2p", i) # PortOf("grpc", j)
         /\ PortOf("p2p", i) # PortOf("api", j)
         /\ PortOf("rpc", i) # PortOf("proxy", j)
         /\ PortOf("rpc", i) # PortOf("prometheus", j)
         /\ PortOf("rpc", i) # PortOf("grpc", j)
         /\ PortOf("rpc", i) # PortOf("api", j)
         /\ PortOf("proxy", i) # PortOf("prometheus", j)
         /\ PortOf("proxy", i) # PortOf("grpc", j)
         /\ PortOf("proxy", i) # PortOf("api", j)
         /\ PortOf("prometheus", i) # PortOf("grpc", j)
         /\ PortOf("prometheus", i) # PortOf("api", j)
         /\ PortOf("grpc", i) # PortOf("api", j)
<1>1. i \in Nat /\ j \in Nat /\ i <= 3886 /\ j <= 3886
  BY DEF Hosts
<1>2. /\ PortOf("p2p", i) = 26656 - 3 * i /\ PortOf("rpc", i) = 26657 - 3 * i
      /\ PortOf("proxy", i) = 26658 - 3 * i /\ PortOf("prometheus", i) = 26660 + i
      /\ PortOf("grpc", i) = 9090 - 2 * i
  BY PortValues
<1>3. /\ PortOf("rpc", j) = 26657 - 3 * j /\ PortOf("proxy", j) = 26658 - 3 * j
      /\ PortOf("prometheus", j) = 26660 + j /\ PortOf("grpc", j) = 9090 - 2 * j
      /\ PortOf("api", j) = 1317 - j
  BY PortValues
<1>4. QED BY <1>1, <1>2, <1>3

LEMMA NodesApart ==
  ASSUME NEW i \in Int, NEW j \in Int
  PROVE  /\ 26656 - 3 * i = 26656 - 3 * j => i = j
         /\ 26657 - 3 * i = 26657 - 3 * j => i = j
         /\ 26658 - 3 * i = 26658 - 3 * j => i = j
         /\ 26660 + i = 26660 + j => i = j
         /\ 9090 - 2 * i = 9090 - 2 * j => i = j
         /\ 1317 - i = 1317 - j => i = j
OBVIOUS

LEMMA PortsApart ==
  ASSUME NEW i \in Hosts, NEW j \in Hosts, NEW s \in Services, NEW t \in Services,
         PortOf(s, i) = PortOf(t, j)
  PROVE  i = j /\ s = t
<1>1. /\ /\ PortOf("p2p", i) # PortOf("rpc", j)
         /\ PortOf("p2p", i) # PortOf("proxy", j)
         /\ PortOf("p2p", i) # PortOf("prometheus", j)
         /\ PortOf("p2p", i) # PortOf("grpc", j)
         /\ PortOf("p2p", i) # PortOf("api", j)
         /\ PortOf("rpc", i) # PortOf("proxy", j)
         /\ PortOf("rpc", i) # PortOf("prometheus", j)
         /\ PortOf("rpc", i) # PortOf("grpc", j)
         /\ PortOf("rpc", i) # PortOf("api", j)
         /\ PortOf("proxy", i) # PortOf("prometheus", j)
         /\ PortOf("proxy", i) # PortOf("grpc", j)
         /\ PortOf("proxy", i) # PortOf("api", j)
         /\ PortOf("prometheus", i) # PortOf("grpc", j)
         /\ PortOf("prometheus", i) # PortOf("api", j)
         /\ PortOf("grpc", i) # PortOf("api", j)
      /\ /\ PortOf("p2p", j) # PortOf("rpc", i)
         /\ PortOf("p2p", j) # PortOf("proxy", i)
         /\ PortOf("p2p", j) # PortOf("prometheus", i)
         /\ PortOf("p2p", j) # PortOf("grpc", i)
         /\ PortOf("p2p", j) # PortOf("api", i)
         /\ PortOf("rpc", j) # PortOf("proxy", i)
         /\ PortOf("rpc", j) # PortOf("prometheus", i)
         /\ PortOf("rpc", j) # PortOf("grpc", i)
         /\ PortOf("rpc", j) # PortOf("api", i)
         /\ PortOf("proxy", j) # PortOf("prometheus", i)
         /\ PortOf("proxy", j) # PortOf("grpc", i)
         /\ PortOf("proxy", j) # PortOf("api", i)
         /\ PortOf("prometheus", j) # PortOf("grpc", i)
         /\ PortOf("prometheus", j) # PortOf("api", i)
         /\ PortOf("grpc", j) # PortOf("api", i)
  BY ServicesApart
<1>2. s = t
  <2>1. CASE s = "p2p"
    BY <1>1, <2>1 DEF Services
  <2>2. CASE s = "rpc"
    BY <1>1, <2>2 DEF Services
  <2>3. CASE s = "proxy"
    BY <1>1, <2>3 DEF Services
  <2>4. CASE s = "prometheus"
    BY <1>1, <2>4 DEF Services
  <2>5. CASE s = "grpc"
    BY <1>1, <2>5 DEF Services
  <2>6. CASE s = "api"
    BY <1>1, <2>6 DEF Services
  <2>7. QED BY <2>1, <2>2, <2>3, <2>4, <2>5, <2>6 DEF Services
<1>3. CASE s = "p2p"
  <2>1. PortOf("p2p", i) = PortOf("p2p", j)
    BY <1>2, <1>3
  <2>2. i \in Int /\ j \in Int
    BY DEF Hosts
  <2>3. QED BY <1>2, <2>1, <2>2, NodesApart, PortValues
<1>4. CASE s = "rpc"
  <2>1. PortOf("rpc", i) = PortOf("rpc", j)
    BY <1>2, <1>4
  <2>2. i \in Int /\ j \in Int
    BY DEF Hosts
  <2>3. QED BY <1>2, <2>1, <2>2, NodesApart, PortValues
<1>5. CASE s = "proxy"
  <2>1. PortOf("proxy", i) = PortOf("proxy", j)
    BY <1>2, <1>5
  <2>2. i \in Int /\ j \in Int
    BY DEF Hosts
  <2>3. QED BY <1>2, <2>1, <2>2, NodesApart, PortValues
<1>6. CASE s = "prometheus"
  <2>1. PortOf("prometheus", i) = PortOf("prometheus", j)
    BY <1>2, <1>6
  <2>2. i \in Int /\ j \in Int
    BY DEF Hosts
  <2>3. QED BY <1>2, <2>1, <2>2, NodesApart, PortValues
<1>7. CASE s = "grpc"
  <2>1. PortOf("grpc", i) = PortOf("grpc", j)
    BY <1>2, <1>7
  <2>2. i \in Int /\ j \in Int
    BY DEF Hosts
  <2>3. QED BY <1>2, <2>1, <2>2, NodesApart, PortValues
<1>8. CASE s = "api"
  <2>1. PortOf("api", i) = PortOf("api", j)
    BY <1>2, <1>8
  <2>2. i \in Int /\ j \in Int
    BY DEF Hosts
  <2>3. QED BY <1>2, <2>1, <2>2, NodesApart, PortValues
<1>9. QED BY <1>3, <1>4, <1>5, <1>6, <1>7, <1>8 DEF Services

LEMMA ListenersApart == ASSUME MaxNodes <= 3887, IInv PROVE ListenersDistinct
<1> SUFFICES ASSUME phase = "done", args.ports = <<>>, NEW i \in Nodes, NEW j \in Nodes,
                    NEW s \in Services, NEW t \in Services, dirs[i].config[s] = dirs[j].config[t]
             PROVE  i = j /\ s = t
  BY DEF ListenersDistinct
<1>1. ASSUME NEW k \in Nodes PROVE \A x \in Services : dirs[k].config[x] = PortOf(x, k)
  <2>1. Made(k) /\ Collected(k) /\ RPCPort(k) = DefaultRPCPort(k)
    BY <1>1, FinishedNode DEF RPCPort
  <2>2. /\ dirs[k].config.p2p = PortOf("p2p", k)
        /\ dirs[k].config.rpc = PortOf("rpc", k)
        /\ dirs[k].config.proxy = PortOf("proxy", k)
        /\ dirs[k].config.prometheus = PortOf("prometheus", k)
        /\ dirs[k].config.grpc = PortOf("grpc", k)
        /\ dirs[k].config.api = PortOf("api", k)
    BY <2>1 DEF Made, Collected, PortOf, P2PPort, DefaultRPCPort, ProxyPort, PrometheusPort,
                GRPCPort, APIPort
  <2>3. QED BY <2>2 DEF Services
<1>2. i \in Hosts /\ j \in Hosts
  <2>1. MaxNodes \in Nat /\ i \in Nat /\ i < MaxNodes /\ j \in Nat /\ j < MaxNodes
    BY FinishedNode, ArgumentsAssumption DEF ArgumentsAssumption
  <2>2. QED BY <2>1 DEF Hosts
<1>3. PortOf(s, i) = PortOf(t, j)
  BY <1>1
<1>4. s \in Services /\ t \in Services
  OBVIOUS
<1>5. QED BY ONLY <1>2, <1>3, <1>4, PortsApart, Zenon

(* A run that succeeds leaves one genesis and peers that find each other,  *)
(* whatever lay in the output directory.                                   *)
THEOREM GenesisIsOne == Spec => [](OneGenesis /\ CollectedAgree /\ PeersListen)
<1>1. IInv => OneGenesis /\ CollectedAgree /\ PeersListen
  BY GenesisAgrees, CollectedSame, PeersFound
<1>2. QED
  BY <1>1, FilesInvariant, PTL

(* With distinct listeners it is one network.  The node numbered 3887 is   *)
(* the first whose gRPC port, 9090 - 2 * 3887, is the API port 1317 - 1 of *)
(* another, so the bound is as far as the arithmetic of the ports goes.    *)
THEOREM NetworkIsOne ==
  ASSUME MaxNodes <= 3887
  PROVE  Spec => []OneNetwork
<1>1. IInv => OneNetwork
  BY GenesisAgrees, CollectedSame, PeersFound, ListenersApart DEF OneNetwork
<1>2. QED
  BY <1>1, FilesInvariant, PTL

=============================================================================
