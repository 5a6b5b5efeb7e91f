--------------------------- MODULE StablecoinParams ---------------------------
(***************************************************************************)
(* The x/stablecoin module (src/chain/x/stablecoin): its Params item, from *)
(* the genesis file a chain starts from, over transactions and queries, to *)
(* the genesis file an export writes for the next chain.                   *)
(*                                                                         *)
(* Params has no fields, so there is one value; what the state knows is    *)
(* whether the item is stored.  A genesis file is a record: the modules it *)
(* has a section for, and whether the section of x/stablecoin parses.      *)
(* Module manager, transactions and gov are EXTERNAL.                      *)
(***************************************************************************)
EXTENDS Integers, Sequences

CONSTANTS
  Modules, Stablecoin,   \* the modules of the app, x/stablecoin among them
  Signers,               \* addresses that parse
  Malformed,             \* one that does not
  Gov,                   \* address of the gov module account
  Configured,            \* authority of the module configuration; Malformed if empty
  MaxTxs,                \* bound: transactions and queries of a chain
  MaxChains              \* bound: chains started

ASSUME ModulesAssumption ==
  /\ Stablecoin \in Modules
  /\ Gov \in Signers /\ Malformed \notin Signers
  /\ Configured \in Signers \cup {Malformed}
  /\ MaxTxs \in Nat /\ MaxChains \in Nat

VARIABLES
  phase,    \* "file", "running" or "panicked"
  file,     \* the genesis file of the next chain, [modules, parses]
  stored,   \* the chain has the Params item
  answer,   \* what the last query returned, "none" at first
  txs, chains,
  origin,   \* the file the running chain started from
  updates   \* the messages of the committed transactions

paramsVars == <<phase, file, stored, answer, txs, chains, origin, updates>>

(* ProvideModule: the configured authority, by default gov.                *)
Authority == IF Configured = Malformed THEN Gov ELSE Configured

Files == [modules : SUBSET Modules, parses : BOOLEAN]

(* An operator may start a chain from any file.                            *)
ParamsInit ==
  /\ phase = "file" /\ file \in Files
  /\ stored = FALSE /\ answer = "none" /\ txs = 0 /\ chains = 0
  /\ origin = file /\ updates = <<>>

(* InitGenesis: the module manager skips a module without a section, and   *)
(* the module panics on a section that does not parse.                     *)
StartChain ==
  /\ phase = "file" /\ chains < MaxChains
  /\ chains' = chains + 1 /\ txs' = 0
  /\ origin' = file /\ updates' = <<>> /\ answer' = "none"
  /\ IF Stablecoin \in file.modules /\ ~file.parses
       THEN phase' = "panicked" /\ stored' = FALSE
       ELSE phase' = "running" /\ stored' = (Stablecoin \in file.modules)
  /\ UNCHANGED file

(* A message is [kind, signer]: UpdateParams, or one of another module     *)
(* that succeeds or fails.                                                 *)
Messages == [kind : {"update"}, signer : Signers \cup {Malformed}]
              \cup [kind : {"pass", "fail"}, signer : {Gov}]

(* The authority must parse and be the module's, byte for byte; every      *)
(* value of Params validates.                                              *)
AuthorityParses(m) == m.signer # Malformed
AuthorityMatches(m) == m.signer = Authority

(* Mutant: anybody may update.                                             *)
UpdateOfAnybody(m) == AuthorityParses(m)

UpdateSucceeds(m) == AuthorityParses(m) /\ AuthorityMatches(m)

Succeeds(m) == IF m.kind = "update" THEN UpdateSucceeds(m) ELSE m.kind = "pass"

(* Mutant: only the first message is run.                                  *)
FirstStores(msgs) == msgs[1].kind = "update"

Stores(msgs) == \E i \in DOMAIN msgs : msgs[i].kind = "update"

(* The messages of a transaction, or of a proposal, take effect together;  *)
(* an update sets the item.                                                *)
DeliverTx(msgs) ==
  /\ phase = "running" /\ txs < MaxTxs
  /\ txs' = txs + 1
  /\ IF \A i \in DOMAIN msgs : Succeeds(msgs[i])
       THEN /\ stored' = (stored \/ Stores(msgs))
            /\ updates' = updates \o msgs
       ELSE UNCHANGED <<stored, updates>>
  /\ UNCHANGED <<phase, file, answer, chains, origin>>

(* Mutant: the query tells that the item is missing.                       *)
AnswerIfStored(given) ==
  IF ~given THEN "invalid request" ELSE IF stored THEN "params" ELSE "not found"

(* The query hides that the item is missing and answers the zero Params.   *)
(* It has a third answer, for a stored item that does not decode; an item  *)
(* written by the steps of this module always does (QueryGateway asks what *)
(* becomes of one that does not).                                          *)
Answer(given) == IF given THEN "params" ELSE "invalid request"

QueryParams(given) ==
  /\ phase = "running"
  /\ answer' = Answer(given)
  /\ UNCHANGED <<phase, file, stored, txs, chains, origin, updates>>

(* Export of some of the modules: ExportGenesis of the module fails, and   *)
(* the module panics, when the item is missing.                            *)
Export(modules) ==
  /\ phase = "running"
  /\ IF Stablecoin \in modules /\ ~stored
       THEN phase' = "panicked" /\ UNCHANGED file
       ELSE phase' = "file" /\ file' = [modules |-> modules, parses |-> TRUE]
  /\ UNCHANGED <<stored, answer, txs, chains, origin, updates>>

MessageLists == {<<m>> : m \in Messages} \cup {<<m, n>> : m, n \in Messages}

ParamsNext ==
  \/ StartChain
  \/ \E msgs \in MessageLists : DeliverTx(msgs)
  \/ \E given \in BOOLEAN : QueryParams(given)
  \/ \E modules \in (SUBSET Modules) \ {{}} : Export(modules)

ParamsSpec == ParamsInit /\ [][ParamsNext]_paramsVars

(***************************************************************************)
(* Properties                                                              *)
(***************************************************************************)

(* Every variable keeps its type.                                          *)
ParamsTypeOK ==
  /\ phase \in {"file", "running", "panicked"}
  /\ file \in Files /\ origin \in Files
  /\ stored \in BOOLEAN
  /\ answer \in {"none", "params", "invalid request"}
  /\ txs \in Nat /\ chains \in Nat
  /\ updates \in Seq(Messages)

(* The message updates the parameters with the module's authority.         *)
Authorised(m) == m.kind = "update" /\ m.signer = Authority

(* The item is there exactly when the genesis had it or an authorised      *)
(* update was committed since: neither a rejected update nor the update of *)
(* a transaction that failed in another message stores it.                 *)
StoredByGenesisOrAuthority ==
  phase # "file" =>
    (stored <=> \/ Stablecoin \in origin.modules /\ origin.parses
                \/ \E i \in DOMAIN updates : Authorised(updates[i]))

(* An export or a start panics only because the genesis of the chain did   *)
(* not carry the module's section in a form that parses and no authorised  *)
(* update repaired it, though queries of that chain were answered.         *)
PanicCause ==
  phase = "panicked" =>
    /\ Stablecoin \in origin.modules => ~origin.parses
    /\ ~ \E i \in DOMAIN updates : Authorised(updates[i])

=============================================================================
