---------------------------- MODULE ModuleAccounts -----------------------------
(***************************************************************************)
(* The coins of the application: the module accounts and their permissions,*)
(* the accounts the bank blocks, and the orders of genesis, begin block and*)
(* end block of app/app_config.go.  The modules named there belong to the  *)
(* Cosmos SDK and ibc-go and are EXTERNAL: of each, the coins it moves and *)
(* the amounts it keeps in its own store (books).                          *)
(***************************************************************************)
EXTENDS Integers, Sequences

CONSTANTS
  Proposals,   \* governance proposals
  UserCoins,   \* coins of the accounts in the genesis
  MaxHeight    \* bound: blocks; the first is always made

ASSUME CoinsAssumption == UserCoins \in Nat \ {0} /\ MaxHeight \in Nat \ {0}

VARIABLES
  stage,     \* "genesis", "begin", "txs", "end" or "halted"
  step,      \* position in the stage's list of modules
  height,    \* block being made
  bal,       \* balances of the bank
  books,     \* [bonded, unbonding, rewards, escrowed] of staking, distribution, transfer
  deposits,  \* deposit of each proposal
  drained    \* a proposal has sent coins from the account of gov

vars == <<stage, step, height, bal, books, deposits, drained>>

(***************************************************************************)
(* The configuration                                                       *)
(***************************************************************************)

Perms(m) ==
  CASE m = "mint" -> {"minter"}
    [] m \in {"bonded_tokens_pool", "not_bonded_tokens_pool"} -> {"burner", "staking"}
    [] m = "gov" -> {"burner"}
    [] m = "transfer" -> {"minter", "burner"}
    [] OTHER -> {}

ModuleNames == {"fee_collector", "distribution", "mint", "bonded_tokens_pool",
                "not_bonded_tokens_pool", "gov", "nft", "transfer", "interchainaccounts"}

(* Mutant: gov may not burn.                                               *)
permsWithoutGov == [m \in ModuleNames |-> IF m = "gov" THEN {} ELSE Perms(m)]

moduleAccPerms == [m \in ModuleNames |-> Perms(m)]

(* Mutant: the pool of the bonded coins is forgotten.                      *)
blockedButBonded == {"fee_collector", "distribution", "mint", "not_bonded_tokens_pool", "nft"}

blockAccAddrs == {"fee_collector", "distribution", "mint", "bonded_tokens_pool",
                  "not_bonded_tokens_pool", "nft"}

BlockedAddresses == IF blockAccAddrs # {} THEN blockAccAddrs ELSE DOMAIN moduleAccPerms

(* The lists, without the modules that move no coins and need no others.   *)
InitGenesis == <<"auth", "bank", "distribution", "staking", "gov", "mint", "genutil">>

(* Mutants: slashing comes first; mint is listed twice.                    *)
SlashingFirst == <<"slashing", "mint", "distribution", "evidence">>
MintTwice == <<"mint", "mint", "distribution", "slashing", "evidence">>

BeginBlockers == <<"mint", "distribution", "slashing", "evidence">>

EndBlockers == <<"gov", "staking">>

(***************************************************************************)
(* The bank                                                                *)
(***************************************************************************)

Accounts == ModuleNames \cup {"user", "escrow"}

Amounts(from) == 1 .. bal[from]

Moved(b, from, to, a) ==
  [x \in Accounts |-> b[x] - (IF x = from THEN a ELSE 0) + (IF x = to THEN a ELSE 0)]
Booked(book, a) == [books EXCEPT ![book] = @ + a]

May(m, permission) == permission \in moduleAccPerms[m]

Init ==
  /\ stage = "genesis" /\ step = 1 /\ height = 0
  /\ bal = [x \in Accounts |-> 0]
  /\ books = [b \in {"bonded", "unbonding", "rewards", "escrowed"} |-> 0]
  /\ deposits = [p \in Proposals |-> 0]
  /\ drained = FALSE

Halt == stage' = "halted" /\ UNCHANGED <<step, height, bal, books, deposits, drained>>

(* The module at `step` of list is m; the next one follows, or the stage.  *)
Turn(st, list, m) == stage = st /\ step <= Len(list) /\ list[step] = m

Advance == step' = step + 1 /\ UNCHANGED <<stage, height>>

NextStage ==
  \/ /\ stage = "genesis" /\ step > Len(InitGenesis)
     /\ stage' = "begin" /\ height' = 1 /\ step' = 1
  \/ /\ stage = "begin" /\ step > Len(BeginBlockers)
     /\ stage' = "txs" /\ UNCHANGED <<height, step>>
  \/ /\ stage = "txs"
     /\ stage' = "end" /\ step' = 1 /\ UNCHANGED height
  \/ /\ stage = "end" /\ step > Len(EndBlockers) /\ height < MaxHeight
     /\ stage' = "begin" /\ height' = height + 1 /\ step' = 1

EnterStage == NextStage /\ UNCHANGED <<bal, books, deposits, drained>>

(***************************************************************************)
(* Genesis and blocks                                                      *)
(***************************************************************************)

(* A module's genesis; that of the bank brings the balances.               *)
InitModule(m) ==
  /\ Turn("genesis", InitGenesis, m) /\ m # "genutil"
  /\ bal' = IF m = "bank" THEN [bal EXCEPT !["user"] = UserCoins] ELSE bal
  /\ Advance /\ UNCHANGED <<books, deposits, drained>>

(* The gentxs delegate the first coins, by rules and from balances that    *)
(* auth, bank and staking have to set before.                              *)
DeliverGenTxs ==
  /\ Turn("genesis", InitGenesis, "genutil")
  /\ IF {"auth", "bank", "staking"} \subseteq {InitGenesis[i] : i \in 1 .. step - 1}
       THEN /\ bal' = Moved(bal, "user", "bonded_tokens_pool", 1)
            /\ books' = Booked("bonded", 1)
            /\ Advance /\ UNCHANGED <<deposits, drained>>
       ELSE Halt

MintBegin ==
  /\ Turn("begin", BeginBlockers, "mint")
  /\ IF May("mint", "minter") THEN /\ bal' = [bal EXCEPT !["fee_collector"] = @ + 1]
                                   /\ Advance /\ UNCHANGED <<books, deposits, drained>>
                              ELSE Halt

(* Fees and provisions become rewards, from the second block on.           *)
AllocateTokens ==
  /\ Turn("begin", BeginBlockers, "distribution")
  /\ LET fees == IF height > 1 THEN bal["fee_collector"] ELSE 0
     IN  /\ bal' = Moved(bal, "fee_collector", "distribution", fees)
         /\ books' = Booked("rewards", fees)
  /\ Advance /\ UNCHANGED <<deposits, drained>>

(* A validator and the coins that left it are slashed; nobody has signed a *)
(* block before the second.                                                *)
Slash(m) ==
  /\ m \in {"slashing", "evidence"} /\ Turn("begin", BeginBlockers, m)
  /\ \E a \in 0 .. books.bonded, b \in 0 .. books.unbonding :
       /\ height = 1 => a + b = 0
       /\ IF /\ a = 0 \/ May("bonded_tokens_pool", "burner")
             /\ b = 0 \/ May("not_bonded_tokens_pool", "burner")
            THEN /\ bal' = [bal EXCEPT !["bonded_tokens_pool"] = @ - a,
                                       !["not_bonded_tokens_pool"] = @ - b]
                 /\ books' = [books EXCEPT !.bonded = @ - a, !.unbonding = @ - b]
                 /\ Advance /\ UNCHANGED <<deposits, drained>>
            ELSE Halt

(* A proposal that ends has its deposit refunded or burnt.                 *)
EndProposal(p) ==
  /\ Turn("end", EndBlockers, "gov") /\ deposits[p] > 0
  /\ \E burn \in BOOLEAN :
       IF bal["gov"] < deposits[p] \/ (burn /\ ~May("gov", "burner"))
         THEN Halt
         ELSE /\ bal' = IF burn THEN [bal EXCEPT !["gov"] = @ - deposits[p]]
                                ELSE Moved(bal, "gov", "user", deposits[p])
              /\ deposits' = [deposits EXCEPT ![p] = 0]
              /\ UNCHANGED <<stage, step, height, books, drained>>

(* One that passes, its deposit refunded, spends from the community pool   *)
(* or has gov send coins; both refuse blocked recipients.                  *)
PassProposal(p, to) ==
  /\ Turn("end", EndBlockers, "gov") /\ deposits[p] \in Amounts("gov")
  /\ to \notin BlockedAddresses
  /\ LET refunded == Moved(bal, "gov", "user", deposits[p])
     IN  \/ \E a \in 1 .. books.rewards :
              /\ bal' = Moved(refunded, "distribution", to, a)
              /\ books' = Booked("rewards", -a) /\ UNCHANGED drained
         \/ \E a \in 1 .. refunded["gov"] :
              /\ bal' = Moved(refunded, "gov", to, a)
              /\ drained' = (drained \/ to # "gov") /\ UNCHANGED books
  /\ deposits' = [deposits EXCEPT ![p] = 0]
  /\ UNCHANGED <<stage, step, height>>

EndGov ==
  /\ Turn("end", EndBlockers, "gov")
  /\ Advance /\ UNCHANGED <<bal, books, deposits, drained>>

(* Unbonding ends; validators enter or leave the active set.               *)
EndStaking ==
  /\ Turn("end", EndBlockers, "staking")
  /\ \/ \E a \in 0 .. books.unbonding :
          bal' = Moved(bal, "not_bonded_tokens_pool", "user", a) /\ books' = Booked("unbonding", -a)
     \/ \E a \in -books.unbonding .. books.bonded :
          /\ bal' = Moved(bal, "bonded_tokens_pool", "not_bonded_tokens_pool", a)
          /\ books' = [books EXCEPT !.bonded = @ - a, !.unbonding = @ + a]
  /\ Advance /\ UNCHANGED <<deposits, drained>>

(***************************************************************************)
(* Transactions                                                            *)
(***************************************************************************)

Tx(from, to, a) == stage = "txs" /\ bal' = Moved(bal, from, to, a)
                   /\ UNCHANGED <<stage, step, height, drained>>

(* MsgSend.                                                                *)
Send(to, a) == Tx("user", to, a) /\ to \notin BlockedAddresses /\ UNCHANGED <<books, deposits>>

PayFee(a) == Tx("user", "fee_collector", a) /\ UNCHANGED <<books, deposits>>

Delegate(a) ==
  Tx("user", "bonded_tokens_pool", a) /\ books' = Booked("bonded", a) /\ UNCHANGED deposits

WithdrawRewards(a) ==
  /\ a <= books.rewards /\ Tx("distribution", "user", a)
  /\ books' = Booked("rewards", -a) /\ UNCHANGED deposits

Deposit(p, a) ==
  /\ Tx("user", "gov", a)
  /\ deposits' = [deposits EXCEPT ![p] = @ + a] /\ UNCHANGED books

(* An IBC transfer leaves coins in escrow, and a packet brings them back   *)
(* to a receiver of the other chain's choice.                              *)
SendTransfer(a) ==
  Tx("user", "escrow", a) /\ books' = Booked("escrowed", a) /\ UNCHANGED deposits

RecvTransfer(to, a) ==
  /\ a <= books.escrowed /\ to \notin BlockedAddresses
  /\ Tx("escrow", to, a)
  /\ books' = Booked("escrowed", -a) /\ UNCHANGED deposits

Next ==
  \/ EnterStage \/ DeliverGenTxs \/ MintBegin \/ AllocateTokens \/ EndGov \/ EndStaking
  \/ \E m \in {InitGenesis[i] : i \in DOMAIN InitGenesis} : InitModule(m)
  \/ \E m \in {"slashing", "evidence"} : Slash(m)
  \/ \E p \in Proposals :
       \/ EndProposal(p)
       \/ \E a \in Amounts("user") : Deposit(p, a)
       \/ \E to \in Accounts : PassProposal(p, to)
  \/ \E a \in Amounts("user") : PayFee(a) \/ Delegate(a) \/ SendTransfer(a)
  \/ \E a \in Amounts("distribution") : WithdrawRewards(a)
  \/ \E to \in Accounts :
       \/ \E a \in Amounts("user") : Send(to, a)
       \/ \E a \in Amounts("escrow") : RecvTransfer(to, a)

Spec == Init /\ [][Next]_vars

(***************************************************************************)
(* Properties                                                              *)
(***************************************************************************)

Coins == 0 .. UserCoins + MaxHeight

(* Every variable keeps its type, and no coins appear but the provision of *)
(* each block.                                                             *)
TypeOK ==
  /\ stage \in {"genesis", "begin", "txs", "end", "halted"}
  /\ step \in 1 .. 8 /\ height \in 0 .. MaxHeight
  /\ bal \in [Accounts -> 0 .. UserCoins + height]
  /\ books \in [{"bonded", "unbonding", "rewards", "escrowed"} -> Coins]
  /\ deposits \in [Proposals -> Nat]
  /\ drained \in BOOLEAN

(* What staking and distribution believe to hold is what the bank says they*)
(* hold: no send, payment of the community pool or packet reaches their    *)
(* accounts around them, which would break their invariants.               *)
BooksBalanced ==
  /\ bal["bonded_tokens_pool"] = books.bonded
  /\ bal["not_bonded_tokens_pool"] = books.unbonding
  /\ bal["distribution"] = books.rewards
  /\ bal["mint"] = 0 /\ bal["nft"] = 0

(* The chain never halts for a missing permission or an uninitialised      *)
(* module; the deposits are always covered, also when others send to gov,  *)
(* unless a proposal sends coins from its account.                         *)
HaltCause == stage = "halted" => drained

(* "slashing happens after distr.BeginBlocker so that there is nothing left*)
(* over in the validator fee pool".                                        *)
SlashedAfterAllocation ==
  [][stage = "begin" /\ books'.bonded + books'.unbonding < books.bonded + books.unbonding
       => bal["fee_collector"] = 0]_vars

=============================================================================
