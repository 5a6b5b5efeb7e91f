------------------------- MODULE ModuleAccountsProofs --------------------------
(***************************************************************************)
(* Proofs about ModuleAccounts, along an invariant of five parts: the books*)
(* of staking and distribution agree with the bank (IInv), the fee pool is *)
(* empty once distribution has had its turn (OrderInv), the account of gov *)
(* holds every deposit (HaltInv), stages, steps and heights fit together   *)
(* (ClockInv), and the coins of all accounts add up to those of the genesis*)
(* and the provisions (FundsInv).                                          *)
(***************************************************************************)
EXTENDS ModuleAccounts, TLAPS

BookNames == {"bonded", "unbonding", "rewards", "escrowed"}

(* Amounts are integers: all that the equations of BooksBalanced need.     *)
Integral ==
  /\ bal \in [Accounts -> Int]
  /\ books \in [BookNames -> Int]
  /\ deposits \in [Proposals -> Int]

IInv == Integral /\ BooksBalanced

(* The accounts that BooksBalanced is about, and the book of three of them.*)
Pools == {"bonded_tokens_pool", "not_bonded_tokens_pool", "distribution"}
Kept == Pools \cup {"mint", "nft"}

BookOf(k) == IF k = "distribution" THEN "rewards"
             ELSE IF k = "bonded_tokens_pool" THEN "bonded" ELSE "unbonding"

(* A move changes two balances and adds up to nothing.                     *)
LEMMA MovedType ==
  ASSUME NEW b \in [Accounts -> Int], NEW from \in Accounts, NEW to \in Accounts, NEW a \in Int
  PROVE  Moved(b, from, to, a) \in [Accounts -> Int]
BY DEF Moved

LEMMA MovedOthers ==
  ASSUME NEW b \in [Accounts -> Int], NEW from \in Accounts, NEW to \in Accounts, NEW a \in Int,
         NEW x \in Accounts \ {from, to}
  PROVE  Moved(b, from, to, a)[x] = b[x]
BY DEF Moved

LEMMA MovedEnds ==
  ASSUME NEW b \in [Accounts -> Int], NEW from \in Accounts, NEW to \in Accounts, NEW a \in Int,
         from # to
  PROVE  /\ Moved(b, from, to, a)[from] = b[from] - a
         /\ Moved(b, from, to, a)[to] = b[to] + a
BY DEF Moved

LEMMA MovedBack ==
  ASSUME NEW b \in [Accounts -> Int], NEW from, NEW to, NEW a \in Int
  PROVE  Moved(b, from, to, a) = Moved(b, to, from, -a)
BY DEF Moved

(* A booking changes one book.                                             *)
LEMMA BookedBooks ==
  ASSUME books \in [BookNames -> Int], NEW book \in BookNames, NEW a \in Int
  PROVE  /\ Booked(book, a) \in [BookNames -> Int]
         /\ Booked(book, a)[book] = books[book] + a
         /\ \A other \in BookNames \ {book} : Booked(book, a)[other] = books[other]
BY DEF Booked

(* The accounts, spelt out; the list of blocked ones is not empty, so it is*)
(* the one that counts, and it contains every account of BooksBalanced.    *)
LEMMA Named ==
  /\ Kept \subseteq Accounts /\ Kept \subseteq BlockedAddresses
  /\ {"user", "escrow", "gov", "fee_collector"} \subseteq Accounts
  /\ {"user", "escrow", "gov", "fee_collector"} \cap Kept = {}
BY DEF Accounts, ModuleNames, Kept, Pools, BlockedAddresses, blockAccAddrs

(* Nothing is held and nothing is booked before the genesis.               *)
LEMMA InitIInv == ASSUME Init PROVE IInv
<1>1. Integral
  BY DEF Init, Integral, BookNames
<1>2. BooksBalanced
  BY Named DEF Init, BooksBalanced, Kept, Pools
<1>3. QED BY <1>1, <1>2 DEF IInv

(* A step that leaves those accounts and the books alone.                  *)
LEMMA OtherAccounts ==
  ASSUME IInv, bal' \in [Accounts -> Int], deposits' \in [Proposals -> Int], books' = books,
         \A k \in Kept : bal'[k] = bal[k]
  PROVE  IInv'
BY DEF IInv, Integral, BooksBalanced, Kept, Pools

(* A move between other accounts.                                          *)
LEMMA AroundPools ==
  ASSUME IInv, NEW from \in Accounts \ Kept, NEW to \in Accounts \ Kept, NEW a \in Int,
         bal' = Moved(bal, from, to, a), deposits' \in [Proposals -> Int], books' = books
  PROVE  IInv'
<1>1. bal \in [Accounts -> Int]
  BY DEF IInv, Integral
<1>2. bal' \in [Accounts -> Int]
  BY <1>1, MovedType
<1>3. \A x \in Accounts \ {from, to} : bal'[x] = bal[x]
  BY <1>1, MovedOthers
<1>4. \A k \in Kept : bal'[k] = bal[k]
  BY <1>3, Named
<1>5. QED BY <1>2, <1>4, OtherAccounts

(* A pool and its book change together.                                    *)
LEMMA OnePool ==
  ASSUME IInv, NEW k \in Pools, NEW a \in Int,
         bal' \in [Accounts -> Int], bal'[k] = bal[k] + a,
         \A x \in Kept \ {k} : bal'[x] = bal[x],
         books' = Booked(BookOf(k), a), deposits' \in [Proposals -> Int]
  PROVE  IInv'
<1>1. BookOf(k) \in BookNames
  BY DEF BookOf, BookNames
<1>2. /\ books' \in [BookNames -> Int]
      /\ books'[BookOf(k)] = books[BookOf(k)] + a
      /\ \A other \in BookNames \ {BookOf(k)} : books'[other] = books[other]
  BY <1>1, BookedBooks DEF IInv, Integral
<1>3. CASE k = "distribution"
  BY <1>2, <1>3 DEF IInv, Integral, BooksBalanced, Kept, Pools, BookOf, BookNames
<1>4. CASE k = "bonded_tokens_pool"
  BY <1>2, <1>4 DEF IInv, Integral, BooksBalanced, Kept, Pools, BookOf, BookNames
<1>5. CASE k = "not_bonded_tokens_pool"
  BY <1>2, <1>5 DEF IInv, Integral, BooksBalanced, Kept, Pools, BookOf, BookNames
<1>6. QED BY <1>3, <1>4, <1>5 DEF Pools

LEMMA IntoPool ==
  ASSUME IInv, NEW k \in Pools, NEW other \in Accounts \ Kept, NEW a \in Int,
         bal' = Moved(bal, other, k, a),
         books' = Booked(BookOf(k), a), deposits' \in [Proposals -> Int]
  PROVE  IInv'
<1>1. bal \in [Accounts -> Int] /\ k \in Kept /\ k \in Accounts /\ k # other
  BY Named DEF IInv, Integral, Kept
<1>2. bal' \in [Accounts -> Int] /\ bal'[k] = bal[k] + a
  <2>1. bal' \in [Accounts -> Int]
    BY <1>1, MovedType
  <2>2. bal'[k] = bal[k] + a
    BY <1>1, MovedEnds
  <2>3. QED BY <2>1, <2>2
<1>3. \A x \in Accounts \ {other, k} : bal'[x] = bal[x]
  BY <1>1, MovedOthers
<1>4. \A x \in Kept \ {k} : bal'[x] = bal[x]
  BY <1>3, Named
<1>5. QED BY <1>2, <1>4, OnePool

LEMMA OutOfPool ==
  ASSUME IInv, NEW k \in Pools, NEW other \in Accounts \ Kept, NEW a \in Int,
         bal' = Moved(bal, k, other, a),
         books' = Booked(BookOf(k), -a), deposits' \in [Proposals -> Int]
  PROVE  IInv'
<1>1. bal' = Moved(bal, other, k, -a) /\ -a \in Int
  BY MovedBack DEF IInv, Integral
<1>2. QED BY <1>1, IntoPool

(* The pools and their books, spelt out.                                   *)
LEMMA PoolBooks ==
  /\ "distribution" \in Pools /\ BookOf("distribution") = "rewards"
  /\ "bonded_tokens_pool" \in Pools /\ BookOf("bonded_tokens_pool") = "bonded"
  /\ "not_bonded_tokens_pool" \in Pools /\ BookOf("not_bonded_tokens_pool") = "unbonding"
BY DEF Pools, BookOf

(* Genesis.                                                                *)
LEMMA InitModuleIInv ==
  ASSUME CoinsAssumption, IInv, NEW m, InitModule(m)
  PROVE  IInv'
<1>1. bal' \in [Accounts -> Int] /\ \A k \in Kept : bal'[k] = bal[k]
  BY Named DEF InitModule, IInv, Integral, CoinsAssumption
<1>2. books' = books /\ deposits' \in [Proposals -> Int]
  BY DEF InitModule, IInv, Integral
<1>3. QED BY <1>1, <1>2, OtherAccounts

LEMMA HaltIInv == ASSUME IInv, Halt PROVE IInv'
BY DEF Halt, IInv, Integral, BooksBalanced

LEMMA DeliverGenTxsIInv == ASSUME IInv, DeliverGenTxs PROVE IInv'
<1>1. CASE Halt
  BY <1>1, HaltIInv
<1>2. CASE /\ bal' = Moved(bal, "user", "bonded_tokens_pool", 1)
           /\ books' = Booked("bonded", 1) /\ deposits' = deposits
  <2>1. "user" \in Accounts \ Kept
    BY Named
  <2>2. deposits' \in [Proposals -> Int]
    BY <1>2 DEF IInv, Integral
  <2>3. QED BY <1>2, <2>1, <2>2, PoolBooks, IntoPool
<1>3. QED BY <1>1, <1>2 DEF DeliverGenTxs

(* Begin block.                                                            *)
LEMMA MintBeginIInv == ASSUME IInv, MintBegin PROVE IInv'
<1>1. CASE Halt
  BY <1>1, HaltIInv
<1>2. CASE /\ bal' = [bal EXCEPT !["fee_collector"] = @ + 1]
           /\ UNCHANGED <<books, deposits>>
  <2>1. bal' \in [Accounts -> Int]
    BY <1>2, Named DEF IInv, Integral
  <2>2. \A k \in Kept : k # "fee_collector"
    BY Named
  <2>3. \A k \in Kept : bal'[k] = bal[k]
    BY <1>2, <2>2, Named DEF IInv, Integral
  <2>4. QED BY <1>2, <2>1, <2>3, OtherAccounts DEF IInv, Integral
<1>3. QED BY <1>1, <1>2 DEF MintBegin

LEMMA AllocateTokensIInv == ASSUME IInv, AllocateTokens PROVE IInv'
<1> DEFINE fees == IF height > 1 THEN bal["fee_collector"] ELSE 0
<1>1. fees \in Int
  BY Named DEF IInv, Integral
<1>2. /\ bal' = Moved(bal, "fee_collector", "distribution", fees)
      /\ books' = Booked("rewards", fees) /\ deposits' = deposits
  BY DEF AllocateTokens
<1>3. "fee_collector" \in Accounts \ Kept
  BY Named
<1> HIDE DEF fees
<1>4. QED BY <1>1, <1>2, <1>3, PoolBooks, IntoPool DEF IInv, Integral

(* Two pools and their books change together.                              *)
LEMMA BondedPools ==
  ASSUME IInv, NEW a \in Int, NEW b \in Int,
         bal' \in [Accounts -> Int], deposits' \in [Proposals -> Int],
         bal'["bonded_tokens_pool"] = bal["bonded_tokens_pool"] + a,
         bal'["not_bonded_tokens_pool"] = bal["not_bonded_tokens_pool"] + b,
         \A x \in {"distribution", "mint", "nft"} : bal'[x] = bal[x],
         books' = [books EXCEPT !.bonded = @ + a, !.unbonding = @ + b]
  PROVE  IInv'
<1> DEFINE once == [books EXCEPT !.bonded = books.bonded + a]
<1>1. books \in [BookNames -> Int] /\ books.bonded + a \in Int /\ books.unbonding + b \in Int
  BY DEF IInv, Integral, BookNames
<1>2. /\ once \in [BookNames -> Int] /\ once.bonded = books.bonded + a
      /\ \A k \in BookNames \ {"bonded"} : once[k] = books[k]
  BY <1>1 DEF BookNames
<1>3. books' = [once EXCEPT !.unbonding = books.unbonding + b]
  OBVIOUS
<1> HIDE DEF once
<1>4. /\ books' \in [BookNames -> Int] /\ books'.unbonding = books.unbonding + b
      /\ \A k \in BookNames \ {"unbonding"} : books'[k] = once[k]
  BY <1>1, <1>2, <1>3 DEF BookNames
<1>5. books'.bonded = books.bonded + a /\ books'.rewards = books.rewards
  BY <1>2, <1>4 DEF BookNames
<1>6. QED BY <1>4, <1>5 DEF IInv, Integral, BooksBalanced

LEMMA SlashIInv == ASSUME IInv, NEW m, Slash(m) PROVE IInv'
<1>1. CASE Halt
  BY <1>1, HaltIInv
<1>2. ASSUME NEW a \in Int, NEW b \in Int,
             bal' = [bal EXCEPT !["bonded_tokens_pool"] = @ - a,
                                !["not_bonded_tokens_pool"] = @ - b],
             books' = [books EXCEPT !.bonded = @ - a, !.unbonding = @ - b],
             deposits' = deposits
      PROVE  IInv'
  <2>1. bal \in [Accounts -> Int] /\ Kept \subseteq Accounts
    BY Named DEF IInv, Integral
  <2>2. /\ bal' \in [Accounts -> Int]
        /\ bal'["bonded_tokens_pool"] = bal["bonded_tokens_pool"] - a
        /\ bal'["not_bonded_tokens_pool"] = bal["not_bonded_tokens_pool"] - b
        /\ \A x \in {"distribution", "mint", "nft"} : bal'[x] = bal[x]
    BY <1>2, <2>1 DEF Kept, Pools
  <2>3. books' = [books EXCEPT !.bonded = @ + -a, !.unbonding = @ + -b]
    BY <1>2 DEF IInv, Integral, BookNames
  <2>4. -a \in Int /\ -b \in Int /\ deposits' \in [Proposals -> Int]
    BY <1>2 DEF IInv, Integral
  <2>5. /\ bal'["bonded_tokens_pool"] = bal["bonded_tokens_pool"] + -a
        /\ bal'["not_bonded_tokens_pool"] = bal["not_bonded_tokens_pool"] + -b
    BY <2>1, <2>2 DEF Kept, Pools
  <2>6. QED BY <2>2, <2>3, <2>4, <2>5, BondedPools
<1>3. PICK a \in 0 .. books.bonded, b \in 0 .. books.unbonding :
        \/ Halt
        \/ /\ bal' = [bal EXCEPT !["bonded_tokens_pool"] = @ - a,
                                 !["not_bonded_tokens_pool"] = @ - b]
           /\ books' = [books EXCEPT !.bonded = @ - a, !.unbonding = @ - b]
           /\ deposits' = deposits
  BY Zenon DEF Slash
<1>4. a \in Int /\ b \in Int
  OBVIOUS
<1>5. QED BY <1>1, <1>2, <1>3, <1>4

(* End block.                                                              *)
LEMMA EndProposalIInv ==
  ASSUME IInv, NEW p \in Proposals, EndProposal(p)
  PROVE  IInv'
<1>1. CASE Halt
  BY <1>1, HaltIInv
<1>2. deposits[p] \in Int /\ [deposits EXCEPT ![p] = 0] \in [Proposals -> Int]
  BY DEF IInv, Integral
<1>3. "gov" \in Accounts \ Kept /\ "user" \in Accounts \ Kept
  BY Named
<1>4. CASE /\ bal' = [bal EXCEPT !["gov"] = @ - deposits[p]]
           /\ deposits' = [deposits EXCEPT ![p] = 0] /\ books' = books
  <2>1. bal' \in [Accounts -> Int] /\ \A x \in Accounts \ {"gov"} : bal'[x] = bal[x]
    BY <1>2, <1>3, <1>4 DEF IInv, Integral
  <2>2. \A k \in Kept : bal'[k] = bal[k]
    BY <1>3, <2>1, Named
  <2>3. QED BY <1>2, <1>4, <2>1, <2>2, OtherAccounts
<1>5. CASE /\ bal' = Moved(bal, "gov", "user", deposits[p])
           /\ deposits' = [deposits EXCEPT ![p] = 0] /\ books' = books
  BY <1>2, <1>3, <1>5, AroundPools
<1>6. QED BY <1>1, <1>4, <1>5 DEF EndProposal

(* A proposal that passes moves coins twice.                               *)
LEMMA PassProposalIInv ==
  ASSUME IInv, NEW p \in Proposals, NEW to \in Accounts, PassProposal(p, to)
  PROVE  IInv'
<1> DEFINE refunded == Moved(bal, "gov", "user", deposits[p])
<1>1. /\ "gov" \in Accounts \ Kept /\ "user" \in Accounts \ Kept /\ to \in Accounts \ Kept
      /\ Kept \subseteq Accounts
  BY Named DEF PassProposal
<1>2. bal \in [Accounts -> Int] /\ deposits[p] \in Int /\ deposits' \in [Proposals -> Int]
  BY DEF IInv, Integral, PassProposal
<1>3. refunded \in [Accounts -> Int]
  <2>1. Moved(bal, "gov", "user", deposits[p]) \in [Accounts -> Int]
    BY <1>1, <1>2, MovedType
  <2>2. QED BY <2>1
<1>4. \A k \in Kept : refunded[k] = bal[k]
  <2>1. \A x \in Accounts \ {"gov", "user"} : Moved(bal, "gov", "user", deposits[p])[x] = bal[x]
    BY <1>1, <1>2, MovedOthers
  <2>2. QED BY <1>1, <2>1
<1> HIDE DEF refunded
<1>5. ASSUME NEW a \in Int, bal' = Moved(refunded, "distribution", to, a),
             books' = Booked("rewards", -a)
      PROVE  IInv'
  <2>1. "distribution" \in Pools /\ "distribution" \in Kept /\ "distribution" \in Accounts
        /\ BookOf("distribution") = "rewards" /\ "distribution" # to
    BY <1>1, PoolBooks DEF Kept
  <2>2. bal' \in [Accounts -> Int] /\ bal'["distribution"] = refunded["distribution"] - a
    <3>1. bal' \in [Accounts -> Int]
      BY <1>1, <1>3, <1>5, <2>1, MovedType
    <3>2. bal'["distribution"] = refunded["distribution"] - a
      BY <1>1, <1>3, <1>5, <2>1, MovedEnds
    <3>3. QED BY <3>1, <3>2
  <2>3. \A x \in Accounts \ {"distribution", to} : bal'[x] = refunded[x]
    BY <1>1, <1>3, <1>5, <2>1, MovedOthers
  <2>4. \A x \in Kept \ {"distribution"} : bal'[x] = bal[x]
    BY <1>1, <1>4, <2>3
  <2>5. bal'["distribution"] = bal["distribution"] + -a /\ -a \in Int
    BY <1>2, <1>4, <1>5, <2>1, <2>2
  <2>6. QED BY <1>2, <1>5, <2>1, <2>2, <2>4, <2>5, OnePool
<1>6. ASSUME NEW a \in Int, bal' = Moved(refunded, "gov", to, a), books' = books
      PROVE  IInv'
  <2>1. bal' \in [Accounts -> Int]
    BY <1>1, <1>3, <1>6, MovedType
  <2>2. \A x \in Accounts \ {"gov", to} : bal'[x] = refunded[x]
    BY <1>1, <1>3, <1>6, MovedOthers
  <2>3. \A k \in Kept : bal'[k] = bal[k]
    BY <1>1, <1>4, <2>2
  <2>4. QED BY <1>2, <1>6, <2>1, <2>3, OtherAccounts
<1>7. QED BY <1>5, <1>6 DEF PassProposal, refunded

LEMMA EndStakingIInv == ASSUME IInv, EndStaking PROVE IInv'
<1>1. deposits' \in [Proposals -> Int] /\ bal \in [Accounts -> Int]
  BY DEF EndStaking, IInv, Integral
<1>2. /\ "user" \in Accounts \ Kept /\ "bonded_tokens_pool" \in Accounts
      /\ "not_bonded_tokens_pool" \in Accounts
      /\ {"distribution", "mint", "nft"} \subseteq
            Accounts \ {"bonded_tokens_pool", "not_bonded_tokens_pool"}
  BY Named DEF Kept, Pools
<1>3. ASSUME NEW a \in Int, bal' = Moved(bal, "not_bonded_tokens_pool", "user", a),
             books' = Booked("unbonding", -a)
      PROVE  IInv'
  BY <1>1, <1>2, <1>3, PoolBooks, OutOfPool
<1>4. ASSUME NEW a \in Int,
             bal' = Moved(bal, "bonded_tokens_pool", "not_bonded_tokens_pool", a),
             books' = [books EXCEPT !.bonded = @ - a, !.unbonding = @ + a]
      PROVE  IInv'
  <2>1. bal' \in [Accounts -> Int]
    BY <1>1, <1>2, <1>4, MovedType
  <2>2. /\ bal'["bonded_tokens_pool"] = bal["bonded_tokens_pool"] - a
        /\ bal'["not_bonded_tokens_pool"] = bal["not_bonded_tokens_pool"] + a
    <3>1. "bonded_tokens_pool" # "not_bonded_tokens_pool"
      OBVIOUS
    <3>2. QED BY <1>1, <1>2, <1>4, <3>1, MovedEnds
  <2>3. \A x \in {"distribution", "mint", "nft"} : bal'[x] = bal[x]
    <3>1. \A x \in Accounts \ {"bonded_tokens_pool", "not_bonded_tokens_pool"} : bal'[x] = bal[x]
      BY <1>1, <1>2, <1>4, MovedOthers
    <3>2. QED BY <1>2, <3>1
  <2>4. books' = [books EXCEPT !.bonded = @ + -a, !.unbonding = @ + a]
    BY <1>4 DEF IInv, Integral, BookNames
  <2>5. -a \in Int /\ bal'["bonded_tokens_pool"] = bal["bonded_tokens_pool"] + -a
    BY <1>1, <1>2, <1>4, <2>2
  <2>6. QED BY <1>1, <2>1, <2>2, <2>3, <2>4, <2>5, BondedPools
<1>5. books.bonded \in Int /\ books.unbonding \in Int
  BY DEF IInv, Integral, BookNames
<1>6. \/ \E a \in 0 .. books.unbonding :
            /\ bal' = Moved(bal, "not_bonded_tokens_pool", "user", a)
            /\ books' = Booked("unbonding", -a)
      \/ \E a \in -books.unbonding .. books.bonded :
            /\ bal' = Moved(bal, "bonded_tokens_pool", "not_bonded_tokens_pool", a)
            /\ books' = [books EXCEPT !.bonded = @ - a, !.unbonding = @ + a]
  BY Zenon DEF EndStaking
<1>7. CASE \E a \in 0 .. books.unbonding :
             /\ bal' = Moved(bal, "not_bonded_tokens_pool", "user", a)
             /\ books' = Booked("unbonding", -a)
  BY <1>3, <1>5, <1>7
<1>8. CASE \E a \in -books.unbonding .. books.bonded :
             /\ bal' = Moved(bal, "bonded_tokens_pool", "not_bonded_tokens_pool", a)
             /\ books' = [books EXCEPT !.bonded = @ - a, !.unbonding = @ + a]
  <2>1. PICK a \in -books.unbonding .. books.bonded :
             /\ bal' = Moved(bal, "bonded_tokens_pool", "not_bonded_tokens_pool", a)
             /\ books' = [books EXCEPT !.bonded = @ - a, !.unbonding = @ + a]
    BY <1>8
  <2>2. a \in Int
    BY <1>5
  <2>3. QED BY <1>4, <2>1, <2>2
<1>9. QED BY <1>6, <1>7, <1>8

(* Transactions.                                                           *)
LEMMA TxIInv ==
  ASSUME IInv, NEW a \in Int,
         \/ PayFee(a) \/ Delegate(a) \/ SendTransfer(a) \/ WithdrawRewards(a)
         \/ \E p \in Proposals : Deposit(p, a)
         \/ \E to \in Accounts : Send(to, a) \/ RecvTransfer(to, a)
  PROVE  IInv'
<1> USE Named, PoolBooks
<1>1. bal \in [Accounts -> Int] /\ deposits \in [Proposals -> Int] /\ books \in [BookNames -> Int]
  BY DEF IInv, Integral
<1>2. /\ "user" \in Accounts \ Kept /\ "escrow" \in Accounts \ Kept /\ "gov" \in Accounts \ Kept
      /\ "fee_collector" \in Accounts \ Kept
  OBVIOUS
<1>3. CASE PayFee(a)
  BY <1>1, <1>2, <1>3, AroundPools DEF PayFee, Tx
<1>4. CASE Delegate(a)
  BY <1>1, <1>2, <1>4, IntoPool DEF Delegate, Tx
<1>5. CASE WithdrawRewards(a)
  BY <1>1, <1>2, <1>5, OutOfPool DEF WithdrawRewards, Tx
<1>6. ASSUME NEW p \in Proposals, Deposit(p, a) PROVE IInv'
  <2>1. deposits' \in [Proposals -> Int]
    BY <1>1, <1>6 DEF Deposit
  <2>2. QED BY <1>2, <1>6, <2>1, AroundPools DEF Deposit, Tx
<1>7. ASSUME NEW to \in Accounts, Send(to, a) PROVE IInv'
  <2>1. to \in Accounts \ Kept
    BY <1>7 DEF Send
  <2>2. QED BY <1>1, <1>2, <1>7, <2>1, AroundPools DEF Send, Tx
<1>8. ASSUME NEW from \in Accounts \ Kept, NEW to \in Accounts \ Kept, NEW c \in Int,
             bal' = Moved(bal, from, to, a), books' = Booked("escrowed", c), deposits' = deposits
      PROVE  IInv'
  <2>1. "escrowed" \in BookNames
    BY DEF BookNames
  <2>2. /\ books' \in [BookNames -> Int]
        /\ \A other \in BookNames \ {"escrowed"} : books'[other] = books[other]
    BY <1>1, <1>8, <2>1, BookedBooks
  <2>3. bal' \in [Accounts -> Int]
    BY <1>1, <1>8, MovedType
  <2>4. \A x \in Accounts \ {from, to} : bal'[x] = bal[x]
    BY <1>1, <1>8, MovedOthers
  <2>5. \A k \in Kept : bal'[k] = bal[k]
    BY <2>4
  <2>6. BooksBalanced'
    BY <2>2, <2>5 DEF IInv, BooksBalanced, BookNames, Kept, Pools
  <2>7. QED BY <1>1, <1>8, <2>2, <2>3, <2>6 DEF IInv, Integral
<1>9. CASE SendTransfer(a)
  BY <1>2, <1>8, <1>9 DEF SendTransfer, Tx
<1>10. ASSUME NEW to \in Accounts, RecvTransfer(to, a) PROVE IInv'
  <2>1. to \in Accounts \ Kept /\ -a \in Int
    BY <1>10 DEF RecvTransfer
  <2>2. QED BY <1>2, <1>8, <1>10, <2>1 DEF RecvTransfer, Tx
<1>11. QED BY <1>3, <1>4, <1>5, <1>6, <1>7, <1>9, <1>10

(* Every step keeps the invariant.                                         *)
LEMMA NextIInv == ASSUME CoinsAssumption, IInv, [Next]_vars PROVE IInv'
<1>1. CASE UNCHANGED <<bal, books, deposits>>
  BY <1>1 DEF IInv, Integral, BooksBalanced
<1>2. CASE EnterStage \/ EndGov
  BY <1>1, <1>2 DEF EnterStage, EndGov
<1>3. CASE DeliverGenTxs \/ MintBegin \/ AllocateTokens \/ EndStaking
  BY <1>3, DeliverGenTxsIInv, MintBeginIInv, AllocateTokensIInv, EndStakingIInv
<1>4. ASSUME NEW m, InitModule(m) \/ Slash(m) PROVE IInv'
  BY <1>4, InitModuleIInv, SlashIInv
<1>5. ASSUME NEW p \in Proposals, NEW to \in Accounts, EndProposal(p) \/ PassProposal(p, to)
      PROVE  IInv'
  BY <1>5, EndProposalIInv, PassProposalIInv
<1>6. ASSUME NEW from \in Accounts, NEW a \in Amounts(from) PROVE a \in Int
  BY <1>6 DEF Amounts
<1>7. {"user", "distribution", "escrow"} \subseteq Accounts
  BY Named DEF Kept, Pools
<1>8. CASE \E a \in Amounts("user") : PayFee(a) \/ Delegate(a) \/ SendTransfer(a)
  BY <1>6, <1>7, <1>8, TxIInv
<1>9. CASE \E a \in Amounts("distribution") : WithdrawRewards(a)
  BY <1>6, <1>7, <1>9, TxIInv
<1>10. CASE \E p \in Proposals : \E a \in Amounts("user") : Deposit(p, a)
  BY <1>6, <1>7, <1>10, TxIInv
<1>11. CASE \E to \in Accounts : \/ \E a \in Amounts("user") : Send(to, a)
                                 \/ \E a \in Amounts("escrow") : RecvTransfer(to, a)
  BY <1>6, <1>7, <1>11, TxIInv
<1>12. CASE \E p \in Proposals : EndProposal(p) \/ \E to \in Accounts : PassProposal(p, to)
  BY <1>5, <1>7, <1>12
<1>13. QED
  BY <1>1, <1>2, <1>3, <1>4, <1>8, <1>9, <1>10, <1>11, <1>12, Zenon DEF Next, vars

(* Staking and distribution hold what they believe to hold, for any number *)
(* of proposals, blocks and coins: no send, spending of the community pool *)
(* or packet of IBC reaches an account of theirs, because BlockedAddresses *)
(* names them all.                                                         *)
THEOREM PoolsAccountedFor == Spec => []BooksBalanced
<1>1. Init => IInv
  BY InitIInv
<1>2. IInv /\ [Next]_vars => IInv'
  BY NextIInv, CoinsAssumption
<1>3. IInv => BooksBalanced
  BY DEF IInv
<1>4. QED BY <1>1, <1>2, <1>3, PTL DEF Spec

(***************************************************************************)
(* The order of begin block.                                               *)
(***************************************************************************)

(* Once distribution has had its turn, the fee pool is empty until the     *)
(* transactions; in the first block it keeps what it has.                  *)
OrderInv ==
  /\ step \in Nat \ {0} /\ height \in Nat
  /\ stage = "begin" => height # 0
  /\ stage = "begin" /\ step > 2 /\ height > 1 => bal["fee_collector"] = 0

LEMMA TurnsOfBegin ==
  ASSUME OrderInv, NEW m, Turn("begin", BeginBlockers, m)
  PROVE  /\ step \in 1 .. 4
         /\ m = "mint" => step = 1
         /\ m = "distribution" => step = 2
         /\ m \in {"slashing", "evidence"} => step \in 3 .. 4
BY DEF OrderInv, Turn, BeginBlockers

LEMMA MintBeginOrder == ASSUME IInv, OrderInv, MintBegin PROVE OrderInv'
<1>1. step = 1 /\ height \in Nat /\ height # 0
  <2>1. stage = "begin" /\ Turn("begin", BeginBlockers, "mint")
    BY DEF MintBegin, Turn
  <2>2. QED
    BY <2>1, TurnsOfBegin DEF OrderInv
<1>2. height' = height /\ ((stage' = "halted" /\ step' = step) \/ step' = step + 1)
  BY DEF MintBegin, Advance, Halt
<1>3. QED
  BY <1>1, <1>2 DEF OrderInv

LEMMA AllocateTokensOrder == ASSUME IInv, OrderInv, AllocateTokens PROVE OrderInv'
<1>1. step = 2 /\ height \in Nat /\ height # 0
  <2>1. stage = "begin" /\ Turn("begin", BeginBlockers, "distribution")
    BY DEF AllocateTokens, Turn
  <2>2. QED
    BY <2>1, TurnsOfBegin DEF OrderInv
<1>2. height' = height /\ step' = step + 1
  BY DEF AllocateTokens, Advance
<1>3. height > 1 => bal'["fee_collector"] = 0
  <2>1. {"fee_collector", "distribution"} \subseteq Accounts /\ bal \in [Accounts -> Int]
    BY Named DEF IInv, Integral, Kept, Pools
  <2>2. height > 1 => bal' = Moved(bal, "fee_collector", "distribution", bal["fee_collector"])
    BY DEF AllocateTokens
  <2>3. bal["fee_collector"] \in Int
    BY <2>1
  <2>4. QED
    BY <2>1, <2>2, <2>3, MovedEnds
<1>4. QED
  BY <1>1, <1>2, <1>3 DEF OrderInv

LEMMA SlashOrder == ASSUME IInv, OrderInv, NEW m, Slash(m) PROVE OrderInv'
<1>1. step \in 3 .. 4 /\ stage = "begin" /\ height \in Nat /\ height # 0
  <2>1. stage = "begin" /\ Turn("begin", BeginBlockers, m) /\ m \in {"slashing", "evidence"}
    BY DEF Slash, Turn
  <2>2. QED
    BY <2>1, TurnsOfBegin DEF OrderInv
<1>2. height' = height /\ ((stage' = "halted" /\ step' = step) \/ step' = step + 1)
  BY DEF Slash, Advance, Halt
<1>3. bal'["fee_collector"] = bal["fee_collector"]
  BY Named DEF Slash, Halt, IInv, Integral
<1>4. QED
  BY <1>1, <1>2, <1>3 DEF OrderInv

(* Outside begin block only the stage and the step matter.                 *)
LEMMA ElsewhereOrder ==
  ASSUME OrderInv, stage # "begin", stage' = stage \/ stage' = "halted",
         height' = height, step' = step \/ step' = step + 1
  PROVE  OrderInv'
BY DEF OrderInv

LEMMA EnterStageOrder == ASSUME OrderInv, EnterStage PROVE OrderInv'
BY DEF OrderInv, EnterStage, NextStage

LEMMA NextOrder == ASSUME IInv, OrderInv, [Next]_vars PROVE OrderInv'
<1>1. CASE UNCHANGED vars
  BY <1>1 DEF vars, OrderInv
<1>2. CASE DeliverGenTxs
  BY <1>2, ElsewhereOrder DEF DeliverGenTxs, Turn, Advance, Halt
<1>3. CASE EndGov \/ EndStaking
  BY <1>3, ElsewhereOrder DEF EndGov, EndStaking, Turn, Advance
<1>4. ASSUME NEW m, InitModule(m) PROVE OrderInv'
  BY <1>4, ElsewhereOrder DEF InitModule, Turn, Advance
<1>5. ASSUME NEW p, NEW to, EndProposal(p) \/ PassProposal(p, to) PROVE OrderInv'
  BY <1>5, ElsewhereOrder DEF EndProposal, PassProposal, Turn, Halt
<1>6. ASSUME NEW from, NEW to, NEW a, Tx(from, to, a) PROVE OrderInv'
  BY <1>6, ElsewhereOrder DEF Tx
<1>7. CASE \E p \in Proposals : EndProposal(p) \/ \E to \in Accounts : PassProposal(p, to)
  BY <1>5, <1>7
<1>8. CASE \/ \E p \in Proposals, a \in Amounts("user") : Deposit(p, a)
           \/ \E a \in Amounts("user") : PayFee(a) \/ Delegate(a) \/ SendTransfer(a)
           \/ \E a \in Amounts("distribution") : WithdrawRewards(a)
           \/ \E to \in Accounts, a \in Amounts("user") : Send(to, a)
           \/ \E to \in Accounts, a \in Amounts("escrow") : RecvTransfer(to, a)
  BY <1>6, <1>8, Zenon
  DEF Deposit, PayFee, Delegate, SendTransfer, WithdrawRewards, Send, RecvTransfer
<1>9. QED
  BY <1>1, <1>2, <1>3, <1>4, <1>7, <1>8, EnterStageOrder, MintBeginOrder, AllocateTokensOrder,
     SlashOrder, Zenon DEF Next

(* Only a slash takes coins from the pools in begin block.                 *)
LEMMA SlashedLate ==
  ASSUME IInv, OrderInv, Next, stage = "begin",
         books'.bonded + books'.unbonding < books.bonded + books.unbonding
  PROVE  bal["fee_collector"] = 0
<1>1. books.bonded \in Int /\ books.unbonding \in Int
  BY DEF IInv, Integral, BookNames
<1>2. books' # books
  BY <1>1
<1>3. ~AllocateTokens
  BY <1>1 DEF AllocateTokens, Booked, IInv, Integral, BookNames
<1>4. ~ \E from, to, a : Tx(from, to, a)
  BY Zenon DEF Tx
<1>5. PICK m \in {"slashing", "evidence"} : Slash(m)
  BY <1>2, <1>3, <1>4, Zenon
  DEF Next, EnterStage, DeliverGenTxs, MintBegin, Halt, EndGov, EndStaking, InitModule, EndProposal,
      PassProposal, Turn, Deposit, PayFee, Delegate, SendTransfer, WithdrawRewards, Send, RecvTransfer
<1>6. step \in 3 .. 4
  <2>1. Turn("begin", BeginBlockers, m)
    BY <1>5 DEF Slash
  <2>2. QED
    BY <2>1, TurnsOfBegin
<1>7. height # 1
  <2>1. PICK a \in 0 .. books.bonded, b \in 0 .. books.unbonding :
          /\ height = 1 => a + b = 0
          /\ books' = books \/ books' = [books EXCEPT !.bonded = @ - a, !.unbonding = @ - b]
    BY <1>5 DEF Slash, Halt
  <2>2. books'.bonded = books.bonded - a /\ books'.unbonding = books.unbonding - b
    BY <1>2, <2>1 DEF IInv, Integral, BookNames
  <2>3. a + b # 0
    BY <1>1, <2>2
  <2>4. QED
    BY <2>1, <2>3
<1>8. QED
  BY <1>6, <1>7 DEF OrderInv

(* No coins of the pools are slashed while fees lie in the fee pool: the   *)
(* order of BeginBlockers does what its comment says.                      *)
THEOREM SlashingAfterAllocation == Spec => SlashedAfterAllocation
<1>1. Init => IInv /\ OrderInv
  <2>1. Init => OrderInv
    BY DEF Init, OrderInv
  <2>2. QED
    BY <2>1, InitIInv
<1>2. IInv /\ OrderInv /\ [Next]_vars => IInv' /\ OrderInv'
  BY NextIInv, NextOrder, CoinsAssumption
<1>3. IInv /\ OrderInv /\ [Next]_vars =>
        [stage = "begin" /\ books'.bonded + books'.unbonding < books.bonded + books.unbonding
           => bal["fee_collector"] = 0]_vars
  BY SlashedLate
<1>4. QED
  BY <1>1, <1>2, <1>3, PTL DEF Spec, SlashedAfterAllocation

(***************************************************************************)
(* Why the chain halts.                                                    *)
(***************************************************************************)

(* The deposits d lie side by side in an account that holds c coins: those *)
(* of p from place at[p] on.                                               *)
Disjoint(d, at, p, q) == at[p] + d[p] <= at[q] \/ at[q] + d[q] <= at[p]

SideBySide(c, d, at) ==
  /\ \A p \in Proposals : d[p] > 0 => at[p] + d[p] <= c
  /\ \A p, q \in Proposals : p # q /\ d[p] > 0 /\ d[q] > 0 => Disjoint(d, at, p, q)

Fits(c, d) == c >= 0 /\ \E at \in [Proposals -> Nat] : SideBySide(c, d, at)

Covered == drained \/ Fits(bal["gov"], deposits)

HaltInv ==
  /\ drained \in BOOLEAN /\ deposits \in [Proposals -> Nat]
  /\ HaltCause /\ Covered

(* A deposit that fits is there.                                           *)
LEMMA FitsEach ==
  ASSUME NEW c \in Int, NEW d \in [Proposals -> Nat], Fits(c, d), NEW p \in Proposals, d[p] > 0
  PROVE  d[p] <= c
<1>1. PICK at \in [Proposals -> Nat] : SideBySide(c, d, at)
  BY DEF Fits
<1>2. QED BY <1>1 DEF SideBySide

(* More coins do no harm.                                                  *)
LEMMA FitsMore ==
  ASSUME NEW c \in Int, NEW e \in Int, c <= e, NEW d \in [Proposals -> Nat], Fits(c, d)
  PROVE  Fits(e, d)
<1>1. PICK at \in [Proposals -> Nat] : SideBySide(c, d, at)
  BY DEF Fits
<1>2. SideBySide(e, d, at)
  BY <1>1 DEF SideBySide
<1>3. QED BY <1>2 DEF Fits

(* When one deposit leaves with its coins, those behind it move up.        *)
LEMMA FitsWithout ==
  ASSUME NEW c \in Int, NEW d \in [Proposals -> Nat], Fits(c, d), NEW p \in Proposals, d[p] > 0
  PROVE  Fits(c - d[p], [d EXCEPT ![p] = 0])
<1>1. PICK at \in [Proposals -> Nat] : SideBySide(c, d, at)
  BY DEF Fits
<1> DEFINE e == [d EXCEPT ![p] = 0]
           up == [q \in Proposals |-> IF at[q] > at[p] THEN at[q] - d[p] ELSE at[q]]
<1>2. /\ e \in [Proposals -> Nat] /\ e[p] = 0 /\ d[p] \in Nat /\ at[p] \in Nat
      /\ \A q \in Proposals \ {p} : e[q] = d[q]
  OBVIOUS
<1>3. \A q \in Proposals \ {p} : e[q] > 0 =>
         /\ at[q] \in Nat /\ d[q] \in Nat /\ e[q] = d[q]
         /\ \/ up[q] = at[q] /\ at[q] + d[q] <= at[p]
            \/ up[q] = at[q] - d[p] /\ at[p] + d[p] <= at[q]
         /\ at[q] + d[q] <= c
  <2>1. ASSUME NEW q \in Proposals \ {p}, e[q] > 0
        PROVE  /\ at[q] \in Nat /\ d[q] \in Nat /\ e[q] = d[q]
               /\ Disjoint(d, at, p, q) /\ at[q] + d[q] <= c
    BY <1>1, <1>2, <2>1 DEF SideBySide
  <2>2. ASSUME NEW q \in Proposals \ {p}, e[q] > 0
        PROVE  \/ up[q] = at[q] /\ at[q] + d[q] <= at[p]
               \/ up[q] = at[q] - d[p] /\ at[p] + d[p] <= at[q]
    BY <1>2, <2>1, <2>2 DEF Disjoint
  <2>3. QED BY <2>1, <2>2
<1>4. at[p] + d[p] <= c
  BY <1>1 DEF SideBySide
<1>5. [q \in Proposals |-> IF e[q] > 0 THEN up[q] ELSE 0] \in [Proposals -> Nat]
  BY <1>2, <1>3
<1> DEFINE place == [q \in Proposals |-> IF e[q] > 0 THEN up[q] ELSE 0]
<1>6. ASSUME NEW q \in Proposals, e[q] > 0
      PROVE  place[q] = up[q] /\ place[q] + e[q] <= c - d[p]
  BY <1>2, <1>3, <1>4, <1>6
<1>7. ASSUME NEW q \in Proposals, NEW r \in Proposals, q # r, e[q] > 0, e[r] > 0
      PROVE  Disjoint(e, place, q, r)
  <2>1. q # p /\ r # p /\ e[q] = d[q] /\ e[r] = d[r]
    BY <1>2, <1>7
  <2>2. Disjoint(d, at, q, r)
    BY <1>1, <1>7, <2>1 DEF SideBySide
  <2>3. place[q] = up[q] /\ place[r] = up[r]
    BY <1>6, <1>7
  <2> HIDE DEF place, up, e
  <2>4. QED BY <1>2, <1>3, <1>7, <2>1, <2>2, <2>3 DEF Disjoint
<1> HIDE DEF up
<1>8. SideBySide(c - d[p], e, place)
  BY <1>6, <1>7 DEF SideBySide
<1>9. c - d[p] >= 0
  BY <1>2, <1>4
<1>10. QED BY <1>5, <1>8, <1>9 DEF Fits

(* A deposit that arrives with its coins goes to the end.                  *)
LEMMA FitsWith ==
  ASSUME NEW c \in Nat, NEW d \in [Proposals -> Nat], Fits(c, d), NEW p \in Proposals, d[p] = 0,
         NEW a \in Nat
  PROVE  Fits(c + a, [d EXCEPT ![p] = a])
<1>1. PICK at \in [Proposals -> Nat] : SideBySide(c, d, at)
  BY DEF Fits
<1> DEFINE e == [d EXCEPT ![p] = a]
           place == [at EXCEPT ![p] = c]
<1>2. /\ e[p] = a /\ place[p] = c /\ place \in [Proposals -> Nat] /\ e \in [Proposals -> Nat]
      /\ \A q \in Proposals \ {p} : e[q] = d[q] /\ place[q] = at[q]
  OBVIOUS
<1>3. \A q \in Proposals \ {p} : e[q] > 0 => place[q] + e[q] <= c
  BY <1>1, <1>2 DEF SideBySide
<1> HIDE DEF e, place
<1>4. ASSUME NEW q \in Proposals, NEW r \in Proposals, q # r, e[q] > 0, e[r] > 0
      PROVE  Disjoint(e, place, q, r)
  <2>1. CASE q = p
    BY <1>2, <1>3, <1>4, <2>1 DEF Disjoint
  <2>2. CASE r = p
    BY <1>2, <1>3, <1>4, <2>2 DEF Disjoint
  <2>3. CASE q # p /\ r # p
    <3>1. Disjoint(d, at, q, r)
      BY <1>1, <1>2, <1>4, <2>3 DEF SideBySide
    <3>2. QED BY <1>2, <2>3, <3>1 DEF Disjoint
  <2>4. QED BY <2>1, <2>2, <2>3
<1>5. ASSUME NEW q \in Proposals, e[q] > 0 PROVE place[q] + e[q] <= c + a
  BY <1>2, <1>3, <1>5
<1>6. SideBySide(c + a, e, place)
  BY <1>4, <1>5 DEF SideBySide
<1>7. QED BY <1>2, <1>6 DEF Fits, e

(* A deposit that grows leaves and comes back.                             *)
LEMMA FitsGrown ==
  ASSUME NEW c \in Nat, NEW d \in [Proposals -> Nat], Fits(c, d), NEW p \in Proposals, NEW a \in Nat
  PROVE  Fits(c + a, [d EXCEPT ![p] = @ + a])
<1>1. CASE d[p] = 0
  <2>1. [d EXCEPT ![p] = @ + a] = [d EXCEPT ![p] = a]
    BY <1>1
  <2>2. QED BY <1>1, <2>1, FitsWith
<1>2. CASE d[p] > 0
  <2> DEFINE e == [d EXCEPT ![p] = 0]
  <2>1. Fits(c - d[p], e) /\ e \in [Proposals -> Nat] /\ d[p] \in Nat
    <3>1. c \in Int
      OBVIOUS
    <3>2. Fits(c - d[p], [d EXCEPT ![p] = 0])
      BY <1>2, <3>1, FitsWithout
    <3>3. QED BY <3>2
  <2>2. c - d[p] \in Nat
    <3>1. d[p] <= c
      BY <1>2, FitsEach
    <3>2. QED BY <2>1, <3>1
  <2>3. d[p] + a \in Nat /\ e[p] = 0
    BY <2>1
  <2>4. [e EXCEPT ![p] = d[p] + a] = [d EXCEPT ![p] = d[p] + a]
    OBVIOUS
  <2> HIDE DEF e
  <2>5. Fits((c - d[p]) + (d[p] + a), [e EXCEPT ![p] = d[p] + a])
    BY <2>1, <2>2, <2>3, FitsWith
  <2>6. (c - d[p]) + (d[p] + a) = c + a
    BY <2>1
  <2>7. QED BY <2>4, <2>5, <2>6
<1>3. QED BY <1>1, <1>2

(* Steps that leave the deposits alone and take nothing from gov.          *)
LEMMA GovKept ==
  ASSUME IInv, HaltInv, bal'["gov"] \in Int, bal'["gov"] >= bal["gov"],
         deposits' = deposits, drained' = drained, stage' = "halted" => stage = "halted"
  PROVE  HaltInv'
<1>1. bal["gov"] \in Int
  BY Named DEF IInv, Integral
<1>2. ASSUME Fits(bal["gov"], deposits) PROVE Fits(bal'["gov"], deposits)
  BY <1>1, <1>2, FitsMore DEF HaltInv
<1>3. QED BY <1>2 DEF HaltInv, HaltCause, Covered

LEMMA GovUntouched ==
  ASSUME IInv, HaltInv, bal'["gov"] = bal["gov"], deposits' = deposits, drained' = drained,
         stage' = "halted" => stage = "halted"
  PROVE  HaltInv'
<1>1. bal["gov"] \in Int
  BY Named DEF IInv, Integral
<1>2. QED BY <1>1, GovKept

(* Every permission that the modules use is in moduleAccPerms.             *)
LEMMA Permitted ==
  /\ May("mint", "minter") /\ May("gov", "burner")
  /\ May("bonded_tokens_pool", "burner") /\ May("not_bonded_tokens_pool", "burner")
BY DEF May, moduleAccPerms, Perms, ModuleNames

(* A move into gov, or around it.                                          *)
LEMMA MovedNearGov ==
  ASSUME NEW b \in [Accounts -> Int], NEW from \in Accounts \ {"gov"}, NEW to \in Accounts,
         NEW a \in Int
  PROVE  /\ Moved(b, from, to, a)["gov"] \in Int
         /\ to # "gov" => Moved(b, from, to, a)["gov"] = b["gov"]
         /\ a >= 0 => Moved(b, from, to, a)["gov"] >= b["gov"]
BY Named DEF Moved

LEMMA DeliverGenTxsHalt == ASSUME IInv, HaltInv, OrderInv, DeliverGenTxs PROVE HaltInv'
<1>1. step = 7
  BY DEF DeliverGenTxs, Turn, InitGenesis, OrderInv
<1>2. {"auth", "bank", "staking"} \subseteq {InitGenesis[i] : i \in 1 .. step - 1}
  <2>1. InitGenesis[1] = "auth" /\ InitGenesis[2] = "bank" /\ InitGenesis[4] = "staking"
    BY DEF InitGenesis
  <2>2. 1 \in 1 .. step - 1 /\ 2 \in 1 .. step - 1 /\ 4 \in 1 .. step - 1
    BY <1>1
  <2>3. QED BY <2>1, <2>2
<1>3. bal' = Moved(bal, "user", "bonded_tokens_pool", 1)
  BY <1>2, Zenon DEF DeliverGenTxs
<1>4. deposits' = deposits /\ drained' = drained /\ stage' = stage
  BY <1>2, Zenon DEF DeliverGenTxs, Advance
<1>5. bal'["gov"] = bal["gov"]
  <2>1. "user" \in Accounts \ {"gov"} /\ "bonded_tokens_pool" \in Accounts
    BY Named DEF Kept, Pools
  <2>2. QED BY <1>3, <2>1, MovedNearGov DEF IInv, Integral
<1>6. QED BY <1>4, <1>5, GovUntouched

LEMMA BeginHalt ==
  ASSUME IInv, HaltInv, \/ MintBegin \/ AllocateTokens \/ \E m \in {"slashing", "evidence"} : Slash(m)
  PROVE  HaltInv'
<1>1. bal \in [Accounts -> Int]
  BY DEF IInv, Integral
<1>2. CASE MintBegin
  <2>1. bal' = [bal EXCEPT !["fee_collector"] = @ + 1] /\ Advance /\ UNCHANGED <<deposits, drained>>
    BY <1>2, Permitted DEF MintBegin
  <2>2. QED BY <1>1, <2>1, Named, GovUntouched DEF Advance
<1>3. CASE AllocateTokens
  <2> DEFINE fees == IF height > 1 THEN bal["fee_collector"] ELSE 0
  <2>1. bal' = Moved(bal, "fee_collector", "distribution", fees)
    BY <1>3 DEF AllocateTokens
  <2>2. fees \in Int
    BY <1>1, Named
  <2>3. "fee_collector" \in Accounts \ {"gov"} /\ "distribution" \in Accounts
    BY Named DEF Kept, Pools
  <2> HIDE DEF fees
  <2>4. bal'["gov"] = bal["gov"]
    BY <1>1, <2>1, <2>2, <2>3, MovedNearGov
  <2>5. QED BY <1>3, <2>4, GovUntouched DEF AllocateTokens, Advance
<1>4. ASSUME NEW m \in {"slashing", "evidence"}, Slash(m) PROVE HaltInv'
  <2>1. PICK a \in 0 .. books.bonded, b \in 0 .. books.unbonding :
          /\ bal' = [bal EXCEPT !["bonded_tokens_pool"] = @ - a,
                                !["not_bonded_tokens_pool"] = @ - b]
          /\ Advance /\ UNCHANGED <<deposits, drained>>
    BY <1>4, Permitted, Zenon DEF Slash
  <2>2. bal'["gov"] = bal["gov"]
    BY <1>1, <2>1, Named
  <2>3. QED BY <2>1, <2>2, GovUntouched DEF Advance
<1>5. QED BY <1>2, <1>3, <1>4

(* A proposal ends: its coins are there, so the chain goes on.             *)
LEMMA EndProposalHalt ==
  ASSUME IInv, HaltInv, NEW p \in Proposals, EndProposal(p)
  PROVE  HaltInv'
<1>1. /\ bal \in [Accounts -> Int] /\ bal["gov"] \in Int /\ deposits \in [Proposals -> Nat]
      /\ deposits[p] \in Nat /\ deposits[p] > 0 /\ stage = "end" /\ drained \in BOOLEAN
  BY Named DEF IInv, Integral, HaltInv, EndProposal, Turn
<1>2. CASE Halt
  <2>1. bal["gov"] < deposits[p]
    <3>1. \/ bal["gov"] < deposits[p]
          \/ deposits' = [deposits EXCEPT ![p] = 0]
      BY Permitted DEF EndProposal
    <3>2. deposits' # [deposits EXCEPT ![p] = 0]
      BY <1>1, <1>2 DEF Halt
    <3>3. QED BY <3>1, <3>2
  <2>2. drained
    BY <1>1, <2>1, FitsEach DEF HaltInv, Covered
  <2>3. QED BY <1>1, <1>2, <2>2 DEF HaltInv, HaltCause, Covered, Halt
<1>3. CASE /\ bal' = [bal EXCEPT !["gov"] = @ - deposits[p]] \/ bal' = Moved(bal, "gov", "user", deposits[p])
           /\ deposits' = [deposits EXCEPT ![p] = 0]
           /\ UNCHANGED <<stage, drained>>
  <2>1. bal'["gov"] = bal["gov"] - deposits[p]
    <3>1. "gov" \in Accounts /\ "user" \in Accounts /\ "gov" # "user"
      BY Named
    <3>2. QED BY <1>1, <1>3, <3>1, MovedEnds
  <2>2. ASSUME Fits(bal["gov"], deposits) PROVE Fits(bal'["gov"], deposits')
    BY <1>1, <1>3, <2>1, <2>2, FitsWithout
  <2>3. deposits' \in [Proposals -> Nat]
    BY <1>1, <1>3
  <2>4. QED BY <1>1, <1>3, <2>2, <2>3 DEF HaltInv, HaltCause, Covered
<1>4. QED BY <1>2, <1>3 DEF EndProposal

LEMMA PassProposalHalt ==
  ASSUME IInv, HaltInv, NEW p \in Proposals, NEW to \in Accounts, PassProposal(p, to)
  PROVE  HaltInv'
<1> DEFINE refunded == Moved(bal, "gov", "user", deposits[p])
<1>1. /\ bal \in [Accounts -> Int] /\ bal["gov"] \in Int /\ deposits \in [Proposals -> Nat]
      /\ deposits[p] \in Nat /\ deposits[p] > 0 /\ drained \in BOOLEAN /\ stage = "end"
      /\ deposits' = [deposits EXCEPT ![p] = 0] /\ stage' = stage
  BY Named DEF IInv, Integral, HaltInv, PassProposal, Amounts, Turn
<1>2. "gov" \in Accounts /\ "user" \in Accounts /\ "gov" # "user" /\ "distribution" \in Accounts \ {"gov"}
  BY Named DEF Kept, Pools
<1>3. refunded \in [Accounts -> Int] /\ refunded["gov"] = bal["gov"] - deposits[p]
  <2>1. Moved(bal, "gov", "user", deposits[p]) \in [Accounts -> Int]
    BY <1>1, <1>2, MovedType
  <2>2. Moved(bal, "gov", "user", deposits[p])["gov"] = bal["gov"] - deposits[p]
    BY <1>1, <1>2 DEF Moved
  <2>3. QED BY <2>1, <2>2
<1> HIDE DEF refunded
<1>4. ASSUME Fits(bal["gov"], deposits) PROVE Fits(refunded["gov"], deposits')
  BY <1>1, <1>3, <1>4, FitsWithout
<1>5. deposits' \in [Proposals -> Nat]
  BY <1>1
<1>6. ASSUME drained' = drained, bal'["gov"] \in Int, bal'["gov"] >= refunded["gov"] PROVE HaltInv'
  <2>1. refunded["gov"] \in Int
    BY <1>1, <1>3
  <2>2. ASSUME Fits(refunded["gov"], deposits') PROVE Fits(bal'["gov"], deposits')
    BY <1>5, <1>6, <2>1, <2>2, FitsMore
  <2>3. QED BY <1>1, <1>4, <1>5, <1>6, <2>2 DEF HaltInv, HaltCause, Covered
<1>7. CASE \E a \in 1 .. books.rewards : bal' = Moved(refunded, "distribution", to, a) /\ UNCHANGED drained
  <2>1. PICK a \in 1 .. books.rewards : bal' = Moved(refunded, "distribution", to, a) /\ UNCHANGED drained
    BY <1>7
  <2>2. a \in Int /\ a >= 0
    BY <2>1 DEF IInv, Integral, BookNames
  <2>3. bal'["gov"] \in Int /\ bal'["gov"] >= refunded["gov"]
    BY <1>2, <1>3, <2>1, <2>2, MovedNearGov
  <2>4. QED BY <1>6, <2>1, <2>3
<1>8. CASE \E a \in 1 .. refunded["gov"] :
             /\ bal' = Moved(refunded, "gov", to, a)
             /\ drained' = (drained \/ to # "gov")
  <2>1. PICK a \in 1 .. refunded["gov"] :
             /\ bal' = Moved(refunded, "gov", to, a)
             /\ drained' = (drained \/ to # "gov")
    BY <1>8
  <2>2. CASE to # "gov"
    BY <1>1, <1>5, <2>1, <2>2 DEF HaltInv, HaltCause, Covered
  <2>3. CASE to = "gov"
    <3>1. bal'["gov"] = refunded["gov"]
      BY <1>2, <1>3, <2>1, <2>3 DEF Moved
    <3>2. drained' = drained
      BY <1>1, <2>1, <2>3
    <3>3. QED BY <1>1, <1>3, <1>6, <3>1, <3>2
  <2>4. QED BY <2>2, <2>3
<1>9. QED BY <1>7, <1>8 DEF PassProposal, refunded

LEMMA DepositHalt ==
  ASSUME IInv, HaltInv, NEW p \in Proposals, NEW a \in Nat, Deposit(p, a)
  PROVE  HaltInv'
<1>1. /\ bal \in [Accounts -> Int] /\ bal["gov"] \in Int /\ deposits \in [Proposals -> Nat]
      /\ deposits' = [deposits EXCEPT ![p] = @ + a] /\ UNCHANGED <<stage, drained>>
  BY Named DEF IInv, Integral, HaltInv, Deposit, Tx
<1>2. bal'["gov"] = bal["gov"] + a
  <2>1. "gov" \in Accounts /\ "user" \in Accounts /\ "gov" # "user"
    BY Named
  <2>2. QED BY <1>1, <2>1, MovedEnds DEF Deposit, Tx
<1>3. ASSUME Fits(bal["gov"], deposits) PROVE Fits(bal'["gov"], deposits')
  <2>1. bal["gov"] \in Nat
    BY <1>1, <1>3 DEF Fits
  <2>2. QED BY <1>1, <1>2, <1>3, <2>1, FitsGrown
<1>4. QED BY <1>1, <1>3 DEF HaltInv, HaltCause, Covered


(* Steps of the other modules, and transactions that leave gov alone or pay*)
(* it.                                                                     *)
LEMMA AroundGov ==
  ASSUME IInv, HaltInv,
         \/ EnterStage \/ EndGov \/ EndStaking \/ \E m : InitModule(m)
         \/ \E a \in Nat : PayFee(a) \/ Delegate(a) \/ SendTransfer(a) \/ WithdrawRewards(a)
         \/ \E a \in Nat, to \in Accounts : Send(to, a) \/ RecvTransfer(to, a)
  PROVE  HaltInv'
<1>1. bal \in [Accounts -> Int] /\ bal["gov"] \in Int
  BY Named DEF IInv, Integral
<1>2. /\ {"user", "distribution", "escrow", "bonded_tokens_pool", "not_bonded_tokens_pool"}
           \subseteq Accounts \ {"gov"}
      /\ "fee_collector" \in Accounts
  BY Named DEF Kept, Pools
<1>3. CASE EnterStage \/ EndGov
  BY <1>3, GovUntouched DEF EnterStage, NextStage, EndGov, Advance
<1>4. ASSUME NEW m, InitModule(m) PROVE HaltInv'
  <2>1. bal'["gov"] = bal["gov"]
    BY <1>1, <1>4 DEF InitModule
  <2>2. QED BY <1>4, <2>1, GovUntouched DEF InitModule, Advance
<1>5. ASSUME NEW from \in Accounts \ {"gov"}, NEW to \in Accounts, NEW a \in Int,
             bal' = Moved(bal, from, to, a), to = "gov" => a >= 0,
             UNCHANGED <<stage, deposits, drained>>
      PROVE  HaltInv'
  <2>1. bal'["gov"] \in Int /\ bal'["gov"] >= bal["gov"]
    BY <1>1, <1>5, MovedNearGov
  <2>2. QED BY <1>5, <2>1, GovKept
<1>6. CASE EndStaking
  <2>1. books.bonded \in Int /\ books.unbonding \in Int
    BY DEF IInv, Integral, BookNames
  <2>2. \/ \E a \in 0 .. books.unbonding : bal' = Moved(bal, "not_bonded_tokens_pool", "user", a)
        \/ \E a \in -books.unbonding .. books.bonded :
              bal' = Moved(bal, "bonded_tokens_pool", "not_bonded_tokens_pool", a)
    BY <1>6, Zenon DEF EndStaking
  <2>3. \E to \in {"user", "not_bonded_tokens_pool"}, a \in Int, from \in Accounts \ {"gov"} :
          bal' = Moved(bal, from, to, a)
    BY <1>2, <2>1, <2>2
  <2>4. UNCHANGED <<stage, deposits, drained>>
    BY <1>6 DEF EndStaking, Advance
  <2>5. QED BY <1>2, <1>5, <2>3, <2>4
<1>7. ASSUME NEW a \in Nat, PayFee(a) \/ Delegate(a) \/ SendTransfer(a) \/ WithdrawRewards(a)
      PROVE  HaltInv'
  BY <1>2, <1>5, <1>7 DEF PayFee, Delegate, SendTransfer, WithdrawRewards, Tx
<1>8. ASSUME NEW a \in Nat, NEW to \in Accounts, Send(to, a) \/ RecvTransfer(to, a) PROVE HaltInv'
  BY <1>2, <1>5, <1>8 DEF Send, RecvTransfer, Tx
<1>9. QED BY <1>3, <1>4, <1>6, <1>7, <1>8

LEMMA NextHalt == ASSUME IInv, OrderInv, HaltInv, [Next]_vars PROVE HaltInv'
<1>1. CASE UNCHANGED vars
  BY <1>1 DEF vars, HaltInv, HaltCause, Covered
<1>2. ASSUME NEW from \in Accounts, NEW a \in Amounts(from) PROVE a \in Nat
  BY <1>2 DEF Amounts, IInv, Integral
<1>3. {"user", "distribution", "escrow"} \subseteq Accounts
  BY Named DEF Kept, Pools
<1>4. CASE EnterStage \/ EndGov \/ EndStaking \/ \E m : InitModule(m)
  BY <1>4, AroundGov
<1>5. CASE \/ \E a \in Amounts("user") : PayFee(a) \/ Delegate(a) \/ SendTransfer(a)
           \/ \E a \in Amounts("distribution") : WithdrawRewards(a)
           \/ \E to \in Accounts : \/ \E a \in Amounts("user") : Send(to, a)
                                   \/ \E a \in Amounts("escrow") : RecvTransfer(to, a)
  BY <1>2, <1>3, <1>5, AroundGov
<1>6. CASE \E p \in Proposals : \E a \in Amounts("user") : Deposit(p, a)
  BY <1>2, <1>3, <1>6, DepositHalt
<1>7. CASE \E p \in Proposals : EndProposal(p) \/ \E to \in Accounts : PassProposal(p, to)
  BY <1>7, EndProposalHalt, PassProposalHalt
<1>8. QED
  BY <1>1, <1>4, <1>5, <1>6, <1>7, DeliverGenTxsHalt, BeginHalt, Zenon DEF Next

LEMMA InitHalt == ASSUME Init PROVE HaltInv
<1>1. bal["gov"] = 0 /\ deposits = [p \in Proposals |-> 0]
  BY Named DEF Init
<1>2. deposits \in [Proposals -> Nat]
  BY <1>1
<1>3. SideBySide(0, deposits, deposits)
  BY <1>1 DEF SideBySide
<1>4. Fits(bal["gov"], deposits)
  BY <1>1, <1>2, <1>3 DEF Fits
<1>5. QED BY <1>2, <1>4, Zenon DEF Init, HaltInv, HaltCause, Covered

(* The chain halts only after a proposal has sent coins from gov's account:*)
(* every permission a module asks for is configured, genesis initialises   *)
(* auth, bank and staking before genutil, and until then the account holds *)
(* the deposits of all proposals at once, whatever others send to it.      *)
THEOREM HaltsExplained == Spec => []HaltCause
<1>1. Init => IInv /\ OrderInv /\ HaltInv
  <2>1. Init => OrderInv
    BY DEF Init, OrderInv
  <2>2. QED BY <2>1, InitIInv, InitHalt
<1>2. IInv /\ OrderInv /\ HaltInv /\ [Next]_vars => IInv' /\ OrderInv' /\ HaltInv'
  BY NextIInv, NextOrder, NextHalt, CoinsAssumption
<1>3. HaltInv => HaltCause
  BY DEF HaltInv
<1>4. QED BY <1>1, <1>2, <1>3, PTL DEF Spec

(***************************************************************************)
(* How many coins there are.                                               *)
(***************************************************************************)

Total(b) ==
  b["user"] + b["escrow"] + b["fee_collector"] + b["distribution"] + b["mint"]
    + b["bonded_tokens_pool"] + b["not_bonded_tokens_pool"] + b["gov"] + b["nft"]
    + b["transfer"] + b["interchainaccounts"]

(* Provisions so far: that of a block comes with the first step of it.     *)
Minted == IF stage = "begin" /\ step = 1 THEN height - 1 ELSE height

(* Where the stages have their steps and heights.                          *)
ClockInv ==
  /\ height \in 0 .. MaxHeight
  /\ \/ stage = "genesis" /\ step \in 1 .. 8 /\ height = 0
     \/ stage = "begin" /\ step \in 1 .. 5 /\ height > 0
     \/ stage = "txs" /\ step = 5 /\ height > 0
     \/ stage = "end" /\ step \in 1 .. 3 /\ height > 0
     \/ stage = "halted" /\ step \in 1 .. 8

(* Nobody owes, the coins are those of the genesis and the provisions, and *)
(* what IBC has sent away is in the escrow.                                *)
FundsInv ==
  /\ bal \in [Accounts -> Nat]
  /\ Total(bal) <= UserCoins + Minted
  /\ stage = "genesis" /\ step <= 2 => Total(bal) = 0
  /\ stage = "genesis" /\ step \in 3 .. 7 => bal["user"] = UserCoins
  /\ books.escrowed \in 0 .. bal["escrow"]

(* The accounts, one by one.                                               *)
LEMMA AllAccounts ==
  Accounts = {"user", "escrow", "fee_collector", "distribution", "mint", "bonded_tokens_pool",
              "not_bonded_tokens_pool", "gov", "nft", "transfer", "interchainaccounts"}
BY DEF Accounts, ModuleNames

LEMMA TotalType == ASSUME NEW b \in [Accounts -> Int] PROVE Total(b) \in Int
BY AllAccounts DEF Total

Added(b, x, a) == [b EXCEPT ![x] = @ + a]

LEMMA TotalAdded ==
  ASSUME NEW b \in [Accounts -> Int], NEW x \in Accounts, NEW a \in Int
  PROVE  /\ Added(b, x, a) \in [Accounts -> Int]
         /\ Total(Added(b, x, a)) = Total(b) + a
<1> DEFINE c == [b EXCEPT ![x] = @ + a]
<1>1. c \in [Accounts -> Int] /\ c[x] = b[x] + a /\ \A y \in Accounts \ {x} : c[y] = b[y]
  OBVIOUS
<1> HIDE DEF c
<1>2. /\ b["user"] \in Int /\ b["escrow"] \in Int /\ b["fee_collector"] \in Int
      /\ b["distribution"] \in Int /\ b["mint"] \in Int /\ b["bonded_tokens_pool"] \in Int
      /\ b["not_bonded_tokens_pool"] \in Int /\ b["gov"] \in Int /\ b["nft"] \in Int
      /\ b["transfer"] \in Int /\ b["interchainaccounts"] \in Int
  BY AllAccounts
<1>3. Total(c) = Total(b) + a
  <2>1. CASE x \in {"user", "escrow", "fee_collector"}
    BY <1>1, <1>2, <2>1, AllAccounts DEF Total
  <2>2. CASE x \in {"distribution", "mint", "bonded_tokens_pool"}
    BY <1>1, <1>2, <2>2, AllAccounts DEF Total
  <2>3. CASE x \in {"not_bonded_tokens_pool", "gov", "nft"}
    BY <1>1, <1>2, <2>3, AllAccounts DEF Total
  <2>4. CASE x \in {"transfer", "interchainaccounts"}
    BY <1>1, <1>2, <2>4, AllAccounts DEF Total
  <2>5. QED BY <2>1, <2>2, <2>3, <2>4, AllAccounts
<1>4. QED BY <1>1, <1>3 DEF Added, c

(* A move is an addition on each side.                                     *)
LEMMA TotalMoved ==
  ASSUME NEW b \in [Accounts -> Int], NEW from \in Accounts, NEW to \in Accounts, NEW a \in Int
  PROVE  Total(Moved(b, from, to, a)) = Total(b)
<1> DEFINE c == Added(b, from, -a)
           e == Added(c, to, a)
<1>1. -a \in Int
  OBVIOUS
<1>2. c \in [Accounts -> Int] /\ Total(c) = Total(b) + -a
  BY <1>1, TotalAdded
<1>3. \A x \in Accounts : c[x] = IF x = from THEN b[x] + -a ELSE b[x]
  BY DEF Added
<1> HIDE DEF c
<1>4. e \in [Accounts -> Int] /\ Total(e) = Total(c) + a
  BY <1>2, TotalAdded
<1>5. e = Moved(b, from, to, a)
  <2>1. \A x \in Accounts : e[x] = b[x] - (IF x = from THEN a ELSE 0) + (IF x = to THEN a ELSE 0)
    BY <1>2, <1>3 DEF Added
  <2>2. e = [x \in Accounts |-> e[x]]
    BY <1>4
  <2>3. QED BY <2>1, <2>2 DEF Moved
<1>6. Total(b) \in Int
  BY TotalType
<1> HIDE DEF e
<1>7. QED BY <1>2, <1>4, <1>5, <1>6

(* Nobody owes after a move of coins that are there.                       *)
LEMMA MovedNat ==
  ASSUME NEW b \in [Accounts -> Nat], NEW from \in Accounts, NEW to \in Accounts, NEW a \in Int,
         \/ a >= 0 /\ a <= b[from]
         \/ from # to /\ a <= b[from] /\ b[to] + a >= 0
  PROVE  Moved(b, from, to, a) \in [Accounts -> Nat]
<1>1. ASSUME NEW x \in Accounts
      PROVE  b[x] - (IF x = from THEN a ELSE 0) + (IF x = to THEN a ELSE 0) \in Nat
  <2>1. b[x] \in Nat /\ b[from] \in Nat /\ b[to] \in Nat
    OBVIOUS
  <2>2. QED BY <2>1
<1>2. QED BY <1>1 DEF Moved

(* Every account holds at most the total.                                  *)
LEMMA EachOfTotal ==
  ASSUME NEW b \in [Accounts -> Nat], NEW x \in Accounts
  PROVE  b[x] <= Total(b)
<1>1. /\ b["user"] \in Nat /\ b["escrow"] \in Nat /\ b["fee_collector"] \in Nat
      /\ b["distribution"] \in Nat /\ b["mint"] \in Nat /\ b["bonded_tokens_pool"] \in Nat
      /\ b["not_bonded_tokens_pool"] \in Nat /\ b["gov"] \in Nat /\ b["nft"] \in Nat
      /\ b["transfer"] \in Nat /\ b["interchainaccounts"] \in Nat
  BY AllAccounts
<1>2. QED BY <1>1, AllAccounts DEF Total

(* The clock.                                                              *)
LEMMA HaltClock == ASSUME CoinsAssumption, ClockInv, Halt PROVE ClockInv'
BY DEF CoinsAssumption, ClockInv, Halt

LEMMA StepClock ==
  ASSUME CoinsAssumption, ClockInv, Advance,
         \/ stage = "genesis" /\ step <= 7
         \/ stage = "begin" /\ step <= 4
         \/ stage = "end" /\ step <= 2
  PROVE  ClockInv'
BY DEF CoinsAssumption, ClockInv, Advance

LEMMA TurnClock ==
  ASSUME CoinsAssumption, ClockInv, Advance, NEW st, NEW list, NEW m, Turn(st, list, m),
         \/ st = "genesis" /\ list = InitGenesis
         \/ st = "begin" /\ list = BeginBlockers
         \/ st = "end" /\ list = EndBlockers
  PROVE  ClockInv'
BY StepClock DEF Turn, InitGenesis, BeginBlockers, EndBlockers

LEMMA EnterStageClock == ASSUME CoinsAssumption, ClockInv, EnterStage PROVE ClockInv'
<1>1. Len(InitGenesis) = 7 /\ Len(BeginBlockers) = 4 /\ Len(EndBlockers) = 2
  BY DEF InitGenesis, BeginBlockers, EndBlockers
<1>2. QED BY <1>1 DEF CoinsAssumption, ClockInv, EnterStage, NextStage

LEMMA NextClock == ASSUME CoinsAssumption, ClockInv, [Next]_vars PROVE ClockInv'
<1>1. CASE UNCHANGED <<stage, step, height>>
  BY <1>1 DEF ClockInv, CoinsAssumption
<1>2. CASE DeliverGenTxs \/ MintBegin \/ \E m : Slash(m)
  BY <1>2, HaltClock, TurnClock, Zenon DEF DeliverGenTxs, MintBegin, Slash
<1>3. CASE AllocateTokens \/ EndGov \/ EndStaking \/ \E m : InitModule(m)
  BY <1>3, TurnClock, Zenon DEF AllocateTokens, EndGov, EndStaking, InitModule
<1>4. CASE \E p \in Proposals : EndProposal(p) \/ \E to \in Accounts : PassProposal(p, to)
  BY <1>1, <1>4, HaltClock DEF EndProposal, PassProposal
<1>5. CASE \/ \E p \in Proposals, a \in Amounts("user") : Deposit(p, a)
           \/ \E a \in Amounts("user") : PayFee(a) \/ Delegate(a) \/ SendTransfer(a)
           \/ \E a \in Amounts("distribution") : WithdrawRewards(a)
           \/ \E to \in Accounts, a \in Amounts("user") : Send(to, a)
           \/ \E to \in Accounts, a \in Amounts("escrow") : RecvTransfer(to, a)
  BY <1>1, <1>5, Zenon
  DEF Deposit, PayFee, Delegate, SendTransfer, WithdrawRewards, Send, RecvTransfer, Tx
<1>6. QED
  BY <1>1, <1>2, <1>3, <1>4, <1>5, EnterStageClock, Zenon DEF Next, vars

(* After genesis, a step that adds no more than the provision.             *)
LEMMA FundsKept ==
  ASSUME FundsInv, stage' # "genesis", bal' \in [Accounts -> Nat],
         Total(bal') - Total(bal) <= Minted' - Minted, Minted \in Int, Minted' \in Int,
         books'.escrowed \in 0 .. bal'["escrow"]
  PROVE  FundsInv'
<1>1. Total(bal) \in Int /\ Total(bal') \in Int
  BY TotalType DEF FundsInv
<1>2. Total(bal') <= UserCoins + Minted'
  BY <1>1, CoinsAssumption DEF FundsInv, CoinsAssumption
<1>3. QED BY <1>2 DEF FundsInv, Total, Minted

LEMMA MintedType == ASSUME CoinsAssumption, ClockInv PROVE Minted \in Int
BY DEF CoinsAssumption, ClockInv, Minted

(* When the block goes on, or the chain halts, the provision stays due or  *)
(* paid.                                                                   *)
LEMMA MintedLater ==
  ASSUME CoinsAssumption, ClockInv, height' = height,
         \/ Advance /\ step # 1
         \/ Advance /\ stage # "begin"
         \/ UNCHANGED <<stage, step>>
  PROVE  Minted \in Int /\ Minted' = Minted
BY DEF CoinsAssumption, ClockInv, Minted, Advance

(* What IBC has sent away stays in the escrow when nothing leaves it.      *)
LEMMA EscrowKept ==
  ASSUME FundsInv, bal' \in [Accounts -> Nat], bal'["escrow"] >= bal["escrow"],
         books'.escrowed = books.escrowed
  PROVE  books'.escrowed \in 0 .. bal'["escrow"]
BY AllAccounts DEF FundsInv

(* The books as balances.                                                  *)
LEMMA BooksNat ==
  ASSUME IInv, FundsInv
  PROVE  /\ books.bonded \in Nat /\ books.bonded = bal["bonded_tokens_pool"]
         /\ books.unbonding \in Nat /\ books.unbonding = bal["not_bonded_tokens_pool"]
         /\ books.rewards \in Nat /\ books.rewards = bal["distribution"]
         /\ books.escrowed \in Nat /\ bal["escrow"] \in Nat
BY AllAccounts DEF IInv, BooksBalanced, FundsInv

(* One move, after genesis.                                                *)
LEMMA MoveFunds ==
  ASSUME CoinsAssumption, IInv, ClockInv, FundsInv, stage' # "genesis", Minted' = Minted,
         NEW from \in Accounts, NEW to \in Accounts, NEW a \in Int,
         \/ a >= 0 /\ a <= bal[from]
         \/ from # to /\ a <= bal[from] /\ bal[to] + a >= 0,
         bal' = Moved(bal, from, to, a),
         books'.escrowed = books.escrowed, from # "escrow", to # "escrow" \/ a >= 0
  PROVE  FundsInv'
<1>1. bal \in [Accounts -> Nat] /\ bal \in [Accounts -> Int] /\ "escrow" \in Accounts
  BY AllAccounts DEF FundsInv
<1>2. bal' \in [Accounts -> Nat]
  BY <1>1, MovedNat
<1>3. Total(bal') = Total(bal)
  BY <1>1, TotalMoved
<1>4. bal'["escrow"] >= bal["escrow"]
  BY <1>1 DEF Moved
<1>5. books'.escrowed \in 0 .. bal'["escrow"]
  BY <1>2, <1>4, EscrowKept
<1>6. Minted \in Int /\ Total(bal) \in Int
  BY <1>1, MintedType, TotalType
<1>7. QED BY <1>2, <1>3, <1>5, <1>6, FundsKept

(* A booking elsewhere leaves the book of the escrow alone.                *)
LEMMA OtherBook ==
  ASSUME IInv, NEW book \in BookNames \ {"escrowed"}, NEW a \in Int
  PROVE  Booked(book, a).escrowed = books.escrowed
<1>1. books \in [BookNames -> Int] /\ "escrowed" \in BookNames \ {book}
  BY DEF IInv, Integral, BookNames
<1>2. QED BY <1>1, BookedBooks

(* Genesis: the coins arrive with the bank.                                *)
LEMMA GenesisTurns ==
  ASSUME ClockInv, NEW m, Turn("genesis", InitGenesis, m)
  PROVE  /\ stage = "genesis" /\ step \in 1 .. 7
         /\ m = "bank" <=> step = 2
         /\ m = "genutil" <=> step = 7
BY DEF ClockInv, Turn, InitGenesis

LEMMA InitModuleFunds ==
  ASSUME CoinsAssumption, ClockInv, FundsInv, NEW m, InitModule(m)
  PROVE  FundsInv'
<1>1. /\ stage = "genesis" /\ stage' = "genesis" /\ step \in 1 .. 6 /\ step' = step + 1
      /\ height' = height /\ books' = books
      /\ m = "bank" <=> step = 2
  BY GenesisTurns DEF InitModule, Advance, ClockInv
<1>2. Minted = 0 /\ Minted' = 0
  BY <1>1 DEF ClockInv, Minted
<1>3. bal \in [Accounts -> Nat] /\ UserCoins \in Nat
  BY DEF FundsInv, CoinsAssumption
<1>4. CASE step # 2
  BY <1>1, <1>2, <1>4 DEF FundsInv, InitModule
<1>5. CASE step = 2
  <2>1. bal' = [bal EXCEPT !["user"] = UserCoins] /\ Total(bal) = 0
    BY <1>1, <1>5 DEF InitModule, FundsInv
  <2>2. \A x \in Accounts : bal[x] = 0
    BY <1>3, <2>1, EachOfTotal
  <2>3. /\ bal' \in [Accounts -> Nat] /\ bal'["user"] = UserCoins
        /\ \A x \in Accounts \ {"user"} : bal'[x] = 0
    BY <1>3, <2>1, <2>2, AllAccounts
  <2>4. Total(bal') = UserCoins
    BY <1>3, <2>3, AllAccounts DEF Total
  <2>5. books'.escrowed \in 0 .. bal'["escrow"]
    BY <1>1, <2>2, <2>3, AllAccounts DEF FundsInv
  <2>6. QED BY <1>1, <1>2, <1>3, <1>5, <2>3, <2>4, <2>5 DEF FundsInv
<1>6. QED BY <1>4, <1>5

LEMMA DeliverGenTxsFunds ==
  ASSUME CoinsAssumption, IInv, ClockInv, FundsInv, DeliverGenTxs
  PROVE  FundsInv'
<1>1. stage = "genesis" /\ step = 7 /\ height = 0
  BY GenesisTurns DEF DeliverGenTxs, ClockInv
<1>2. CASE Halt
  BY <1>1, <1>2 DEF Halt, FundsInv, Minted, Total
<1>3. CASE /\ bal' = Moved(bal, "user", "bonded_tokens_pool", 1)
           /\ books' = Booked("bonded", 1) /\ Advance
  <2>1. /\ bal \in [Accounts -> Nat] /\ bal \in [Accounts -> Int] /\ bal["user"] = UserCoins
        /\ UserCoins >= 1 /\ {"user", "bonded_tokens_pool", "escrow"} \subseteq Accounts
    BY <1>1, AllAccounts DEF FundsInv, CoinsAssumption
  <2>2. bal' \in [Accounts -> Nat]
    BY <1>3, <2>1, MovedNat
  <2>3. Total(bal') = Total(bal)
    BY <1>3, <2>1, TotalMoved
  <2>4. bal'["escrow"] = bal["escrow"]
    BY <1>3, <2>1, MovedOthers
  <2>5. books'.escrowed = books.escrowed
    BY <1>3, OtherBook DEF BookNames
  <2>6. stage' = "genesis" /\ step' = 8 /\ Minted = 0 /\ Minted' = 0
    BY <1>1, <1>3 DEF Advance, Minted
  <2>7. QED BY <2>2, <2>3, <2>4, <2>5, <2>6 DEF FundsInv
<1>4. QED BY <1>2, <1>3 DEF DeliverGenTxs

(* Stages.                                                                 *)
LEMMA EnterStageFunds ==
  ASSUME CoinsAssumption, ClockInv, FundsInv, EnterStage
  PROVE  FundsInv'
<1>1. stage' # "genesis" /\ bal' = bal /\ books' = books
  BY DEF EnterStage, NextStage
<1>2. Minted \in Int /\ Minted' \in Int /\ Minted <= Minted'
  <2>1. Len(InitGenesis) = 7 /\ Len(BeginBlockers) = 4 /\ Len(EndBlockers) = 2
    BY DEF InitGenesis, BeginBlockers, EndBlockers
  <2>2. QED BY <2>1 DEF EnterStage, NextStage, ClockInv, CoinsAssumption, Minted
<1>3. Total(bal') - Total(bal) = 0
  BY <1>1, TotalType DEF FundsInv
<1>4. QED BY <1>1, <1>2, <1>3, FundsKept DEF FundsInv

(* Steps that leave the coins alone.                                       *)
LEMMA SameFunds ==
  ASSUME CoinsAssumption, ClockInv, FundsInv, UNCHANGED <<bal, books>>,
         Halt \/ (Advance /\ stage \notin {"genesis", "begin"}) \/ UNCHANGED <<stage, step, height>>
  PROVE  FundsInv'
<1>1. Total(bal') = Total(bal) /\ Total(bal) \in Int /\ UserCoins \in Nat
  BY TotalType DEF FundsInv, CoinsAssumption
<1>2. Minted \in Int /\ Minted' \in Int /\ Minted <= Minted'
  BY DEF CoinsAssumption, ClockInv, Halt, Advance, Minted
<1>3. CASE Halt \/ (Advance /\ stage \notin {"genesis", "begin"})
  BY <1>1, <1>2, <1>3 DEF FundsInv, Halt, Advance
<1>4. CASE UNCHANGED <<stage, step, height>>
  BY <1>1, <1>4 DEF FundsInv, Minted
<1>5. QED BY <1>3, <1>4

(* The provision of a block.                                               *)
LEMMA MintBeginFunds ==
  ASSUME CoinsAssumption, OrderInv, ClockInv, FundsInv, MintBegin
  PROVE  FundsInv'
<1>1. stage = "begin" /\ step = 1
  BY TurnsOfBegin DEF MintBegin, Turn
<1>2. bal' = [bal EXCEPT !["fee_collector"] = @ + 1] /\ Advance /\ books' = books
  BY Permitted DEF MintBegin
<1>3. bal \in [Accounts -> Nat] /\ bal \in [Accounts -> Int]
      /\ {"fee_collector", "escrow"} \subseteq Accounts
  BY AllAccounts DEF FundsInv
<1>4. bal' \in [Accounts -> Nat] /\ bal'["escrow"] = bal["escrow"]
  BY <1>2, <1>3
<1>5. Total(bal') = Total(bal) + 1
  <2>1. bal' = Added(bal, "fee_collector", 1)
    BY <1>2 DEF Added
  <2>2. QED BY <1>3, <2>1, TotalAdded
<1>6. Minted = height - 1 /\ Minted' = height /\ height \in Int /\ stage' # "genesis"
  BY <1>1, <1>2 DEF Minted, Advance, ClockInv, CoinsAssumption
<1>7. Total(bal) \in Int
  BY <1>3, TotalType
<1>8. books'.escrowed \in 0 .. bal'["escrow"]
  BY <1>2, <1>4 DEF FundsInv
<1>9. QED BY <1>4, <1>5, <1>6, <1>7, <1>8, FundsKept

LEMMA AllocateTokensFunds ==
  ASSUME CoinsAssumption, IInv, OrderInv, ClockInv, FundsInv, AllocateTokens
  PROVE  FundsInv'
<1> DEFINE fees == IF height > 1 THEN bal["fee_collector"] ELSE 0
<1>1. stage = "begin" /\ step = 2
  BY TurnsOfBegin DEF AllocateTokens, Turn
<1>2. /\ bal' = Moved(bal, "fee_collector", "distribution", fees)
      /\ books' = Booked("rewards", fees) /\ Advance
  BY DEF AllocateTokens
<1>3. {"fee_collector", "distribution"} \subseteq Accounts
  BY AllAccounts
<1>4. fees \in Int /\ fees >= 0 /\ fees <= bal["fee_collector"]
  BY <1>3 DEF FundsInv
<1> HIDE DEF fees
<1>5. books'.escrowed = books.escrowed
  BY <1>2, <1>4, OtherBook DEF BookNames
<1>6. Minted' = Minted /\ stage' # "genesis"
  BY <1>1, <1>2, MintedLater DEF Advance
<1>7. QED BY <1>2, <1>3, <1>4, <1>5, <1>6, MoveFunds

(* Coins that are burnt.                                                   *)
LEMMA BurnFunds ==
  ASSUME CoinsAssumption, ClockInv, FundsInv, stage' # "genesis", Minted' = Minted,
         bal' \in [Accounts -> Nat], Total(bal') <= Total(bal),
         bal'["escrow"] = bal["escrow"], books'.escrowed = books.escrowed
  PROVE  FundsInv'
<1>1. Minted \in Int /\ Total(bal) \in Int /\ Total(bal') \in Int
  BY MintedType, TotalType DEF FundsInv
<1>2. books'.escrowed \in 0 .. bal'["escrow"]
  BY DEF FundsInv
<1>3. QED BY <1>1, <1>2, FundsKept

LEMMA SlashFunds ==
  ASSUME CoinsAssumption, IInv, OrderInv, ClockInv, FundsInv, NEW m, Slash(m)
  PROVE  FundsInv'
<1>1. stage = "begin" /\ step # 1
  BY TurnsOfBegin DEF Slash, Turn
<1>2. PICK a \in 0 .. books.bonded, b \in 0 .. books.unbonding :
        /\ bal' = [bal EXCEPT !["bonded_tokens_pool"] = @ - a,
                              !["not_bonded_tokens_pool"] = @ - b]
        /\ books' = [books EXCEPT !.bonded = @ - a, !.unbonding = @ - b]
        /\ Advance
  BY Permitted, Zenon DEF Slash
<1>3. /\ bal \in [Accounts -> Nat] /\ bal \in [Accounts -> Int]
      /\ {"bonded_tokens_pool", "not_bonded_tokens_pool", "escrow"} \subseteq Accounts
  BY AllAccounts DEF FundsInv
<1>4. /\ a \in Int /\ a >= 0 /\ a <= bal["bonded_tokens_pool"] /\ -a \in Int
      /\ b \in Int /\ b >= 0 /\ b <= bal["not_bonded_tokens_pool"] /\ -b \in Int
  BY BooksNat
<1> DEFINE c == Added(bal, "bonded_tokens_pool", -a)
<1>5. c \in [Accounts -> Int] /\ Total(c) = Total(bal) + -a
  BY <1>3, <1>4, TotalAdded
<1>6. Total(Added(c, "not_bonded_tokens_pool", -b)) = Total(c) + -b
  BY <1>3, <1>4, <1>5, TotalAdded
<1>7. bal' = Added(c, "not_bonded_tokens_pool", -b)
  BY <1>2, <1>3, <1>4 DEF Added
<1>8. Total(bal) \in Int
  BY <1>3, TotalType
<1> HIDE DEF c
<1>9. Total(bal') <= Total(bal)
  BY <1>4, <1>5, <1>6, <1>7, <1>8
<1>10. bal' \in [Accounts -> Nat] /\ bal'["escrow"] = bal["escrow"]
  BY <1>2, <1>3, <1>4
<1>11. books'.escrowed = books.escrowed
  BY <1>2 DEF IInv, Integral, BookNames
<1>12. Minted' = Minted /\ stage' # "genesis"
  BY <1>1, <1>2, MintedLater DEF Advance
<1>13. QED BY <1>9, <1>10, <1>11, <1>12, BurnFunds

(* End block.                                                              *)
LEMMA EndProposalFunds ==
  ASSUME CoinsAssumption, IInv, ClockInv, FundsInv, NEW p \in Proposals, deposits[p] \in Nat,
         EndProposal(p)
  PROVE  FundsInv'
<1>1. stage = "end" /\ deposits[p] > 0 /\ bal \in [Accounts -> Nat] /\ bal \in [Accounts -> Int]
  BY DEF EndProposal, Turn, FundsInv
<1>2. {"gov", "user", "escrow"} \subseteq Accounts
  BY AllAccounts
<1>3. CASE Halt
  BY <1>3, SameFunds DEF Halt
<1>4. CASE /\ ~(bal["gov"] < deposits[p]) /\ UNCHANGED <<stage, step, height, books>>
           /\ bal' = [bal EXCEPT !["gov"] = @ - deposits[p]]
  <2>1. bal' \in [Accounts -> Nat] /\ bal'["escrow"] = bal["escrow"]
    BY <1>1, <1>2, <1>4
  <2>2. bal' = Added(bal, "gov", -deposits[p]) /\ -deposits[p] \in Int
    <3>1. /\ bal["gov"] - deposits[p] = bal["gov"] + -deposits[p] /\ -deposits[p] \in Int
          /\ bal' = [bal EXCEPT !["gov"] = bal["gov"] - deposits[p]]
      BY <1>1, <1>2, <1>4
    <3>2. QED BY <3>1, Zenon DEF Added
  <2>3. Total(bal') = Total(bal) + -deposits[p] /\ Total(bal) \in Int
    BY <1>1, <1>2, <2>2, TotalAdded, TotalType
  <2>4. Minted' = Minted /\ stage' # "genesis" /\ books'.escrowed = books.escrowed
    BY <1>1, <1>4 DEF Minted
  <2>5. QED BY <2>1, <2>3, <2>4, BurnFunds
<1>5. CASE /\ ~(bal["gov"] < deposits[p]) /\ UNCHANGED <<stage, step, height, books>>
           /\ bal' = Moved(bal, "gov", "user", deposits[p])
  <2>1. Minted' = Minted /\ stage' # "genesis" /\ books'.escrowed = books.escrowed
    BY <1>1, <1>5 DEF Minted
  <2>2. deposits[p] \in Int /\ deposits[p] >= 0 /\ deposits[p] <= bal["gov"]
    BY <1>1, <1>2, <1>5
  <2>3. QED BY <1>2, <1>5, <2>1, <2>2, MoveFunds
<1>6. QED BY <1>3, <1>4, <1>5 DEF EndProposal

(* Two moves in a row, neither out of the escrow.                          *)
LEMMA TwoMoves ==
  ASSUME CoinsAssumption, IInv, ClockInv, FundsInv, stage' # "genesis", Minted' = Minted,
         NEW c \in [Accounts -> Nat], Total(c) = Total(bal), c["escrow"] = bal["escrow"],
         NEW from \in Accounts \ {"escrow"}, NEW to \in Accounts, NEW a \in Nat, a <= c[from],
         bal' = Moved(c, from, to, a), books'.escrowed = books.escrowed
  PROVE  FundsInv'
<1>1. c \in [Accounts -> Int] /\ "escrow" \in Accounts /\ Total(bal) \in Int /\ Minted \in Int
  BY AllAccounts, TotalType, MintedType DEF FundsInv
<1>2. bal' \in [Accounts -> Nat]
  BY <1>1, MovedNat
<1>3. Total(bal') = Total(bal)
  BY <1>1, TotalMoved
<1>4. bal'["escrow"] >= bal["escrow"]
  BY <1>1 DEF Moved
<1>5. books'.escrowed \in 0 .. bal'["escrow"]
  BY <1>2, <1>4, EscrowKept
<1>6. QED BY <1>1, <1>2, <1>3, <1>5, FundsKept

LEMMA PassProposalFunds ==
  ASSUME CoinsAssumption, IInv, ClockInv, FundsInv, NEW p \in Proposals, NEW to \in Accounts,
         PassProposal(p, to)
  PROVE  FundsInv'
<1> DEFINE refunded == Moved(bal, "gov", "user", deposits[p])
<1>1. /\ {"gov", "user", "escrow", "distribution"} \subseteq Accounts
      /\ bal \in [Accounts -> Nat] /\ bal \in [Accounts -> Int] /\ bal["gov"] \in Nat
  BY AllAccounts DEF FundsInv
<1>2. deposits[p] \in Int /\ deposits[p] >= 0 /\ deposits[p] <= bal["gov"]
  BY <1>1 DEF PassProposal, Amounts
<1>3. refunded \in [Accounts -> Nat]
  BY <1>1, <1>2, MovedNat
<1>4. Total(refunded) = Total(bal)
  BY <1>1, <1>2, TotalMoved
<1>5. refunded["escrow"] = bal["escrow"] /\ refunded["distribution"] = bal["distribution"]
  BY <1>1, <1>2, MovedOthers
<1>6. Minted' = Minted /\ stage' # "genesis"
  BY DEF PassProposal, Turn, Minted
<1> HIDE DEF refunded
<1>7. CASE \E a \in 1 .. books.rewards : /\ bal' = Moved(refunded, "distribution", to, a)
                                         /\ books' = Booked("rewards", -a)
  <2>1. PICK a \in 1 .. books.rewards : /\ bal' = Moved(refunded, "distribution", to, a)
                                        /\ books' = Booked("rewards", -a)
    BY <1>7
  <2>2. a \in Nat /\ a <= refunded["distribution"] /\ -a \in Int
    BY <1>5, BooksNat
  <2>3. books'.escrowed = books.escrowed
    BY <2>1, <2>2, OtherBook DEF BookNames
  <2>4. QED BY <1>1, <1>3, <1>4, <1>5, <1>6, <2>1, <2>2, <2>3, TwoMoves
<1>8. CASE \E a \in 1 .. refunded["gov"] : bal' = Moved(refunded, "gov", to, a) /\ books' = books
  <2>1. PICK a \in 1 .. refunded["gov"] : bal' = Moved(refunded, "gov", to, a) /\ books' = books
    BY <1>8
  <2>2. a \in Nat /\ a <= refunded["gov"]
    BY <1>1, <1>3
  <2>3. QED BY <1>1, <1>3, <1>4, <1>5, <1>6, <2>1, <2>2, TwoMoves
<1>9. QED BY <1>7, <1>8 DEF PassProposal, refunded

LEMMA EndStakingFunds ==
  ASSUME CoinsAssumption, IInv, ClockInv, FundsInv, EndStaking
  PROVE  FundsInv'
<1>1. Minted' = Minted /\ stage' # "genesis"
  BY MintedLater DEF EndStaking, Turn, Advance
<1>2. /\ {"user", "bonded_tokens_pool", "not_bonded_tokens_pool", "escrow"} \subseteq Accounts
      /\ bal["user"] \in Nat
  BY AllAccounts DEF FundsInv
<1>3. \/ \E a \in 0 .. books.unbonding :
            /\ bal' = Moved(bal, "not_bonded_tokens_pool", "user", a)
            /\ books' = Booked("unbonding", -a)
      \/ \E a \in -books.unbonding .. books.bonded :
            /\ bal' = Moved(bal, "bonded_tokens_pool", "not_bonded_tokens_pool", a)
            /\ books' = [books EXCEPT !.bonded = @ - a, !.unbonding = @ + a]
  BY Zenon DEF EndStaking
<1>4. CASE \E a \in 0 .. books.unbonding :
             /\ bal' = Moved(bal, "not_bonded_tokens_pool", "user", a)
             /\ books' = Booked("unbonding", -a)
  <2>1. PICK a \in 0 .. books.unbonding :
             /\ bal' = Moved(bal, "not_bonded_tokens_pool", "user", a)
             /\ books' = Booked("unbonding", -a)
    BY <1>4
  <2>2. a \in Int /\ a >= 0 /\ a <= bal["not_bonded_tokens_pool"] /\ -a \in Int
    BY BooksNat
  <2>3. books'.escrowed = books.escrowed
    BY <2>1, <2>2, OtherBook DEF BookNames
  <2>4. QED BY <1>1, <1>2, <2>1, <2>2, <2>3, MoveFunds
<1>5. CASE \E a \in -books.unbonding .. books.bonded :
             /\ bal' = Moved(bal, "bonded_tokens_pool", "not_bonded_tokens_pool", a)
             /\ books' = [books EXCEPT !.bonded = @ - a, !.unbonding = @ + a]
  <2>1. PICK a \in -books.unbonding .. books.bonded :
             /\ bal' = Moved(bal, "bonded_tokens_pool", "not_bonded_tokens_pool", a)
             /\ books' = [books EXCEPT !.bonded = @ - a, !.unbonding = @ + a]
    BY <1>5
  <2>2. a \in Int /\ a <= bal["bonded_tokens_pool"] /\ bal["not_bonded_tokens_pool"] + a >= 0
    BY BooksNat
  <2>3. books'.escrowed = books.escrowed
    BY <2>1 DEF IInv, Integral, BookNames
  <2>4. "bonded_tokens_pool" # "not_bonded_tokens_pool" /\ "bonded_tokens_pool" # "escrow"
        /\ "not_bonded_tokens_pool" # "escrow"
    OBVIOUS
  <2>5. QED BY <1>1, <1>2, <2>1, <2>2, <2>3, <2>4, MoveFunds
<1>6. QED BY <1>3, <1>4, <1>5

(* Transactions.                                                           *)
LEMMA TxMinted ==
  ASSUME NEW from, NEW to, NEW a, Tx(from, to, a)
  PROVE  Minted' = Minted /\ stage' # "genesis"
BY DEF Tx, Minted

LEMMA SendTransferFunds ==
  ASSUME CoinsAssumption, IInv, ClockInv, FundsInv, NEW a \in Amounts("user"), SendTransfer(a)
  PROVE  FundsInv'
<1>1. /\ {"user", "escrow"} \subseteq Accounts /\ "user" # "escrow"
      /\ bal \in [Accounts -> Nat] /\ bal \in [Accounts -> Int] /\ bal["user"] \in Nat
  BY AllAccounts DEF FundsInv
<1>2. a \in Int /\ a >= 0 /\ a <= bal["user"]
  BY <1>1 DEF Amounts
<1>3. bal' = Moved(bal, "user", "escrow", a) /\ books' = Booked("escrowed", a)
  BY DEF SendTransfer, Tx
<1>4. bal' \in [Accounts -> Nat]
  BY <1>1, <1>2, <1>3, MovedNat
<1>5. Total(bal') = Total(bal)
  BY <1>1, <1>2, <1>3, TotalMoved
<1>6. bal'["escrow"] = bal["escrow"] + a
  BY <1>1, <1>2, <1>3, MovedEnds
<1>7. books'.escrowed = books.escrowed + a
  BY <1>2, <1>3, BookedBooks DEF IInv, Integral, BookNames
<1>8. books'.escrowed \in 0 .. bal'["escrow"]
  BY <1>2, <1>6, <1>7, BooksNat DEF FundsInv
<1>9. Minted' = Minted /\ stage' # "genesis"
  BY TxMinted DEF SendTransfer
<1>10. Minted \in Int /\ Total(bal) \in Int
  BY <1>1, TotalType, MintedType
<1>11. QED BY <1>4, <1>5, <1>8, <1>9, <1>10, FundsKept

LEMMA RecvTransferFunds ==
  ASSUME CoinsAssumption, IInv, ClockInv, FundsInv, NEW to \in Accounts, NEW a \in Amounts("escrow"),
         RecvTransfer(to, a)
  PROVE  FundsInv'
<1>1. /\ "escrow" \in Accounts
      /\ bal \in [Accounts -> Nat] /\ bal \in [Accounts -> Int] /\ bal["escrow"] \in Nat
  BY AllAccounts DEF FundsInv
<1>2. a \in Int /\ a >= 0 /\ a <= bal["escrow"] /\ -a \in Int
  BY <1>1 DEF Amounts
<1>3. bal' = Moved(bal, "escrow", to, a) /\ books' = Booked("escrowed", -a) /\ a <= books.escrowed
  BY DEF RecvTransfer, Tx
<1>4. bal' \in [Accounts -> Nat]
  BY <1>1, <1>2, <1>3, MovedNat
<1>5. Total(bal') = Total(bal)
  BY <1>1, <1>2, <1>3, TotalMoved
<1>6. bal'["escrow"] >= bal["escrow"] - a
  BY <1>1, <1>2, <1>3 DEF Moved
<1>7. books'.escrowed = books.escrowed + -a
  BY <1>2, <1>3, BookedBooks DEF IInv, Integral, BookNames
<1>8. bal'["escrow"] \in Nat
  BY <1>1, <1>4
<1>9. books'.escrowed \in 0 .. bal'["escrow"]
  BY <1>1, <1>2, <1>3, <1>6, <1>7, <1>8, BooksNat DEF FundsInv
<1>10. Minted' = Minted /\ stage' # "genesis"
  BY TxMinted DEF RecvTransfer
<1>11. Minted \in Int /\ Total(bal) \in Int
  BY <1>1, TotalType, MintedType
<1>12. QED BY <1>4, <1>5, <1>9, <1>10, <1>11, FundsKept

LEMMA OtherTxFunds ==
  ASSUME CoinsAssumption, IInv, ClockInv, FundsInv,
         \/ \E a \in Amounts("user") : PayFee(a) \/ Delegate(a)
         \/ \E a \in Amounts("user"), p \in Proposals : Deposit(p, a)
         \/ \E a \in Amounts("user"), to \in Accounts : Send(to, a)
         \/ \E a \in Amounts("distribution") : WithdrawRewards(a)
  PROVE  FundsInv'
<1>1. /\ {"user", "distribution", "fee_collector", "gov", "bonded_tokens_pool"} \subseteq Accounts
      /\ "user" # "escrow" /\ "distribution" # "escrow"
      /\ bal["user"] \in Nat /\ bal["distribution"] \in Nat
  BY AllAccounts DEF FundsInv
<1>2. ASSUME NEW from \in {"user", "distribution"}, NEW to \in Accounts, NEW a \in Amounts(from),
             Tx(from, to, a), books'.escrowed = books.escrowed
      PROVE  FundsInv'
  <2>1. a \in Int /\ a >= 0 /\ a <= bal[from] /\ from \in Accounts /\ from # "escrow"
    BY <1>1, <1>2 DEF Amounts
  <2>2. Minted' = Minted /\ stage' # "genesis"
    BY <1>2, TxMinted
  <2>3. bal' = Moved(bal, from, to, a)
    BY <1>2 DEF Tx
  <2>4. QED BY <1>2, <2>1, <2>2, <2>3, MoveFunds
<1>3. ASSUME NEW from \in {"user", "distribution"}, NEW a \in Amounts(from)
      PROVE  /\ a \in Int /\ -a \in Int
             /\ Booked("bonded", a).escrowed = books.escrowed
             /\ Booked("rewards", -a).escrowed = books.escrowed
  <2>1. a \in Int /\ -a \in Int
    BY <1>1, <1>3 DEF Amounts
  <2>2. QED BY <2>1, OtherBook DEF BookNames
<1>4. ASSUME NEW a \in Amounts("user"), PayFee(a) \/ Delegate(a) PROVE FundsInv'
  BY <1>1, <1>2, <1>3, <1>4 DEF PayFee, Delegate
<1>5. ASSUME NEW a \in Amounts("user"), NEW p \in Proposals, Deposit(p, a) PROVE FundsInv'
  BY <1>1, <1>2, <1>5 DEF Deposit
<1>6. ASSUME NEW a \in Amounts("user"), NEW to \in Accounts, Send(to, a) PROVE FundsInv'
  BY <1>1, <1>2, <1>6 DEF Send
<1>7. ASSUME NEW a \in Amounts("distribution"), WithdrawRewards(a) PROVE FundsInv'
  BY <1>1, <1>2, <1>3, <1>7 DEF WithdrawRewards
<1>8. QED BY <1>4, <1>5, <1>6, <1>7

LEMMA NextFunds ==
  ASSUME CoinsAssumption, IInv, OrderInv, HaltInv, ClockInv, FundsInv, [Next]_vars
  PROVE  FundsInv'
<1>1. CASE UNCHANGED vars
  BY <1>1, SameFunds DEF vars
<1>2. CASE EndGov
  BY <1>2, SameFunds DEF EndGov, Turn
<1>3. CASE \E p \in Proposals : EndProposal(p) \/ \E to \in Accounts : PassProposal(p, to)
  BY <1>3, EndProposalFunds, PassProposalFunds DEF HaltInv
<1>4. CASE \/ \E a \in Amounts("user") : PayFee(a) \/ Delegate(a)
           \/ \E p \in Proposals : \E a \in Amounts("user") : Deposit(p, a)
           \/ \E to \in Accounts : \E a \in Amounts("user") : Send(to, a)
           \/ \E a \in Amounts("distribution") : WithdrawRewards(a)
  BY <1>4, OtherTxFunds
<1>5. CASE \/ \E a \in Amounts("user") : SendTransfer(a)
           \/ \E to \in Accounts : \E a \in Amounts("escrow") : RecvTransfer(to, a)
  BY <1>5, SendTransferFunds, RecvTransferFunds
<1>6. CASE \E m : InitModule(m) \/ Slash(m)
  BY <1>6, InitModuleFunds, SlashFunds
<1>7. QED
  BY <1>1, <1>2, <1>3, <1>4, <1>5, <1>6, DeliverGenTxsFunds, EnterStageFunds, MintBeginFunds,
     AllocateTokensFunds, EndStakingFunds, Zenon DEF Next

(* Every variable keeps its type; in particular no account holds more than *)
(* the coins of the genesis and one provision per block, whatever is sent, *)
(* slashed, burnt, refunded or comes back over IBC.                        *)
THEOREM CoinsBounded == Spec => []TypeOK
<1>1. Init => IInv /\ OrderInv /\ HaltInv /\ ClockInv /\ FundsInv
  <2>1. Init => OrderInv
    BY DEF Init, OrderInv
  <2>2. Init => HaltInv
    BY InitHalt
  <2>3. Init => ClockInv
    BY CoinsAssumption DEF Init, ClockInv, CoinsAssumption
  <2>4. ASSUME Init PROVE FundsInv
    <3>1. bal = [x \in Accounts |-> 0] /\ books.escrowed = 0 /\ stage = "genesis" /\ height = 0
      BY <2>4 DEF Init
    <3>2. Total(bal) = 0 /\ bal \in [Accounts -> Nat] /\ bal["escrow"] = 0
      BY <3>1, AllAccounts DEF Total
    <3>3. QED BY <2>4, <3>1, <3>2, CoinsAssumption DEF FundsInv, Minted, Init, CoinsAssumption
  <2>5. QED BY <2>1, <2>2, <2>3, <2>4, InitIInv
<1>2. IInv /\ OrderInv /\ HaltInv /\ ClockInv /\ FundsInv /\ [Next]_vars
        => IInv' /\ OrderInv' /\ HaltInv' /\ ClockInv' /\ FundsInv'
  BY NextIInv, NextOrder, NextHalt, NextClock, NextFunds, CoinsAssumption
<1>3. ASSUME IInv, HaltInv, ClockInv, FundsInv PROVE TypeOK
  <2>1. /\ stage \in {"genesis", "begin", "txs", "end", "halted"}
        /\ step \in 1 .. 8 /\ height \in 0 .. MaxHeight
    BY <1>3 DEF ClockInv
  <2>2. UserCoins \in Nat /\ MaxHeight \in Nat /\ height \in Nat /\ height <= MaxHeight
    BY <2>1, CoinsAssumption DEF CoinsAssumption
  <2>3. ASSUME NEW x \in Accounts PROVE bal[x] \in 0 .. UserCoins + height
    <3>1. bal[x] \in Nat /\ bal[x] <= Total(bal) /\ Total(bal) \in Int
      BY <1>3, EachOfTotal, TotalType DEF FundsInv
    <3>2. Total(bal) <= UserCoins + Minted /\ Minted \in Int /\ Minted <= height
      BY <1>3, <2>2, MintedType, CoinsAssumption DEF FundsInv, Minted
    <3>3. QED BY <2>2, <3>1, <3>2
  <2>4. bal \in [Accounts -> 0 .. UserCoins + height]
    BY <1>3, <2>3 DEF FundsInv
  <2>5. \A k \in BookNames : books[k] \in Coins
    <3>1. \A x \in {"bonded_tokens_pool", "not_bonded_tokens_pool", "distribution", "escrow"} :
             bal[x] \in Nat /\ bal[x] <= UserCoins + MaxHeight
      BY <2>2, <2>3, AllAccounts
    <3>2. QED BY <1>3, <2>2, <3>1, BooksNat DEF Coins, BookNames, FundsInv
  <2>6. books \in [{"bonded", "unbonding", "rewards", "escrowed"} -> Coins]
    BY <1>3, <2>5 DEF IInv, Integral, BookNames
  <2>7. QED BY <1>3, <2>1, <2>4, <2>6 DEF TypeOK, HaltInv
<1>4. QED BY <1>1, <1>2, <1>3, PTL DEF Spec

=============================================================================
